---------------------------- MODULE PaperworkProofs ----------------------------
(***************************************************************************)
(* Proofs about the office of order_service, for any number of clients,    *)
(* organizations, orders, tariffs and requests.                            *)
(*                                                                         *)
(* Contracts: the advisory lock on the pair is what keeps a second active  *)
(* contract out, and a PDF stays that of its row as long as nobody else    *)
(* uses the number.  Addresses, seller, catalogue and tariffs: what a      *)
(* request read still holds when it writes, or the crossing is noted.      *)
(* Invoices: the lock of the counter makes a number one row's, and an      *)
(* order that no two requests met on has one invoice, which says what it   *)
(* costs.  The form: its price is the order's by distributivity.  Sums: a  *)
(* total taken from a rounded price of a litre gives that price again.     *)
(***************************************************************************)
EXTENDS MCPaperwork, FiniteSums

-----------------------------------------------------------------------------
(* Contracts: the inductive invariant *)

RequestRow ==
    [step: {"lock", "number", "save", "insert", "reprint"},
     kind: {"staff", "order", "regenerate"}, pair: Pairs,
     no: ContractNos \cup {Automatic}, old: ContractNos \cup {Automatic},
     terms: ContractIds, id: ContractIds]

\* A request that has begun knows its number by the time it writes the PDF.
RequestOK(r) ==
    \/ r = Quiet
    \/ /\ r \in RequestRow
       /\ r.step = "reprint" <=> r.kind = "regenerate"
       /\ r.step \in {"save", "insert", "reprint"} => r.no \in ContractNos

ContractTypes ==
    /\ contracts \in [ContractIds -> ContractRow \cup {NoRow}]
    /\ contractReqs = [q \in ContractReqs |-> contractReqs[q]]
    /\ \A q \in ContractReqs : RequestOK(contractReqs[q])
    /\ pairLock \in [Pairs -> BOOLEAN]
    /\ lastSeq \in 0..MaxContractNo /\ month \in 0..MaxMonth /\ begunCon \in 0..MaxContractReqs

\* A request that creates a contract, and one that does it under the lock of the pair.
Creating(r) == r.step \in {"lock", "number", "save", "insert"}
Working(r)  == r.step \in {"number", "save", "insert"}

\* The row that a request will insert is its own, and is not there yet.
OwnRow ==
    /\ \A c \in Rows : c < begunCon
    /\ \A q \in ContractReqs : Creating(contractReqs[q]) =>
           /\ contractReqs[q].id \notin Rows
           /\ contractReqs[q].id < begunCon
           /\ \A x \in ContractReqs \ {q} : Creating(contractReqs[x]) =>
                  contractReqs[x].id # contractReqs[q].id

\* A request past the lock holds it alone, and the pair has no contract.
LockHeld ==
    \A q \in ContractReqs : Working(contractReqs[q]) =>
        /\ pairLock[contractReqs[q].pair]
        /\ \A c \in Rows : contracts[c].pair # contractReqs[q].pair
        /\ \A x \in ContractReqs \ {q} : Working(contractReqs[x]) =>
               contractReqs[x].pair # contractReqs[q].pair

\* What is printed anew is there, and of the pair that was read.
ReprintsRow ==
    \A q \in ContractReqs : contractReqs[q].step = "reprint" =>
        contractReqs[q].id \in Rows /\ contracts[contractReqs[q].id].pair = contractReqs[q].pair

PairsDiffer == \A c, d \in Rows : contracts[c].pair = contracts[d].pair => c = d

ContractsInv == ContractTypes /\ OwnRow /\ LockHeld /\ ReprintsRow /\ PairsDiffer

-----------------------------------------------------------------------------
(* Contracts: the shapes of a step *)

\* A row of the table is not the row of nothing.
LEMMA RowIsThere == ASSUME NEW r \in ContractRow PROVE r # NoRow
  <1>1. "pair" \in DOMAIN r /\ "pair" \notin DOMAIN NoRow
    BY DEF ContractRow, NoRow
  <1> QED BY <1>1

\* A step that writes no row, and moves one request.
LEMMA RequestMoves ==
    ASSUME ContractsInv, NEW q \in ContractReqs, UNCHANGED contracts,
           contractReqs' = [contractReqs EXCEPT ![q] = contractReqs'[q]],
           RequestOK(contractReqs'[q]),
           pairLock' \in [Pairs -> BOOLEAN],
           \A p \in Pairs : pairLock[p] /\ ~pairLock'[p] =>
               \/ Working(contractReqs[q]) /\ contractReqs[q].pair = p,
           begunCon' \in begunCon..MaxContractReqs,
           lastSeq' \in 0..MaxContractNo, month' \in 0..MaxMonth,
           Creating(contractReqs'[q]) =>
               \/ Creating(contractReqs[q]) /\ contractReqs'[q].id = contractReqs[q].id
               \/ contractReqs'[q].id = begunCon /\ begunCon' = begunCon + 1,
           Working(contractReqs'[q]) =>
               \/ /\ Working(contractReqs[q]) /\ contractReqs'[q].pair = contractReqs[q].pair
                  /\ UNCHANGED pairLock
               \/ /\ ~pairLock[contractReqs'[q].pair] /\ pairLock'[contractReqs'[q].pair]
                  /\ ActiveContracts(contractReqs'[q].pair) = {},
           contractReqs'[q].step = "reprint" =>
               contractReqs'[q].id \in Rows /\ contracts[contractReqs'[q].id].pair = contractReqs'[q].pair
    PROVE  ContractsInv'
  <1>1. Rows' = Rows /\ \A x \in ContractReqs \ {q} : contractReqs'[x] = contractReqs[x]
    BY DEF Rows, ContractsInv, ContractTypes
  <1>2. ContractTypes'
    BY <1>1 DEF ContractsInv, ContractTypes, RequestOK
  <1>3. OwnRow'
    <2>1. \A c \in Rows : c < begunCon'
      BY DEF ContractsInv, ContractTypes, OwnRow, Rows, ContractIds
    <2>2. \A x \in ContractReqs : Creating(contractReqs'[x]) => contractReqs'[x].id \in ContractIds
      BY <1>2 DEF ContractTypes, RequestOK, RequestRow, Creating, Quiet
    <2>3. \A x \in ContractReqs : Creating(contractReqs'[x]) =>
              contractReqs'[x].id \notin Rows /\ contractReqs'[x].id < begunCon'
      BY <1>1, <2>2 DEF ContractsInv, ContractTypes, OwnRow, Rows, ContractIds
    <2>4. \A x \in ContractReqs : \A y \in ContractReqs \ {x} :
              Creating(contractReqs'[x]) /\ Creating(contractReqs'[y]) =>
                  contractReqs'[x].id # contractReqs'[y].id
      BY <1>1, <2>2 DEF ContractsInv, ContractTypes, OwnRow, ContractIds
    <2> QED BY <1>1, <2>1, <2>3, <2>4 DEF OwnRow, Creating
  <1>4. LockHeld'
    <2>1. \A x \in ContractReqs : Working(contractReqs'[x]) => contractReqs'[x].pair \in Pairs
      BY <1>2 DEF ContractTypes, RequestOK, RequestRow, Working, Quiet
    <2>2. \A x \in ContractReqs : Working(contractReqs'[x]) => pairLock'[contractReqs'[x].pair]
      BY <1>1, <2>1 DEF ContractsInv, LockHeld
    <2>3. \A x \in ContractReqs : Working(contractReqs'[x]) =>
              \A c \in Rows : contracts[c].pair # contractReqs'[x].pair
      BY <1>1, <2>1 DEF ContractsInv, LockHeld, ActiveContracts
    <2>4. \A x \in ContractReqs : \A y \in ContractReqs \ {x} :
              Working(contractReqs'[x]) /\ Working(contractReqs'[y]) =>
                  contractReqs'[x].pair # contractReqs'[y].pair
      BY <1>1, <2>1 DEF ContractsInv, LockHeld
    <2> QED BY <1>1, <2>2, <2>3, <2>4 DEF LockHeld, Working
  <1>5. ReprintsRow'
    BY <1>1 DEF ContractsInv, ReprintsRow
  <1>6. PairsDiffer'
    BY <1>1 DEF ContractsInv, PairsDiffer
  <1> QED BY <1>2, <1>3, <1>4, <1>5, <1>6 DEF ContractsInv

\* The lock of a request that ends is released, if it was one that creates.
LEMMA EndsOne ==
    ASSUME ContractsInv, NEW q \in ContractReqs, Ended(q), contractReqs[q] # Quiet
    PROVE  /\ contractReqs' = [contractReqs EXCEPT ![q] = contractReqs'[q]]
           /\ contractReqs'[q] = Quiet
           /\ contractReqs[q] \in RequestRow /\ contractReqs[q].pair \in Pairs
           /\ pairLock' \in [Pairs -> BOOLEAN]
           /\ \A p \in Pairs : pairLock[p] /\ ~pairLock'[p] =>
                  contractReqs[q].pair = p /\ contractReqs[q].kind # "regenerate"
           /\ ~Creating(Quiet) /\ ~Working(Quiet) /\ Quiet.step = "quiet" /\ RequestOK(Quiet)
  <1>1. contractReqs[q] \in RequestRow
    BY DEF ContractsInv, ContractTypes, RequestOK
  <1>2. contractReqs[q].pair \in Pairs
    BY <1>1 DEF RequestRow
  <1>3. contractReqs' = [contractReqs EXCEPT ![q] = contractReqs'[q]] /\ contractReqs'[q] = Quiet
    BY DEF Ended, ContractsInv, ContractTypes
  <1>4. pairLock' \in [Pairs -> BOOLEAN]
    BY <1>2, Zenon DEF Ended, ContractsInv, ContractTypes
  <1>5. \A p \in Pairs : pairLock[p] /\ ~pairLock'[p] =>
            contractReqs[q].pair = p /\ contractReqs[q].kind # "regenerate"
    BY <1>2 DEF Ended, ContractsInv, ContractTypes
  <1>6. ~Creating(Quiet) /\ ~Working(Quiet) /\ Quiet.step = "quiet" /\ RequestOK(Quiet)
    BY DEF Quiet, Creating, Working, RequestOK
  <1> QED BY <1>1, <1>2, <1>3, <1>4, <1>5, <1>6

\* A request that ends without a row.
LEMMA EndsKeeps ==
    ASSUME ContractsInv, NEW q \in ContractReqs, Ended(q),
           Step(q) \in {"number", "save", "insert", "reprint"},
           UNCHANGED <<contracts, lastSeq, month, begunCon>>
    PROVE  ContractsInv'
  <1>1. contractReqs[q] # Quiet
    BY DEF Step, Quiet
  <1>2. Step(q) = "reprint" <=> contractReqs[q].kind = "regenerate"
    BY <1>1 DEF ContractsInv, ContractTypes, RequestOK, Step
  <1>3. \A p \in Pairs : pairLock[p] /\ ~pairLock'[p] =>
            Working(contractReqs[q]) /\ contractReqs[q].pair = p
    BY <1>1, <1>2, EndsOne DEF Working, Step
  <1>4. /\ begunCon' \in begunCon..MaxContractReqs
        /\ lastSeq' \in 0..MaxContractNo /\ month' \in 0..MaxMonth
    BY ContractsAssumption DEF ContractsInv, ContractTypes
  <1> QED BY <1>1, <1>3, <1>4, EndsOne, RequestMoves

-----------------------------------------------------------------------------
(* Contracts: the actions *)

\* Before the first request there are no contracts and no locks.
LEMMA InitHolds == ConInit => ContractsInv
  <1> SUFFICES ASSUME ConInit PROVE ContractsInv
    OBVIOUS
  <1>1. Rows = {}
    BY DEF ConInit, Rows
  <1>2. \A q \in ContractReqs : contractReqs[q] = Quiet
    BY DEF ConInit
  <1>3. ~Creating(Quiet) /\ ~Working(Quiet) /\ Quiet.step # "reprint" /\ RequestOK(Quiet)
    BY DEF Quiet, Creating, Working, RequestOK
  <1>4. ContractTypes
    BY <1>2, <1>3, ContractsAssumption DEF ConInit, ContractTypes
  <1> QED BY <1>1, <1>2, <1>3, <1>4 DEF ContractsInv, OwnRow, LockHeld, ReprintsRow, PairsDiffer

\* A request that begins has a row of its own name, and no lock.
LEMMA BeginKeeps ==
    ASSUME ContractsInv, NEW q \in ContractReqs, NEW r,
           RequestOK(r), r.step \in {"lock", "reprint"},
           r.step = "lock" => r.id = begunCon,
           r.step = "reprint" => r.id \in Rows /\ contracts[r.id].pair = r.pair,
           BeginCon(q, r), UNCHANGED <<contracts, lastSeq, pairLock, month>>
    PROVE  ContractsInv'
  <1>1. contractReqs' = [contractReqs EXCEPT ![q] = contractReqs'[q]] /\ contractReqs'[q] = r
    BY DEF BeginCon, ContractsInv, ContractTypes
  <1>2. ~Working(r) /\ (Creating(r) => r.step = "lock")
    BY DEF Working, Creating
  <1>3. /\ begunCon' \in begunCon..MaxContractReqs /\ begunCon' = begunCon + 1
        /\ lastSeq' \in 0..MaxContractNo /\ month' \in 0..MaxMonth /\ pairLock' \in [Pairs -> BOOLEAN]
    BY ContractsAssumption DEF BeginCon, ContractsInv, ContractTypes
  <1> QED BY <1>1, <1>2, <1>3, RequestMoves

\* A request that creates a contract takes an id of its own.
LEMMA NewRequestKeeps ==
    ASSUME ContractsInv, NEW q \in ContractReqs, NEW kind \in {"staff", "order"}, NEW p \in Pairs,
           NEW n \in ContractNos \cup {Automatic},
           BeginCon(q, NewRequest(kind, p, n)), UNCHANGED <<contracts, lastSeq, pairLock, month>>
    PROVE  ContractsInv'
  <1>1. begunCon \in ContractIds
    BY ContractsAssumption DEF BeginCon, ContractIds, ContractsInv, ContractTypes
  <1>2. NewRequest(kind, p, n) \in RequestRow
    BY <1>1 DEF NewRequest, RequestRow
  <1>3. /\ NewRequest(kind, p, n).step = "lock" /\ NewRequest(kind, p, n).kind # "regenerate"
        /\ NewRequest(kind, p, n).id = begunCon
    BY DEF NewRequest
  <1>4. RequestOK(NewRequest(kind, p, n))
    BY <1>2, <1>3 DEF RequestOK
  <1> QED BY <1>3, <1>4, BeginKeeps

\* A request that prints anew has read its row.
LEMMA RegenerateBeginKeeps ==
    ASSUME ContractsInv, NEW q \in ContractReqs, NEW c \in ContractIds, NEW n \in ContractNos,
           RegenerateBegin(q, c, n)
    PROVE  ContractsInv'
  <1> DEFINE r == [step |-> "reprint", kind |-> "regenerate", pair |-> contracts[c].pair, no |-> n,
                   old |-> contracts[c].no, terms |-> begunCon, id |-> c]
  <1>1. c \in Rows /\ contracts[c] \in ContractRow /\ begunCon \in ContractIds
    BY ContractsAssumption DEF RegenerateBegin, BeginCon, Rows, ContractsInv, ContractTypes, ContractIds
  <1>2. r \in RequestRow
    BY <1>1 DEF RequestRow, ContractRow
  <1>3. RequestOK(r)
    BY <1>2 DEF RequestOK
  <1>4. BeginCon(q, r) /\ UNCHANGED <<contracts, lastSeq, pairLock, month>>
    BY DEF RegenerateBegin
  <1>5. r.step = "reprint" /\ r.id = c /\ r.pair = contracts[c].pair
    OBVIOUS
  <1> HIDE DEF r
  <1> QED BY <1>1, <1>3, <1>4, <1>5, BeginKeeps

\* A request that is under way.
LEMMA UnderWay ==
    ASSUME ContractsInv, NEW q \in ContractReqs, Step(q) # "quiet"
    PROVE  /\ contractReqs[q] \in RequestRow /\ contractReqs[q] # Quiet
           /\ contractReqs[q].pair \in Pairs /\ contractReqs[q].id \in ContractIds
           /\ Step(q) = "reprint" <=> contractReqs[q].kind = "regenerate"
           /\ Step(q) \in {"save", "insert", "reprint"} => contractReqs[q].no \in ContractNos
           /\ DOMAIN contractReqs = ContractReqs
  <1>1. contractReqs[q] # Quiet
    BY DEF Step, Quiet
  <1>2. contractReqs[q] \in RequestRow
    BY <1>1 DEF ContractsInv, ContractTypes, RequestOK
  <1> QED BY <1>1, <1>2 DEF ContractsInv, ContractTypes, RequestOK, RequestRow, Step

\* The counters stay in their bounds when they are not moved.
LEMMA CountersKept ==
    ASSUME ContractsInv, UNCHANGED <<lastSeq, month, begunCon>>
    PROVE  /\ begunCon' \in begunCon..MaxContractReqs
           /\ lastSeq' \in 0..MaxContractNo /\ month' \in 0..MaxMonth
  BY ContractsAssumption DEF ContractsInv, ContractTypes

\* The advisory lock: a pair that has a contract ends the request, another is locked.
LEMMA CreateLockKeeps ==
    ASSUME ContractsInv, NEW q \in ContractReqs, CreateLock(q)
    PROVE  ContractsInv'
  <1> DEFINE r == contractReqs[q]
             p == contractReqs[q].pair
  <1>1. /\ r \in RequestRow /\ p \in Pairs /\ r.step = "lock" /\ r.kind # "regenerate"
        /\ DOMAIN contractReqs = ContractReqs
    BY UnderWay DEF CreateLock, Step
  <1>2. CASE ActiveContracts(p) # {}
    <2>1. contractReqs' = [contractReqs EXCEPT ![q] = contractReqs'[q]] /\ contractReqs'[q] = Quiet
      BY <1>1, <1>2 DEF CreateLock, ContractsInv, ContractTypes
    <2>2. UNCHANGED <<contracts, lastSeq, pairLock, month, begunCon>>
      BY <1>2 DEF CreateLock
    <2>3. ~Creating(Quiet) /\ ~Working(Quiet) /\ Quiet.step = "quiet" /\ RequestOK(Quiet)
      BY DEF Quiet, Creating, Working, RequestOK
    <2>4. pairLock' \in [Pairs -> BOOLEAN]
      BY <2>2 DEF ContractsInv, ContractTypes
    <2> QED BY <2>1, <2>2, <2>3, <2>4, CountersKept, RequestMoves
  <1>3. CASE ActiveContracts(p) = {}
    <2>1. /\ contractReqs' = [contractReqs EXCEPT ![q] = contractReqs'[q]]
          /\ contractReqs'[q] = [r EXCEPT !.step = "number"]
          /\ pairLock' = [pairLock EXCEPT ![p] = TRUE] /\ ~pairLock[p]
          /\ UNCHANGED <<contracts, lastSeq, month, begunCon>>
      BY <1>1, <1>3 DEF CreateLock, ContractsInv, ContractTypes
    <2>2. /\ contractReqs'[q] \in RequestRow /\ contractReqs'[q].step = "number"
          /\ contractReqs'[q].kind = r.kind /\ contractReqs'[q].pair = p /\ contractReqs'[q].id = r.id
      BY <1>1, <2>1 DEF RequestRow
    <2>3. RequestOK(contractReqs'[q])
      BY <1>1, <2>2 DEF RequestOK
    <2>4. pairLock' \in [Pairs -> BOOLEAN] /\ pairLock'[p] /\ \A x \in Pairs : pairLock[x] => pairLock'[x]
      BY <1>1, <2>1 DEF ContractsInv, ContractTypes
    <2>5. Creating(contractReqs[q])
      BY <1>1 DEF Creating
    <2> HIDE DEF r, p
    <2> QED BY <1>3, <2>1, <2>2, <2>3, <2>4, <2>5, CountersKept, RequestMoves DEF r, p
  <1> QED BY <1>2, <1>3

\* A request that knows its number, or has written its PDF, goes on under its lock.
LEMMA GoesOn ==
    ASSUME ContractsInv, NEW q \in ContractReqs, Step(q) \in {"number", "save"},
           NEW step \in {"save", "insert"}, NEW no \in ContractNos,
           contractReqs' = [contractReqs EXCEPT ![q] = [contractReqs[q] EXCEPT !.step = step, !.no = no]],
           UNCHANGED <<contracts, lastSeq, pairLock, month, begunCon>>
    PROVE  ContractsInv'
  <1>1. /\ contractReqs[q] \in RequestRow /\ contractReqs[q].kind # "regenerate"
        /\ DOMAIN contractReqs = ContractReqs
    BY UnderWay
  <1>2. /\ contractReqs'[q] = [contractReqs[q] EXCEPT !.step = step, !.no = no]
        /\ contractReqs' = [contractReqs EXCEPT ![q] = contractReqs'[q]]
    BY <1>1
  <1>3. /\ contractReqs'[q] \in RequestRow /\ contractReqs'[q].step = step /\ contractReqs'[q].no = no
        /\ contractReqs'[q].kind = contractReqs[q].kind /\ contractReqs'[q].pair = contractReqs[q].pair
        /\ contractReqs'[q].id = contractReqs[q].id
    BY <1>1, <1>2 DEF RequestRow
  <1>4. RequestOK(contractReqs'[q])
    BY <1>1, <1>3 DEF RequestOK
  <1>5. Creating(contractReqs[q]) /\ Working(contractReqs[q]) /\ contractReqs'[q].step # "reprint"
    BY <1>3 DEF Creating, Working, Step
  <1>6. pairLock' \in [Pairs -> BOOLEAN]
    BY DEF ContractsInv, ContractTypes
  <1> QED BY <1>2, <1>3, <1>4, <1>5, <1>6, CountersKept, RequestMoves

\* Under the lock of the pair a number is found and the PDF is written; no row changes.
LEMMA NumberKeeps ==
    ASSUME ContractsInv, NEW q \in ContractReqs, TypedNumber(q) \/ NextNumber(q) \/ SavePdf(q)
    PROVE  ContractsInv'
  <1>0. Step(q) # "quiet"
    BY DEF TypedNumber, NextNumber, SavePdf
  <1>1. CASE TypedNumber(q)
    <2>1. CASE NumberFree(contractReqs[q].no)
      <3>1. /\ contractReqs[q] \in RequestRow /\ contractReqs[q].no \in ContractNos
        BY <1>0, <1>1, UnderWay DEF TypedNumber, RequestRow
      <3>2. [contractReqs[q] EXCEPT !.step = "save", !.no = contractReqs[q].no]
                = [contractReqs[q] EXCEPT !.step = "save"]
        BY <3>1 DEF RequestRow
      <3>3. contractReqs' = [contractReqs EXCEPT ![q] = [contractReqs[q] EXCEPT !.step = "save"]]
        BY <1>1, <2>1 DEF TypedNumber
      <3> QED BY <1>1, <2>1, <3>1, <3>2, <3>3, GoesOn DEF TypedNumber
    <2>2. CASE ~NumberFree(contractReqs[q].no)
      BY <1>1, <2>2, EndsKeeps DEF TypedNumber
    <2> QED BY <2>1, <2>2
  <1>2. CASE NextNumber(q)
    <2>1. <<lastSeq + 1, month>> \in ContractNos
      BY <1>2, ContractsAssumption DEF NextNumber, ContractNos, ContractsInv, ContractTypes
    <2>2. contractReqs' = [contractReqs EXCEPT ![q] =
              [contractReqs[q] EXCEPT !.step = "save", !.no = <<lastSeq + 1, month>>]]
      BY <1>2 DEF NextNumber
    <2> QED BY <1>2, <2>1, <2>2, GoesOn DEF NextNumber
  <1>3. CASE SavePdf(q)
    <2>1. contractReqs[q] \in RequestRow /\ contractReqs[q].no \in ContractNos
      BY <1>0, <1>3, UnderWay DEF SavePdf
    <2>2. [contractReqs[q] EXCEPT !.step = "insert", !.no = contractReqs[q].no]
              = [contractReqs[q] EXCEPT !.step = "insert"]
      BY <2>1 DEF RequestRow
    <2>3. contractReqs' = [contractReqs EXCEPT ![q] = [contractReqs[q] EXCEPT !.step = "insert"]]
      BY <1>3 DEF SavePdf
    <2>4. Step(q) \in {"number", "save"} /\ UNCHANGED <<contracts, lastSeq, pairLock, month, begunCon>>
      BY <1>3 DEF SavePdf
    <2> QED BY <2>1, <2>2, <2>3, <2>4, GoesOn
  <1> QED BY <1>1, <1>2, <1>3

\* The insert: the row that was the request's own, for a pair that has none.
LEMMA InsertKeeps ==
    ASSUME ContractsInv, NEW q \in ContractReqs, InsertContract(q)
    PROVE  ContractsInv'
  <1> DEFINE r == contractReqs[q]
             row == [pair |-> r.pair, no |-> r.no, terms |-> r.terms, file |-> PathOf(r.pair, r.no)]
  <1>1. /\ r \in RequestRow /\ r.pair \in Pairs /\ r.id \in ContractIds /\ r.no \in ContractNos
        /\ r.terms \in ContractIds /\ r.kind # "regenerate" /\ r # Quiet /\ r.step = "insert"
    BY UnderWay DEF InsertContract, Step, RequestRow
  <1>2. row \in ContractRow /\ row.pair = r.pair
    <2>1. PathOf(r.pair, r.no) \in Folder
      BY <1>1 DEF PathOf, Folder, Pairs
    <2> QED BY <1>1, <2>1 DEF ContractRow
  <1>3. contracts' = [contracts EXCEPT ![r.id] = row] /\ Ended(q) /\ UNCHANGED <<month, begunCon>>
    BY DEF InsertContract
  <1>4. r.id \notin Rows /\ Working(r) /\ Creating(r)
    BY <1>1 DEF ContractsInv, OwnRow, Creating, Working
  <1> HIDE DEF row
  <1>5. /\ contracts' \in [ContractIds -> ContractRow \cup {NoRow}]
        /\ contracts'[r.id] = row /\ \A c \in Rows : contracts'[c] = contracts[c]
        /\ Rows' = Rows \cup {r.id}
    <2>1. row # NoRow
      BY <1>2, RowIsThere
    <2>2. DOMAIN contracts = ContractIds /\ contracts \in [ContractIds -> ContractRow \cup {NoRow}]
      BY DEF ContractsInv, ContractTypes
    <2> HIDE DEF r
    <2> QED BY <1>1, <1>2, <1>3, <1>4, <2>1, <2>2 DEF Rows
  <1>6. lastSeq' \in 0..MaxContractNo
    BY <1>1 DEF InsertContract, ContractNos, ContractsInv, ContractTypes
  <1>7. /\ contractReqs' = [contractReqs EXCEPT ![q] = Quiet] /\ pairLock' \in [Pairs -> BOOLEAN]
        /\ \A p \in Pairs : pairLock[p] /\ ~pairLock'[p] => r.pair = p
        /\ ~Creating(Quiet) /\ ~Working(Quiet) /\ Quiet.step = "quiet" /\ RequestOK(Quiet)
    BY <1>1, <1>3, EndsOne
  <1>8. /\ contractReqs'[q] = Quiet /\ \A x \in ContractReqs \ {q} : contractReqs'[x] = contractReqs[x]
        /\ contractReqs' = [x \in ContractReqs |-> contractReqs'[x]]
    BY <1>7 DEF ContractsInv, ContractTypes
  <1>9. ContractTypes'
    BY <1>3, <1>5, <1>6, <1>7, <1>8 DEF ContractsInv, ContractTypes, RequestOK
  <1>10. OwnRow'
    BY <1>1, <1>3, <1>4, <1>5, <1>7, <1>8 DEF ContractsInv, OwnRow, Creating
  <1>11. LockHeld'
    <2> SUFFICES ASSUME NEW x \in ContractReqs, Working(contractReqs'[x])
                 PROVE  /\ pairLock'[contractReqs'[x].pair]
                        /\ \A c \in Rows' : contracts'[c].pair # contractReqs'[x].pair
                        /\ \A y \in ContractReqs \ {x} : Working(contractReqs'[y]) =>
                               contractReqs'[y].pair # contractReqs'[x].pair
      BY DEF LockHeld, Working
    <2>1. x # q /\ contractReqs'[x] = contractReqs[x] /\ Working(contractReqs[x])
      BY <1>7, <1>8
    <2>2. contractReqs[x].pair # r.pair /\ contractReqs[x].pair \in Pairs
      BY <1>4, <2>1 DEF ContractsInv, LockHeld, ContractTypes, RequestOK, RequestRow, Working, Quiet
    <2>3. /\ pairLock[contractReqs[x].pair] /\ \A c \in Rows : contracts[c].pair # contractReqs[x].pair
          /\ \A y \in ContractReqs \ {x} : Working(contractReqs[y]) => contractReqs[y].pair # contractReqs[x].pair
      BY <2>1 DEF ContractsInv, LockHeld
    <2> QED BY <1>2, <1>5, <1>7, <1>8, <2>1, <2>2, <2>3
  <1>12. ReprintsRow'
    BY <1>5, <1>7, <1>8 DEF ContractsInv, ReprintsRow
  <1>13. PairsDiffer'
    <2>1. \A c \in Rows : contracts[c].pair # r.pair
      BY <1>4 DEF ContractsInv, LockHeld
    <2> QED BY <1>2, <1>5, <2>1 DEF ContractsInv, PairsDiffer
  <1> QED BY <1>9, <1>10, <1>11, <1>12, <1>13 DEF ContractsInv

\* A contract that is printed anew stays the contract of its pair.
LEMMA RegenerateKeeps ==
    ASSUME ContractsInv, NEW q \in ContractReqs, Regenerate(q)
    PROVE  ContractsInv'
  <1> DEFINE r == contractReqs[q]
             row == contracts'[r.id]
  <1>1. /\ r \in RequestRow /\ r.pair \in Pairs /\ r.id \in ContractIds /\ r.no \in ContractNos
        /\ r.terms \in ContractIds /\ r.kind = "regenerate" /\ r # Quiet /\ r.step = "reprint"
    BY UnderWay DEF Regenerate, Step, RequestRow
  <1>2. r.id \in Rows /\ contracts[r.id] \in ContractRow
    BY <1>1 DEF ContractsInv, ContractTypes, ReprintsRow, Rows
  <1>3. PathOf(r.pair, r.no) \in Folder
    BY <1>1 DEF PathOf, Folder, Pairs
  <1>4. /\ contracts' = [contracts EXCEPT ![r.id] = row]
        /\ row \in ContractRow /\ row.pair = contracts[r.id].pair
    <2>1. PICK no \in ContractNos, file \in Folder :
              contracts' = [contracts EXCEPT ![r.id].terms = r.terms, ![r.id].no = no, ![r.id].file = file]
      BY <1>1, <1>2, <1>3 DEF Regenerate, ContractRow
    <2>2. row = [contracts[r.id] EXCEPT !.terms = r.terms, !.no = no, !.file = file]
      BY <1>1, <2>1 DEF ContractsInv, ContractTypes
    <2>3. contracts' = [contracts EXCEPT ![r.id] = row]
      BY <1>1, <2>1, <2>2 DEF ContractsInv, ContractTypes
    <2> QED BY <1>1, <1>2, <2>2, <2>3 DEF ContractRow
  <1>5. Ended(q) /\ UNCHANGED <<lastSeq, month, begunCon>>
    BY DEF Regenerate
  <1> HIDE DEF row
  <1>6. /\ contracts' \in [ContractIds -> ContractRow \cup {NoRow}]
        /\ \A c \in ContractIds : contracts'[c].pair = contracts[c].pair
        /\ Rows' = Rows
    <2>1. row # NoRow
      BY <1>4, RowIsThere
    <2>2. DOMAIN contracts = ContractIds /\ contracts \in [ContractIds -> ContractRow \cup {NoRow}]
      BY DEF ContractsInv, ContractTypes
    <2> HIDE DEF r
    <2> QED BY <1>1, <1>2, <1>4, <2>1, <2>2 DEF Rows
  <1>7. /\ contractReqs' = [contractReqs EXCEPT ![q] = Quiet] /\ pairLock' \in [Pairs -> BOOLEAN]
        /\ \A p \in Pairs : pairLock[p] => pairLock'[p]
        /\ ~Creating(Quiet) /\ ~Working(Quiet) /\ Quiet.step = "quiet" /\ RequestOK(Quiet)
    BY <1>1, <1>5, EndsOne
  <1>8. /\ contractReqs'[q] = Quiet /\ \A x \in ContractReqs \ {q} : contractReqs'[x] = contractReqs[x]
        /\ contractReqs' = [x \in ContractReqs |-> contractReqs'[x]]
    BY <1>7 DEF ContractsInv, ContractTypes
  <1>9. ContractTypes'
    BY <1>5, <1>6, <1>7, <1>8 DEF ContractsInv, ContractTypes, RequestOK
  <1>10. OwnRow'
    BY <1>5, <1>6, <1>7, <1>8 DEF ContractsInv, OwnRow, Creating
  <1>11. LockHeld'
    <2>1. \A x \in ContractReqs : Working(contractReqs'[x]) =>
              /\ x # q /\ contractReqs'[x] = contractReqs[x] /\ contractReqs[x].pair \in Pairs
      BY <1>7, <1>8 DEF ContractsInv, ContractTypes, RequestOK, RequestRow, Working, Quiet
    <2>2. \A c \in Rows : c \in ContractIds
      BY DEF Rows
    <2> QED BY <1>6, <1>7, <1>8, <2>1, <2>2 DEF ContractsInv, LockHeld, Working
  <1>12. ReprintsRow'
    BY <1>6, <1>7, <1>8 DEF ContractsInv, ReprintsRow, Rows
  <1>13. PairsDiffer'
    BY <1>6 DEF ContractsInv, PairsDiffer, Rows
  <1> QED BY <1>9, <1>10, <1>11, <1>12, <1>13 DEF ContractsInv

\* Every step keeps the invariant.
LEMMA ContractsStep == ContractsInv /\ [ConNext]_contractVars => ContractsInv'
  <1> SUFFICES ASSUME ContractsInv, [ConNext]_contractVars PROVE ContractsInv'
    OBVIOUS
  <1>1. ASSUME NEW q \in ContractReqs, NEW p \in Pairs,
               \/ \E n \in ContractNos \cup {Automatic} : StaffBegin(q, p, n)
               \/ CardBegin(q, p) \/ OrderBegin(q, p)
        PROVE  ContractsInv'
    <2>1. ASSUME NEW n \in ContractNos \cup {Automatic}, StaffBegin(q, p, n) PROVE ContractsInv'
      BY <2>1, NewRequestKeeps DEF StaffBegin
    <2>2. CASE CardBegin(q, p)
      BY <2>1, <2>2 DEF CardBegin
    <2>3. CASE OrderBegin(q, p)
      BY <2>3, NewRequestKeeps DEF OrderBegin
    <2> QED BY <1>1, <2>1, <2>2, <2>3
  <1>2. ASSUME NEW q \in ContractReqs,
               \/ CreateLock(q) \/ CreateRefused(q) \/ TypedNumber(q) \/ NextNumber(q) \/ SavePdf(q)
               \/ InsertContract(q) \/ InsertRefused(q) \/ CreateCut(q) \/ Regenerate(q) \/ RegenerateFails(q)
        PROVE  ContractsInv'
    <2>1. CASE CreateRefused(q) \/ InsertRefused(q) \/ CreateCut(q) \/ RegenerateFails(q)
      BY <2>1, EndsKeeps DEF CreateRefused, InsertRefused, CreateCut, RegenerateFails
    <2> QED BY <1>2, <2>1, CreateLockKeeps, NumberKeeps, InsertKeeps, RegenerateKeeps
  <1>3. ASSUME NEW q \in ContractReqs, NEW c \in ContractIds, NEW n \in ContractNos,
               RegenerateBegin(q, c, n)
        PROVE  ContractsInv'
    BY <1>3, RegenerateBeginKeeps
  <1>4. CASE MonthPasses \/ UNCHANGED contractVars
    <2>1. UNCHANGED <<contracts, lastSeq, pairLock, contractReqs, begunCon>> /\ month' \in 0..MaxMonth
      BY <1>4, ContractsAssumption DEF MonthPasses, contractVars, ContractsInv, ContractTypes
    <2>2. Rows' = Rows
      BY <2>1 DEF Rows
    <2> QED BY <2>1, <2>2 DEF ContractsInv, ContractTypes, OwnRow, LockHeld, ReprintsRow, PairsDiffer
  <1> QED BY <1>1, <1>2, <1>3, <1>4 DEF ConNext

-----------------------------------------------------------------------------
\* However many orders and managers ask for the contract of a client with an organization
\* at the same moment, and whatever is printed anew meanwhile, one is active.
THEOREM OneContractPerPair == ConSpec => []OneActivePerPair
  <1>1. ASSUME ContractsInv PROVE OneActivePerPair
    <2> SUFFICES ASSUME NEW p \in Pairs PROVE Cardinality(ActiveContracts(p)) <= 1
      BY DEF OneActivePerPair
    <2>1. \A c, d \in ActiveContracts(p) : c = d
      BY <1>1 DEF ContractsInv, PairsDiffer, ActiveContracts
    <2>2. CASE ActiveContracts(p) = {}
      BY <2>2, FS_EmptySet
    <2>3. CASE ActiveContracts(p) # {}
      <3>1. PICK c \in ActiveContracts(p) : ActiveContracts(p) = {c}
        BY <2>1, <2>3
      <3>2. Cardinality({c}) = 1
        BY FS_Singleton
      <3> QED BY <3>1, <3>2
    <2> QED BY <2>2, <2>3
  <1> QED BY InitHolds, ContractsStep, <1>1, PTL DEF ConSpec

-----------------------------------------------------------------------------
(* Contracts: rows and files *)

FileRow == [pair: Pairs, no: ContractNos, terms: ContractIds]

FilesTyped == cabinet \in [Folder -> FileRow \cup {NoFile}] /\ seqLock \in BOOLEAN

FilesAtNumbers == \A c \in Rows : contracts[c].file = PathOf(contracts[c].pair, contracts[c].no)

\* What was printed for a row to come is still there.
SavedSays ==
    \A q \in ContractReqs : contractReqs[q].step = "insert" /\ contractReqs[q].no \notin contestedNos =>
        cabinet[PathOf(contractReqs[q].pair, contractReqs[q].no)] = Says(q)

\* The number that was read is still the row's, and nobody else prints the contract.
ReprintsCurrent ==
    \A q \in ContractReqs : contractReqs[q].step = "reprint" /\ contractReqs[q].pair \notin crossed =>
        /\ contracts[contractReqs[q].id].no = contractReqs[q].old
        /\ \A x \in ContractReqs \ {q} : contractReqs[x].step = "reprint" =>
               contractReqs[x].pair # contractReqs[q].pair

FilesInv ==
    ContractsInv /\ FilesTyped /\ FilesAtNumbers /\ SavedSays /\ ReprintsCurrent /\ FileSaysContract

\* Before the first request there are no files.
LEMMA FilesStart == ConInit => FilesInv
  <1> SUFFICES ASSUME ConInit PROVE FilesInv
    OBVIOUS
  <1>1. Rows = {} /\ \A q \in ContractReqs : contractReqs[q].step = "quiet"
    BY DEF ConInit, Rows, Quiet
  <1>2. FilesTyped
    BY DEF ConInit, FilesTyped
  <1> QED BY <1>1, <1>2, InitHolds
          DEF FilesInv, FilesAtNumbers, SavedSays, ReprintsCurrent, FileSaysContract

\* A step that touches no row and no file.
LEMMA FilesStay ==
    ASSUME FilesInv, ContractsInv',
           UNCHANGED <<contracts, cabinet, contestedNos>>, crossed \subseteq crossed', seqLock' \in BOOLEAN,
           \A q \in ContractReqs : contractReqs'[q].step = "insert" => contractReqs'[q] = contractReqs[q],
           \A q \in ContractReqs : contractReqs'[q].step = "reprint" /\ contractReqs'[q].pair \notin crossed' =>
               /\ contracts[contractReqs'[q].id].no = contractReqs'[q].old
               /\ \A x \in ContractReqs \ {q} : contractReqs'[x].step = "reprint" =>
                      contractReqs'[x].pair # contractReqs'[q].pair
    PROVE  FilesInv'
  <1>1. Rows' = Rows
    BY DEF Rows
  <1>2. FilesTyped' /\ FilesAtNumbers'
    BY <1>1 DEF FilesInv, FilesTyped, FilesAtNumbers
  <1>3. SavedSays'
    BY DEF FilesInv, SavedSays, Says
  <1>4. ReprintsCurrent'
    BY DEF ReprintsCurrent
  <1>5. FileSaysContract'
    BY <1>1 DEF FilesInv, FileSaysContract, PdfOfContract
  <1> QED BY <1>2, <1>3, <1>4, <1>5 DEF FilesInv

\* ... and gives one request another step that is neither of the two that print.
LEMMA FilesStayAlone ==
    ASSUME FilesInv, ContractsInv', NEW q \in ContractReqs,
           UNCHANGED <<contracts, cabinet, contestedNos, crossed>>, seqLock' \in BOOLEAN,
           \A x \in ContractReqs \ {q} : contractReqs'[x] = contractReqs[x],
           contractReqs'[q].step \notin {"insert", "reprint"}
    PROVE  FilesInv'
  <1>1. \A x \in ContractReqs : contractReqs'[x].step \in {"insert", "reprint"} =>
            contractReqs'[x] = contractReqs[x]
    OBVIOUS
  <1>2. \A x \in ContractReqs : contractReqs'[x].step = "reprint" /\ contractReqs'[x].pair \notin crossed' =>
               /\ contracts[contractReqs'[x].id].no = contractReqs'[x].old
               /\ \A y \in ContractReqs \ {x} : contractReqs'[y].step = "reprint" =>
                      contractReqs'[y].pair # contractReqs'[x].pair
    BY <1>1 DEF FilesInv, ReprintsCurrent
  <1> QED BY <1>1, <1>2, FilesStay

\* Only the request itself moves.
LEMMA OthersStay ==
    ASSUME ContractsInv, NEW q \in ContractReqs, NEW r, contractReqs' = [contractReqs EXCEPT ![q] = r]
    PROVE  contractReqs'[q] = r /\ \A x \in ContractReqs \ {q} : contractReqs'[x] = contractReqs[x]
  BY DEF ContractsInv, ContractTypes

\* A creation begins, waits for its lock, finds its number or ends without a row.
LEMMA QuietStepsKeepFiles ==
    ASSUME FilesInv, ContractsInv', NEW q \in ContractReqs,
           \/ \E p \in Pairs, n \in ContractNos \cup {Automatic} : StaffBegin(q, p, n)
           \/ \E p \in Pairs : OrderBegin(q, p)
           \/ CreateLock(q) \/ CreateRefused(q) \/ TypedNumber(q) \/ NextNumber(q)
           \/ InsertRefused(q) \/ CreateCut(q) \/ RegenerateFails(q)
    PROVE  FilesInv'
  <1>1. UNCHANGED <<contracts, cabinet, contestedNos, crossed>>
    BY DEF StaffBegin, OrderBegin, CreateLock, CreateRefused, TypedNumber, NextNumber,
           InsertRefused, CreateCut, RegenerateFails
  <1>2. seqLock' \in BOOLEAN
    BY DEF FilesInv, FilesTyped, StaffBegin, OrderBegin, CreateLock, CreateRefused, TypedNumber, NextNumber,
           InsertRefused, CreateCut, RegenerateFails
  <1>3. PICK r : contractReqs' = [contractReqs EXCEPT ![q] = r] /\ r.step \notin {"insert", "reprint"}
    <2>1. Quiet.step \notin {"insert", "reprint"}
      BY DEF Quiet
    <2>2. ASSUME NEW kind, NEW p, NEW n
          PROVE  NewRequest(kind, p, n).step \notin {"insert", "reprint"}
      BY DEF NewRequest
    <2>3. CASE \/ \E p \in Pairs, n \in ContractNos \cup {Automatic} : StaffBegin(q, p, n)
               \/ \E p \in Pairs : OrderBegin(q, p)
      BY <2>2, <2>3 DEF StaffBegin, OrderBegin, BeginCon
    <2>4. CASE CreateRefused(q) \/ InsertRefused(q) \/ CreateCut(q) \/ RegenerateFails(q)
      BY <2>1, <2>4 DEF CreateRefused, InsertRefused, CreateCut, RegenerateFails, Ended
    <2>5. ASSUME CreateLock(q) \/ TypedNumber(q) \/ NextNumber(q)
          PROVE  /\ [contractReqs[q] EXCEPT !.step = "number"].step = "number"
                 /\ [contractReqs[q] EXCEPT !.step = "save"].step = "save"
                 /\ \A n : [contractReqs[q] EXCEPT !.step = "save", !.no = n].step = "save"
      <3>1. contractReqs[q] \in RequestRow
        BY <2>5, UnderWay DEF FilesInv, CreateLock, TypedNumber, NextNumber
      <3> QED BY <3>1 DEF RequestRow
    <2>6. CASE CreateLock(q)
      <3>1. \/ contractReqs' = [contractReqs EXCEPT ![q] = Quiet]
            \/ contractReqs' = [contractReqs EXCEPT ![q] = [contractReqs[q] EXCEPT !.step = "number"]]
        BY <2>6 DEF CreateLock
      <3> QED BY <2>1, <2>5, <2>6, <3>1
    <2>7. CASE TypedNumber(q)
      <3>1. \/ contractReqs' = [contractReqs EXCEPT ![q] = Quiet]
            \/ contractReqs' = [contractReqs EXCEPT ![q] = [contractReqs[q] EXCEPT !.step = "save"]]
        BY <2>7 DEF TypedNumber, Ended
      <3> QED BY <2>1, <2>5, <2>7, <3>1
    <2>8. CASE NextNumber(q)
      <3>1. contractReqs' = [contractReqs EXCEPT ![q] =
                [contractReqs[q] EXCEPT !.step = "save", !.no = <<lastSeq + 1, month>>]]
        BY <2>8 DEF NextNumber
      <3> QED BY <2>5, <2>8, <3>1
    <2> QED BY <2>3, <2>4, <2>6, <2>7, <2>8
  <1>4. contractReqs'[q] = r /\ \A x \in ContractReqs \ {q} : contractReqs'[x] = contractReqs[x]
    BY <1>3, OthersStay DEF FilesInv
  <1> QED BY <1>1, <1>2, <1>3, <1>4, FilesStayAlone

\* A reprint begins: if another is under way the pair is crossed.
LEMMA RegenerateBeginKeepsFiles ==
    ASSUME FilesInv, ContractsInv', NEW q \in ContractReqs, NEW c \in ContractIds, NEW n \in ContractNos,
           RegenerateBegin(q, c, n)
    PROVE  FilesInv'
  <1> DEFINE p == contracts[c].pair
  <1>1. /\ UNCHANGED <<contracts, cabinet, contestedNos, seqLock>> /\ c \in Rows
        /\ crossed' = IF OthersOn(q, p) # {} THEN crossed \cup {p} ELSE crossed
    BY DEF RegenerateBegin
  <1>2. /\ contractReqs'[q].step = "reprint" /\ contractReqs'[q].id = c
        /\ contractReqs'[q].pair = p /\ contractReqs'[q].old = contracts[c].no
        /\ \A x \in ContractReqs \ {q} : contractReqs'[x] = contractReqs[x]
    <2> DEFINE new == [step |-> "reprint", kind |-> "regenerate", pair |-> p, no |-> n,
                       old |-> contracts[c].no, terms |-> begunCon, id |-> c]
    <2>1. contractReqs' = [contractReqs EXCEPT ![q] = new]
      BY DEF RegenerateBegin, BeginCon
    <2>2. new.step = "reprint" /\ new.id = c /\ new.pair = p /\ new.old = contracts[c].no
      OBVIOUS
    <2> HIDE DEF new, p
    <2> QED BY <2>1, <2>2, OthersStay DEF FilesInv
  <1>3. ASSUME NEW x \in ContractReqs, contractReqs'[x].step = "reprint", contractReqs'[x].pair \notin crossed'
        PROVE  /\ contracts[contractReqs'[x].id].no = contractReqs'[x].old
               /\ \A y \in ContractReqs \ {x} : contractReqs'[y].step = "reprint" =>
                      contractReqs'[y].pair # contractReqs'[x].pair
    <2>1. crossed \subseteq crossed' /\ (p \notin crossed' => OthersOn(q, p) = {})
      BY <1>1
    <2>2. p \notin crossed' => \A y \in ContractReqs \ {q} : contractReqs[y].step = "reprint" =>
              contractReqs[y].pair # p
      BY <2>1 DEF OthersOn, Step
    <2>3. CASE x = q
      BY <1>2, <1>3, <2>2, <2>3
    <2>4. CASE x # q
      <3>1. contractReqs'[x] = contractReqs[x] /\ contractReqs[x].pair \notin crossed
        BY <1>2, <1>3, <2>1, <2>4
      <3>2. contractReqs[x].pair # p
        BY <1>2, <1>3, <2>2, <2>4, <3>1
      <3> QED BY <1>2, <1>3, <3>1, <3>2, <2>4 DEF FilesInv, ReprintsCurrent
    <2> QED BY <2>3, <2>4
  <1>4. \A x \in ContractReqs : contractReqs'[x].step = "insert" => contractReqs'[x] = contractReqs[x]
    BY <1>2
  <1>5. crossed \subseteq crossed' /\ seqLock' \in BOOLEAN
    BY <1>1 DEF FilesInv, FilesTyped
  <1> HIDE DEF p
  <1> QED BY <1>1, <1>3, <1>4, <1>5, FilesStay

\* A file is written or removed only under the numbers of the request.
LEMMA TouchedOrStays ==
    ASSUME NEW q \in ContractReqs, NEW n, NEW nos, n \in nos
    PROVE  /\ \A c \in Rows : c # contractReqs[q].id /\ contracts[c].no = n => n \in Touched(q, nos)
           /\ \A x \in ContractReqs : x # q /\ contractReqs[x].step = "insert" /\ contractReqs[x].no = n =>
                  n \in Touched(q, nos)
  BY DEF Touched, OfAnother, Step

\* A PDF is printed before its row is written.
LEMMA SavePdfKeepsFiles ==
    ASSUME FilesInv, ContractsInv', NEW q \in ContractReqs, SavePdf(q)
    PROVE  FilesInv'
  <1> DEFINE r == contractReqs[q]
  <1>1. /\ r \in RequestRow /\ r.no \in ContractNos /\ r.pair \in Pairs /\ r.terms \in ContractIds
        /\ r.step = "save" /\ r.kind # "regenerate" /\ r.id \notin Rows
    <2>1. /\ r \in RequestRow /\ r.no \in ContractNos /\ r.pair \in Pairs
          /\ r.step = "save" /\ r.kind # "regenerate"
      BY UnderWay DEF SavePdf, Step, FilesInv
    <2>2. r.terms \in ContractIds
      BY <2>1 DEF RequestRow
    <2>3. r.id \notin Rows
      BY <2>1 DEF FilesInv, ContractsInv, OwnRow, Creating
    <2> QED BY <2>1, <2>2, <2>3
  <1>2. /\ cabinet' = [cabinet EXCEPT ![PathOf(r.pair, r.no)] = Says(q)]
        /\ contestedNos' = Touched(q, {r.no})
        /\ UNCHANGED <<contracts, seqLock, crossed>>
    BY DEF SavePdf
  <1>3. /\ contractReqs'[q] = [r EXCEPT !.step = "insert"]
        /\ \A x \in ContractReqs \ {q} : contractReqs'[x] = contractReqs[x]
    BY OthersStay DEF SavePdf, FilesInv
  <1>4. Rows' = Rows /\ contestedNos \subseteq contestedNos'
    BY <1>2 DEF Rows, Touched
  <1>5. /\ PathOf(r.pair, r.no) \in Folder /\ Says(q) \in FileRow
        /\ cabinet \in [Folder -> FileRow \cup {NoFile}]
    BY <1>1 DEF PathOf, Folder, Pairs, Says, FileRow, FilesInv, FilesTyped
  <1>6. FilesTyped'
    BY <1>2, <1>5 DEF FilesInv, FilesTyped
  <1>7. FilesAtNumbers'
    BY <1>2, <1>4 DEF FilesInv, FilesAtNumbers
  <1>8. ASSUME NEW p \in Pairs, NEW n \in ContractNos, n # r.no
        PROVE  cabinet'[PathOf(p, n)] = cabinet[PathOf(p, n)]
    <2>1. PathOf(p, n) # PathOf(r.pair, r.no)
      BY <1>8 DEF PathOf
    <2> QED BY <1>2, <1>5, <2>1
  <1>9. SavedSays'
    <2> SUFFICES ASSUME NEW x \in ContractReqs, contractReqs'[x].step = "insert",
                        contractReqs'[x].no \notin contestedNos'
                 PROVE  cabinet'[PathOf(contractReqs'[x].pair, contractReqs'[x].no)] = Says(x)'
      BY DEF SavedSays
    <2>1. CASE x = q
      <3>1. contractReqs'[q].pair = r.pair /\ contractReqs'[q].no = r.no /\ contractReqs'[q].terms = r.terms
        BY <1>1, <1>3 DEF RequestRow
      <3>2. Says(q)' = Says(q)
        BY <3>1 DEF Says
      <3> QED BY <1>2, <1>5, <2>1, <3>1, <3>2
    <2>2. CASE x # q
      <3>1. contractReqs'[x] = contractReqs[x] /\ Says(x)' = Says(x)
        BY <1>3, <2>2 DEF Says
      <3>2. contractReqs[x].no # r.no
        BY <1>2, <2>2, <3>1, TouchedOrStays
      <3>3. contractReqs[x].pair \in Pairs /\ contractReqs[x].no \in ContractNos
        BY <3>1, UnderWay DEF FilesInv, Step
      <3>4. cabinet[PathOf(contractReqs[x].pair, contractReqs[x].no)] = Says(x)
        BY <1>4, <3>1 DEF FilesInv, SavedSays
      <3> QED BY <1>8, <3>1, <3>2, <3>3, <3>4
    <2> QED BY <2>1, <2>2
  <1>10. ReprintsCurrent'
    <2>1. contractReqs'[q].step = "insert"
      BY <1>1, <1>3 DEF RequestRow
    <2>2. \A x \in ContractReqs : contractReqs'[x].step = "reprint" =>
              x # q /\ contractReqs'[x] = contractReqs[x]
      BY <1>3, <2>1
    <2>3. \A x \in ContractReqs : contractReqs[x].step = "reprint" /\ contractReqs[x].pair \notin crossed =>
              /\ contracts[contractReqs[x].id].no = contractReqs[x].old
              /\ \A y \in ContractReqs \ {x} : contractReqs[y].step = "reprint" =>
                     contractReqs[y].pair # contractReqs[x].pair
      BY DEF FilesInv, ReprintsCurrent
    <2> HIDE DEF r
    <2> QED BY <1>2, <2>2, <2>3 DEF ReprintsCurrent
  <1>11. FileSaysContract'
    <2> SUFFICES ASSUME NEW c \in Rows, contracts[c].no \notin contestedNos', contracts[c].pair \notin crossed
                 PROVE  cabinet'[contracts[c].file]
                            = [pair |-> contracts[c].pair, no |-> contracts[c].no, terms |-> contracts[c].terms]
      BY <1>2, <1>4 DEF FileSaysContract, PdfOfContract
    <2>1. contracts[c] \in ContractRow
      BY DEF FilesInv, ContractsInv, ContractTypes, Rows
    <2>2. contracts[c].no # r.no
      BY <1>1, <1>2, TouchedOrStays
    <2>3. contracts[c].file = PathOf(contracts[c].pair, contracts[c].no)
      BY DEF FilesInv, FilesAtNumbers
    <2>4. contracts[c].pair \in Pairs /\ contracts[c].no \in ContractNos
      BY <2>1 DEF ContractRow
    <2> QED BY <1>4, <1>8, <2>2, <2>3, <2>4 DEF FilesInv, FileSaysContract, PdfOfContract
  <1> QED BY <1>6, <1>7, <1>9, <1>10, <1>11 DEF FilesInv

\* The row is inserted with the number under which its PDF was printed.
LEMMA InsertKeepsFiles ==
    ASSUME FilesInv, ContractsInv', NEW q \in ContractReqs, InsertContract(q)
    PROVE  FilesInv'
  <1> DEFINE r == contractReqs[q]
             row == [pair |-> r.pair, no |-> r.no, terms |-> r.terms, file |-> PathOf(r.pair, r.no)]
  <1>1. /\ r \in RequestRow /\ r.no \in ContractNos /\ r.pair \in Pairs /\ r.id \in ContractIds
        /\ r.step = "insert"
    BY UnderWay DEF InsertContract, Step, FilesInv
  <1>2. /\ contracts' = [contracts EXCEPT ![r.id] = row]
        /\ contractReqs' = [contractReqs EXCEPT ![q] = Quiet]
        /\ UNCHANGED <<cabinet, contestedNos, crossed>>
    BY DEF InsertContract, Ended
  <1>3. seqLock' \in BOOLEAN
    BY DEF InsertContract, FilesInv, FilesTyped
  <1>4. contractReqs'[q] = Quiet /\ \A x \in ContractReqs \ {q} : contractReqs'[x] = contractReqs[x]
    BY <1>2, OthersStay DEF FilesInv
  <1>5. /\ contracts'[r.id] = row /\ \A c \in ContractIds \ {r.id} : contracts'[c] = contracts[c]
        /\ Rows' \subseteq Rows \cup {r.id} /\ r.id \notin Rows
    <2>1. DOMAIN contracts = ContractIds
      BY DEF FilesInv, ContractsInv, ContractTypes
    <2>2. r.id \notin Rows
      BY <1>1 DEF FilesInv, ContractsInv, OwnRow, Creating
    <2> HIDE DEF row, r
    <2> QED BY <1>1, <1>2, <2>1, <2>2 DEF Rows
  <1>6. FilesTyped'
    BY <1>2, <1>3 DEF FilesInv, FilesTyped
  <1>7. \A c \in Rows : c \in ContractIds /\ c # r.id
    BY <1>5 DEF Rows
  <1>8. FilesAtNumbers'
    BY <1>5, <1>7 DEF FilesInv, FilesAtNumbers, PathOf
  <1>9. Quiet.step = "quiet"
    BY DEF Quiet
  <1>10. SavedSays'
    BY <1>2, <1>4, <1>9 DEF FilesInv, SavedSays, Says
  <1>11. ReprintsCurrent'
    <2> SUFFICES ASSUME NEW x \in ContractReqs, contractReqs'[x].step = "reprint",
                        contractReqs'[x].pair \notin crossed
                 PROVE  /\ contracts'[contractReqs'[x].id].no = contractReqs'[x].old
                        /\ \A y \in ContractReqs \ {x} : contractReqs'[y].step = "reprint" =>
                               contractReqs'[y].pair # contractReqs'[x].pair
      BY <1>2 DEF ReprintsCurrent
    <2>1. x # q /\ contractReqs'[x] = contractReqs[x]
      BY <1>4, <1>9
    <2>2. contractReqs[x].id \in Rows
      BY <2>1 DEF FilesInv, ContractsInv, ReprintsRow
    <2>3. contracts'[contractReqs[x].id] = contracts[contractReqs[x].id]
      BY <1>5, <1>7, <2>2
    <2>4. /\ contracts[contractReqs[x].id].no = contractReqs[x].old
          /\ \A y \in ContractReqs \ {x} : contractReqs[y].step = "reprint" =>
                 contractReqs[y].pair # contractReqs[x].pair
      BY <2>1 DEF FilesInv, ReprintsCurrent
    <2> HIDE DEF r
    <2> QED BY <1>4, <1>9, <2>1, <2>3, <2>4
  <1>12. FileSaysContract'
    <2> SUFFICES ASSUME NEW c \in Rows', contracts'[c].no \notin contestedNos, contracts'[c].pair \notin crossed
                 PROVE  cabinet[contracts'[c].file]
                            = [pair |-> contracts'[c].pair, no |-> contracts'[c].no, terms |-> contracts'[c].terms]
      BY <1>2 DEF FileSaysContract, PdfOfContract
    <2>1. CASE c = r.id
      <3>1. cabinet[PathOf(r.pair, r.no)] = Says(q)
        BY <1>1, <1>5, <2>1 DEF FilesInv, SavedSays
      <3> QED BY <1>5, <2>1, <3>1 DEF Says
    <2>2. CASE c # r.id
      BY <1>5, <1>7, <2>2 DEF FilesInv, FileSaysContract, PdfOfContract
    <2> QED BY <2>1, <2>2
  <1> QED BY <1>6, <1>8, <1>10, <1>11, <1>12 DEF FilesInv

\* A reprint of a contract that nobody else changes moves its file with its number.
LEMMA RegenerateKeepsFiles ==
    ASSUME FilesInv, ContractsInv', NEW q \in ContractReqs, Regenerate(q)
    PROVE  FilesInv'
  <1> DEFINE r == contractReqs[q]
             row == contracts'[r.id]
             was == contracts[r.id]
  <1>1. /\ r \in RequestRow /\ r.no \in ContractNos /\ r.pair \in Pairs /\ r.id \in ContractIds
        /\ r.step = "reprint" /\ r.terms \in ContractIds
    <2>1. r \in RequestRow /\ r.no \in ContractNos /\ r.step = "reprint"
      BY UnderWay DEF Regenerate, Step, FilesInv
    <2> QED BY <2>1 DEF RequestRow
  <1>2. r.id \in Rows /\ was.pair = r.pair /\ was \in ContractRow /\ was.file = PathOf(was.pair, was.no)
    BY <1>1 DEF FilesInv, ContractsInv, ContractTypes, ReprintsRow, Rows, FilesAtNumbers
  <1>3. /\ cabinet' = Printed(q)
        /\ contestedNos' = Touched(q, {r.no, r.old})
        /\ contractReqs' = [contractReqs EXCEPT ![q] = Quiet]
        /\ UNCHANGED <<seqLock, crossed>>
    BY DEF Regenerate, Ended
  <1>4. /\ row.terms = r.terms /\ row.pair = was.pair
        /\ row.no = IF r.no # r.old THEN r.no ELSE was.no
        /\ row.file = IF r.no # r.old THEN PathOf(r.pair, r.no) ELSE was.file
        /\ \A c \in ContractIds \ {r.id} : contracts'[c] = contracts[c]
        /\ Rows' \subseteq Rows \cup {r.id}
    <2>1. contracts' = [contracts EXCEPT
               ![r.id].terms = r.terms,
               ![r.id].no    = IF r.no # r.old THEN r.no ELSE @,
               ![r.id].file  = IF r.no # r.old THEN PathOf(r.pair, r.no) ELSE @]
      BY DEF Regenerate
    <2>2. DOMAIN contracts = ContractIds
      BY DEF FilesInv, ContractsInv, ContractTypes
    <2>3. /\ row = [was EXCEPT !.terms = r.terms, !.no = IF r.no # r.old THEN r.no ELSE was.no,
                               !.file = IF r.no # r.old THEN PathOf(r.pair, r.no) ELSE was.file]
          /\ \A c \in ContractIds \ {r.id} : contracts'[c] = contracts[c]
      BY <1>1, <2>1, <2>2
    <2>4. Rows' \subseteq Rows \cup {r.id}
      BY <2>3 DEF Rows
    <2>5. /\ row.terms = r.terms /\ row.pair = was.pair
          /\ row.no = IF r.no # r.old THEN r.no ELSE was.no
          /\ row.file = IF r.no # r.old THEN PathOf(r.pair, r.no) ELSE was.file
      BY <1>2, <2>3 DEF ContractRow
    <2> HIDE DEF row, was, r
    <2> QED BY <2>3, <2>4, <2>5
  <1>5. contractReqs'[q] = Quiet /\ \A x \in ContractReqs \ {q} : contractReqs'[x] = contractReqs[x]
    BY <1>3, OthersStay DEF FilesInv
  <1>6. Quiet.step = "quiet" /\ contestedNos \subseteq contestedNos' /\ \A c \in Rows : c \in ContractIds
    BY <1>3 DEF Quiet, Touched, Rows
  <1>7. /\ PathOf(r.pair, r.no) \in Folder /\ Says(q) \in FileRow
        /\ cabinet \in [Folder -> FileRow \cup {NoFile}]
    BY <1>1 DEF PathOf, Folder, Pairs, Says, FileRow, FilesInv, FilesTyped
  <1>8. /\ cabinet' \in [Folder -> FileRow \cup {NoFile}]
        /\ cabinet'[PathOf(r.pair, r.no)] = Says(q)
        /\ \A f \in Folder : f # PathOf(r.pair, r.no) /\ f # PathOf(r.pair, r.old) => cabinet'[f] = cabinet[f]
    <2>1. cabinet' = [[cabinet EXCEPT ![PathOf(r.pair, r.old)] = NoFile] EXCEPT ![PathOf(r.pair, r.no)] = Says(q)]
      BY <1>3 DEF Printed
    <2> HIDE DEF r
    <2> QED BY <1>7, <2>1
  <1>9. FilesTyped'
    BY <1>3, <1>8 DEF FilesInv, FilesTyped
  <1>10. FilesAtNumbers'
    <2>1. row.file = PathOf(row.pair, row.no)
      BY <1>2, <1>4
    <2>2. \A c \in Rows' : c # r.id => c \in Rows /\ contracts'[c] = contracts[c]
      BY <1>4, <1>6
    <2> HIDE DEF r
    <2> QED BY <2>1, <2>2 DEF FilesInv, FilesAtNumbers, PathOf
  <1>11. ASSUME NEW p \in Pairs, NEW n \in ContractNos, n # r.no, n # r.old
         PROVE  cabinet'[PathOf(p, n)] = cabinet[PathOf(p, n)]
    <2>1. /\ PathOf(p, n) # PathOf(r.pair, r.no) /\ PathOf(p, n) # PathOf(r.pair, r.old)
          /\ PathOf(p, n) \in Folder
      BY <1>11 DEF PathOf, Folder, Pairs
    <2> QED BY <1>8, <2>1
  <1>12. SavedSays'
    <2> SUFFICES ASSUME NEW x \in ContractReqs, contractReqs'[x].step = "insert",
                        contractReqs'[x].no \notin contestedNos'
                 PROVE  cabinet'[PathOf(contractReqs'[x].pair, contractReqs'[x].no)] = Says(x)'
      BY DEF SavedSays
    <2>1. x # q /\ contractReqs'[x] = contractReqs[x] /\ Says(x)' = Says(x)
      BY <1>5, <1>6 DEF Says
    <2>2. contractReqs[x].no # r.no /\ contractReqs[x].no # r.old
      BY <1>3, <2>1, TouchedOrStays
    <2>3. contractReqs[x].pair \in Pairs /\ contractReqs[x].no \in ContractNos
      BY <2>1, UnderWay DEF FilesInv, Step
    <2>4. cabinet[PathOf(contractReqs[x].pair, contractReqs[x].no)] = Says(x)
      BY <1>6, <2>1 DEF FilesInv, SavedSays
    <2> HIDE DEF r
    <2> QED BY <1>11, <2>1, <2>2, <2>3, <2>4
  <1>13. ReprintsCurrent'
    <2> SUFFICES ASSUME NEW x \in ContractReqs, contractReqs'[x].step = "reprint",
                        contractReqs'[x].pair \notin crossed
                 PROVE  /\ contracts'[contractReqs'[x].id].no = contractReqs'[x].old
                        /\ \A y \in ContractReqs \ {x} : contractReqs'[y].step = "reprint" =>
                               contractReqs'[y].pair # contractReqs'[x].pair
      BY <1>3 DEF ReprintsCurrent
    <2>1. x # q /\ contractReqs'[x] = contractReqs[x]
      BY <1>5, <1>6
    <2>2. /\ contracts[contractReqs[x].id].no = contractReqs[x].old
          /\ \A y \in ContractReqs \ {x} : contractReqs[y].step = "reprint" =>
                 contractReqs[y].pair # contractReqs[x].pair
      BY <2>1 DEF FilesInv, ReprintsCurrent
    <2>3. contractReqs[x].id \in Rows /\ contracts[contractReqs[x].id].pair = contractReqs[x].pair
      BY <2>1 DEF FilesInv, ContractsInv, ReprintsRow
    <2>4. contractReqs[x].id # r.id
      BY <1>1, <1>2, <2>1, <2>2, <2>3
    <2>5. contracts'[contractReqs[x].id] = contracts[contractReqs[x].id]
      BY <1>4, <1>6, <2>3, <2>4
    <2> HIDE DEF r
    <2> QED BY <1>5, <1>6, <2>1, <2>2, <2>5
  <1>14. FileSaysContract'
    <2> SUFFICES ASSUME NEW c \in Rows', contracts'[c].no \notin contestedNos', contracts'[c].pair \notin crossed
                 PROVE  cabinet'[contracts'[c].file]
                            = [pair |-> contracts'[c].pair, no |-> contracts'[c].no, terms |-> contracts'[c].terms]
      BY <1>3 DEF FileSaysContract, PdfOfContract
    <2>1. CASE c = r.id
      <3>1. was.no = r.old
        BY <1>1, <1>2, <1>4, <2>1 DEF FilesInv, ReprintsCurrent
      <3>2. row.no = r.no /\ row.file = PathOf(r.pair, r.no)
        BY <1>2, <1>4, <3>1
      <3> QED BY <1>2, <1>4, <1>8, <2>1, <3>2 DEF Says
    <2>2. CASE c # r.id
      <3>1. c \in Rows /\ contracts'[c] = contracts[c]
        BY <1>4, <1>6, <2>2
      <3>2. contracts[c].no # r.no /\ contracts[c].no # r.old
        BY <1>3, <2>2, <3>1, TouchedOrStays
      <3>3. contracts[c] \in ContractRow
        BY <3>1 DEF FilesInv, ContractsInv, ContractTypes, Rows
      <3>4. contracts[c].pair \in Pairs /\ contracts[c].no \in ContractNos
        BY <3>3 DEF ContractRow
      <3>5. contracts[c].file = PathOf(contracts[c].pair, contracts[c].no)
        BY <3>1 DEF FilesInv, FilesAtNumbers
      <3> HIDE DEF r
      <3> QED BY <1>6, <1>11, <3>1, <3>2, <3>4, <3>5 DEF FilesInv, FileSaysContract, PdfOfContract
    <2> QED BY <2>1, <2>2
  <1> QED BY <1>9, <1>10, <1>12, <1>13, <1>14 DEF FilesInv

\* Every step keeps the files in order.
LEMMA FilesStep == FilesInv /\ [ConNext]_contractVars => FilesInv'
  <1> SUFFICES ASSUME FilesInv, [ConNext]_contractVars PROVE FilesInv'
    OBVIOUS
  <1>0. ContractsInv'
    BY ContractsStep DEF FilesInv
  <1>1. ASSUME NEW q \in ContractReqs, NEW p \in Pairs,
               \/ \E n \in ContractNos \cup {Automatic} : StaffBegin(q, p, n)
               \/ CardBegin(q, p) \/ OrderBegin(q, p)
        PROVE  FilesInv'
    BY <1>0, <1>1, QuietStepsKeepFiles DEF CardBegin
  <1>2. ASSUME NEW q \in ContractReqs,
               \/ CreateLock(q) \/ CreateRefused(q) \/ TypedNumber(q) \/ NextNumber(q) \/ SavePdf(q)
               \/ InsertContract(q) \/ InsertRefused(q) \/ CreateCut(q) \/ Regenerate(q) \/ RegenerateFails(q)
        PROVE  FilesInv'
    BY <1>0, <1>2, QuietStepsKeepFiles, SavePdfKeepsFiles, InsertKeepsFiles, RegenerateKeepsFiles
  <1>3. ASSUME NEW q \in ContractReqs, NEW c \in ContractIds, NEW n \in ContractNos,
               RegenerateBegin(q, c, n)
        PROVE  FilesInv'
    BY <1>0, <1>3, RegenerateBeginKeepsFiles
  <1>4. CASE MonthPasses \/ UNCHANGED contractVars
    <2>1. UNCHANGED <<contracts, cabinet, contestedNos, crossed, seqLock, contractReqs>>
      BY <1>4 DEF MonthPasses, contractVars
    <2>2. seqLock' \in BOOLEAN /\ crossed \subseteq crossed'
      BY <2>1 DEF FilesInv, FilesTyped
    <2>3. \A q \in ContractReqs : contractReqs'[q].step = "reprint" /\ contractReqs'[q].pair \notin crossed' =>
               /\ contracts[contractReqs'[q].id].no = contractReqs'[q].old
               /\ \A x \in ContractReqs \ {q} : contractReqs'[x].step = "reprint" =>
                      contractReqs'[x].pair # contractReqs'[q].pair
      BY <2>1 DEF FilesInv, ReprintsCurrent
    <2> QED BY <1>0, <2>1, <2>2, <2>3, FilesStay
  <1> QED BY <1>1, <1>2, <1>3, <1>4 DEF ConNext

\* What a contract's file says, in every state.
THEOREM FilesSayContracts == ConSpec => []FileSaysContract
  <1>1. FilesInv => FileSaysContract
    BY DEF FilesInv
  <1> QED BY FilesStart, FilesStep, <1>1, PTL DEF ConSpec

\* The rows of the contracts and their files keep their types.
LEMMA ContractsAreTyped == ConSpec => []ConTypeOK
  <1>1. FilesInv => ConTypeOK
    BY DEF FilesInv, ContractsInv, ContractTypes, FilesTyped, FileRow, ConTypeOK
  <1> QED BY FilesStart, FilesStep, <1>1, PTL DEF ConSpec

-----------------------------------------------------------------------------
(* Addresses of clients *)

AddressRows == [Addresses -> ObjectRow \cup {NoObject}]

ObjectRequest ==
    [kind: {"order", "create"}, owner: Owners, address: Addresses,
     contact: Contacts \cup {NoContact}, seen: AddressRows]

SavedIn(rows) == {a \in Addresses : rows[a] # NoObject}

\* A request that has begun found its address, or room for it, in what it has read.
RoomWasSeen ==
    \A q \in ObjectReqs : objectReqs[q] # Unused =>
        \/ objectReqs[q].address \in SavedIn(objectReqs[q].seen)
        \/ Cardinality(SavedIn(objectReqs[q].seen)) < Cap

\* Nobody was named for an address that is not saved.
NobodyTold == \A k \in Owners \ racedOwners : \A a \in Addresses \ Saved(k) : told[k][a] = NoContact

ObjectsInv ==
    /\ ObjectsTypeOK
    /\ objectReqs \in [ObjectReqs -> ObjectRequest \cup {Unused}]
    /\ told \in [Owners -> [Addresses -> Contacts \cup {NoContact}]]
    /\ \A k \in Owners : IsFiniteSet(Saved(k))
    /\ RoomWasSeen /\ CapHolds /\ ContactKept /\ NobodyTold

\* A row is not the row of nothing, and a request not that of nobody.
LEMMA ObjectIsThere ==
    /\ \A row \in ObjectRow : row # NoObject
    /\ \A r \in ObjectRequest : r # Unused
  <1>1. \A row \in ObjectRow : "contact" \in DOMAIN row
    BY DEF ObjectRow
  <1>2. "contact" \notin DOMAIN NoObject
    BY DEF NoObject
  <1>3. \A r \in ObjectRequest : "owner" \in DOMAIN r
    BY DEF ObjectRequest
  <1>4. "owner" \notin DOMAIN Unused
    BY DEF Unused
  <1> QED BY <1>1, <1>2, <1>3, <1>4

\* At first nothing is saved.
LEMMA ObjectsStart == ObjectsInit => ObjectsInv
  <1> SUFFICES ASSUME ObjectsInit PROVE ObjectsInv
    OBVIOUS
  <1>1. \A k \in Owners : Saved(k) = {}
    BY DEF ObjectsInit, Saved
  <1>2. ObjectsTypeOK
    BY ObjectsAssumption DEF ObjectsInit, ObjectsTypeOK
  <1>3. \A k \in Owners : IsFiniteSet(Saved(k)) /\ Cardinality(Saved(k)) = 0
    BY <1>1, FS_EmptySet
  <1>4. CapHolds /\ ContactKept
    BY <1>1, <1>3, ObjectsAssumption DEF CapHolds, ContactKept
  <1>5. RoomWasSeen /\ NobodyTold
    BY <1>1 DEF ObjectsInit, RoomWasSeen, NobodyTold
  <1>6. objectReqs \in [ObjectReqs -> ObjectRequest \cup {Unused}]
    BY DEF ObjectsInit
  <1>7. told \in [Owners -> [Addresses -> Contacts \cup {NoContact}]]
    BY DEF ObjectsInit
  <1> QED BY <1>2, <1>3, <1>4, <1>5, <1>6, <1>7 DEF ObjectsInv

\* A request has read the rows of its client, and writes nothing yet.
LEMMA BeginObjectKeeps ==
    ASSUME ObjectsInv, NEW q \in ObjectReqs, NEW k \in Owners, NEW a \in Addresses,
           NEW kind \in {"order", "create"}, NEW contact \in Contacts \cup {NoContact},
           a \in Saved(k) \/ RoomFor(k), BeginObject(q, kind, k, a, contact)
    PROVE  ObjectsInv'
  <1> DEFINE r == [kind |-> kind, owner |-> k, address |-> a, contact |-> contact, seen |-> objects[k]]
  <1>1. objects[k] \in AddressRows
    BY DEF ObjectsInv, ObjectsTypeOK, AddressRows
  <1>2. r \in ObjectRequest /\ r.address = a /\ SavedIn(r.seen) = Saved(k)
    BY <1>1 DEF ObjectRequest, SavedIn, Saved
  <1>3. objectReqs' = [objectReqs EXCEPT ![q] = r] /\ UNCHANGED <<objects, told, racedOwners>>
    BY DEF BeginObject
  <1>4. begunObjs' \in 0..MaxObjectReqs
    BY ObjectsAssumption DEF BeginObject, ObjectsInv, ObjectsTypeOK
  <1> HIDE DEF r
  <1>5. /\ objectReqs'[q] = r /\ \A x \in ObjectReqs \ {q} : objectReqs'[x] = objectReqs[x]
        /\ objectReqs' \in [ObjectReqs -> ObjectRequest \cup {Unused}]
    BY <1>2, <1>3 DEF ObjectsInv
  <1>6. RoomWasSeen'
    <2>1. r.address \in SavedIn(r.seen) \/ Cardinality(SavedIn(r.seen)) < Cap
      BY <1>2 DEF RoomFor
    <2>2. \A x \in ObjectReqs \ {q} : objectReqs[x] # Unused =>
              \/ objectReqs[x].address \in SavedIn(objectReqs[x].seen)
              \/ Cardinality(SavedIn(objectReqs[x].seen)) < Cap
      BY DEF ObjectsInv, RoomWasSeen
    <2>3. \A x \in ObjectReqs : objectReqs'[x] # Unused =>
              \/ objectReqs'[x].address \in SavedIn(objectReqs'[x].seen)
              \/ Cardinality(SavedIn(objectReqs'[x].seen)) < Cap
      BY <1>5, <2>1, <2>2
    <2> QED BY <2>3 DEF RoomWasSeen, SavedIn
  <1>7. \A j \in Owners : Saved(j)' = Saved(j)
    BY <1>3 DEF Saved
  <1>8. CapHolds' /\ NobodyTold'
    BY <1>3, <1>7 DEF ObjectsInv, CapHolds, NobodyTold
  <1>9. ContactKept'
    BY <1>3, <1>7 DEF ObjectsInv, ContactKept
  <1>10. ObjectsTypeOK' /\ \A j \in Owners : IsFiniteSet(Saved(j)')
    BY <1>3, <1>4, <1>7 DEF ObjectsInv, ObjectsTypeOK
  <1> QED BY <1>3, <1>5, <1>6, <1>8, <1>9, <1>10 DEF ObjectsInv

\* One row of a client is written.
LEMMA ObjectWritten ==
    ASSUME ObjectsInv, NEW k \in Owners, NEW a \in Addresses, NEW row \in ObjectRow \cup {NoObject},
           objects' = [objects EXCEPT ![k][a] = row]
    PROVE  /\ objects' \in [Owners -> AddressRows] /\ objects'[k][a] = row
           /\ \A b \in Addresses \ {a} : objects'[k][b] = objects[k][b]
           /\ \A j \in Owners \ {k} : objects'[j] = objects[j] /\ Saved(j)' = Saved(j)
           /\ Saved(k)' = IF row = NoObject THEN Saved(k) \ {a} ELSE Saved(k) \cup {a}
           /\ \A j \in Owners : IsFiniteSet(Saved(j)')
  <1>1. objects \in [Owners -> AddressRows]
    BY DEF ObjectsInv, ObjectsTypeOK, AddressRows
  <1>2. /\ objects' \in [Owners -> AddressRows] /\ objects'[k][a] = row
        /\ \A b \in Addresses \ {a} : objects'[k][b] = objects[k][b]
        /\ \A j \in Owners \ {k} : objects'[j] = objects[j]
    BY <1>1 DEF AddressRows
  <1>3. \A j \in Owners \ {k} : Saved(j)' = Saved(j)
    BY <1>2 DEF Saved
  <1>4. Saved(k)' = IF row = NoObject THEN Saved(k) \ {a} ELSE Saved(k) \cup {a}
    BY <1>2 DEF Saved
  <1>5. IsFiniteSet(Saved(k)')
    <2>1. IsFiniteSet(Saved(k)) /\ Saved(k)' \subseteq Saved(k) \cup {a}
      BY <1>4 DEF ObjectsInv
    <2> QED BY <2>1, CountGrows
  <1>6. \A j \in Owners : IsFiniteSet(Saved(j)')
    BY <1>3, <1>5 DEF ObjectsInv
  <1> QED BY <1>2, <1>3, <1>4, <1>6

\* A request commits: while nobody has changed the rows it read, there is still room.
LEMMA CommitObjectKeeps ==
    ASSUME ObjectsInv, NEW q \in ObjectReqs, CommitObject(q)
    PROVE  ObjectsInv'
  <1> DEFINE r == objectReqs[q]
  <1>1. /\ r \in ObjectRequest /\ r.owner \in Owners /\ r.address \in Addresses
        /\ r.contact \in Contacts \cup {NoContact} /\ r.seen \in AddressRows
    BY DEF CommitObject, ObjectsInv, ObjectRequest
  <1>2. PICK k \in Owners : k = r.owner
    BY <1>1
  <1>3. PICK a \in Addresses : a = r.address
    BY <1>1
  <1>4. PICK row : row = RowAfter(r, objects[k][a])
    OBVIOUS
  <1>5. /\ objects' = [objects EXCEPT ![k][a] = row]
        /\ told' = [told EXCEPT ![k][a] = IF r.contact # NoContact THEN r.contact ELSE @]
        /\ racedOwners' = IF r.seen # objects[k] THEN racedOwners \cup {k} ELSE racedOwners
        /\ objectReqs' = [objectReqs EXCEPT ![q] = Unused]
        /\ UNCHANGED begunObjs
    BY <1>2, <1>3, <1>4 DEF CommitObject, ObjectsInv, ObjectsTypeOK
  <1>6. objects[k][a] \in ObjectRow \cup {NoObject}
    BY DEF ObjectsInv, ObjectsTypeOK
  <1>7. /\ row \in ObjectRow \cup {NoObject}
        /\ r.seen[a] = NoObject /\ objects[k][a] = NoObject =>
               row # NoObject /\ row.contact = r.contact
        /\ r.seen[a] # NoObject /\ objects[k][a] # NoObject =>
               row # NoObject /\ row.contact = IF r.contact # NoContact THEN r.contact ELSE objects[k][a].contact
        /\ r.seen[a] # NoObject /\ objects[k][a] = NoObject => row = NoObject
    <2> HIDE DEF r
    <2>1. ASSUME r.seen[a] = NoObject, objects[k][a] = NoObject
          PROVE  row \in ObjectRow /\ row.contact = r.contact
      BY <1>1, <1>3, <1>4, <2>1 DEF RowAfter, NewAddress, KeptContact, ObjectRow
    <2>2. ASSUME r.seen[a] # NoObject, objects[k][a] # NoObject
          PROVE  /\ row \in ObjectRow
                 /\ row.contact = IF r.contact # NoContact THEN r.contact ELSE objects[k][a].contact
      BY <1>1, <1>3, <1>4, <1>6, <2>2 DEF RowAfter, NewAddress, KeptContact, ObjectRow
    <2>3. ASSUME r.seen[a] # NoObject, objects[k][a] = NoObject PROVE row = NoObject
      BY <1>3, <1>4, <2>3 DEF RowAfter, NewAddress
    <2>4. ASSUME r.seen[a] = NoObject, objects[k][a] # NoObject PROVE row \in ObjectRow
      BY <1>1, <1>3, <1>4, <1>6, <2>4 DEF RowAfter, NewAddress, ObjectRow
    <2> QED BY <2>1, <2>2, <2>3, <2>4, ObjectIsThere
  <1>8. /\ objects' \in [Owners -> AddressRows] /\ objects'[k][a] = row
        /\ \A b \in Addresses \ {a} : objects'[k][b] = objects[k][b]
        /\ \A j \in Owners \ {k} : objects'[j] = objects[j] /\ Saved(j)' = Saved(j)
        /\ Saved(k)' = IF row = NoObject THEN Saved(k) \ {a} ELSE Saved(k) \cup {a}
        /\ \A j \in Owners : IsFiniteSet(Saved(j)')
    BY <1>5, <1>7, ObjectWritten
  <1>9. /\ told' \in [Owners -> [Addresses -> Contacts \cup {NoContact}]]
        /\ told'[k][a] = IF r.contact # NoContact THEN r.contact ELSE told[k][a]
        /\ \A b \in Addresses \ {a} : told'[k][b] = told[k][b]
        /\ \A j \in Owners \ {k} : told'[j] = told[j]
    BY <1>1, <1>5 DEF ObjectsInv
  <1>10. /\ racedOwners \subseteq racedOwners' /\ racedOwners' \subseteq Owners
         /\ k \notin racedOwners' => r.seen = objects[k]
    BY <1>5 DEF ObjectsInv, ObjectsTypeOK
  <1>11. /\ objectReqs' \in [ObjectReqs -> ObjectRequest \cup {Unused}]
         /\ \A x \in ObjectReqs : objectReqs'[x] # Unused => objectReqs'[x] = objectReqs[x]
    BY <1>5 DEF ObjectsInv
  <1>12. ObjectsTypeOK'
    BY <1>5, <1>8, <1>10 DEF ObjectsInv, ObjectsTypeOK, AddressRows
  <1>13. RoomWasSeen'
    BY <1>11 DEF ObjectsInv, RoomWasSeen, SavedIn
  <1>14. CapHolds'
    <2> SUFFICES ASSUME NEW j \in Owners \ racedOwners' PROVE Cardinality(Saved(j)') <= Cap
      BY DEF CapHolds
    <2>1. Cardinality(Saved(j)) <= Cap /\ IsFiniteSet(Saved(j)) /\ Cardinality(Saved(j)) \in Nat
      BY <1>10, FS_CardinalityType DEF ObjectsInv, CapHolds
    <2>2. CASE j # k
      BY <1>8, <2>1, <2>2
    <2>3. CASE j = k
      <3>1. SavedIn(r.seen) = Saved(k)
        BY <1>10, <2>3 DEF SavedIn, Saved
      <3>2. a \in Saved(k) \/ Cardinality(Saved(k)) < Cap
        BY <1>3, <3>1 DEF CommitObject, ObjectsInv, RoomWasSeen
      <3>3. CASE a \in Saved(k)
        <4>1. Saved(k)' \subseteq Saved(k)
          BY <1>8, <3>3
        <4> QED BY <2>1, <2>3, <4>1, CountWithin, ObjectsAssumption
      <3>4. CASE Cardinality(Saved(k)) < Cap
        <4>1. Saved(k)' \subseteq Saved(k) \cup {a}
          BY <1>8
        <4>2. Cardinality(Saved(k)') <= Cardinality(Saved(k)) + 1 /\ Cardinality(Saved(k)') \in Nat
          BY <2>1, <2>3, <4>1, CountGrows
        <4> QED BY <2>1, <2>3, <3>4, <4>2, ObjectsAssumption
      <3> QED BY <3>2, <3>3, <3>4
    <2> QED BY <2>2, <2>3
  <1>15. ASSUME k \notin racedOwners'
         PROVE  /\ \A b \in Saved(k)' : objects'[k][b].contact = told'[k][b]
                /\ \A b \in Addresses \ Saved(k)' : told'[k][b] = NoContact
    <2>1. /\ \A b \in Saved(k) : objects[k][b].contact = told[k][b]
          /\ \A b \in Addresses \ Saved(k) : told[k][b] = NoContact
      BY <1>10, <1>15 DEF ObjectsInv, ContactKept, NobodyTold
    <2>2. r.seen[a] = objects[k][a] /\ row # NoObject
      BY <1>7, <1>10, <1>15
    <2>3. a \in Saved(k) <=> objects[k][a] # NoObject
      BY DEF Saved
    <2>4. row.contact = told'[k][a]
      BY <1>7, <1>9, <2>1, <2>2, <2>3
    <2>5. Saved(k)' = Saved(k) \cup {a}
      BY <1>8, <2>2
    <2>6. \A b \in Saved(k)' : b \in Addresses
      BY DEF Saved
    <2> HIDE DEF r
    <2> QED BY <1>8, <1>9, <2>1, <2>4, <2>5, <2>6
  <1>16. ContactKept' /\ NobodyTold'
    <2> SUFFICES ASSUME NEW j \in Owners \ racedOwners'
                 PROVE  /\ \A b \in Saved(j)' : objects'[j][b].contact = told'[j][b]
                        /\ \A b \in Addresses \ Saved(j)' : told'[j][b] = NoContact
      BY DEF ContactKept, NobodyTold
    <2> HIDE DEF r
    <2>1. CASE j = k
      BY <1>15, <2>1
    <2>2. CASE j # k
      BY <1>8, <1>9, <1>10, <2>2 DEF ObjectsInv, ContactKept, NobodyTold
    <2> QED BY <2>1, <2>2
  <1> QED BY <1>8, <1>9, <1>11, <1>12, <1>13, <1>14, <1>16 DEF ObjectsInv

\* A row is deleted, and what was told with it.
LEMMA DeleteObjectKeeps ==
    ASSUME ObjectsInv, NEW k \in Owners, NEW a \in Addresses, DeleteObject(k, a)
    PROVE  ObjectsInv'
  <1>1. /\ objects' = [objects EXCEPT ![k][a] = NoObject]
        /\ told' = [told EXCEPT ![k][a] = NoContact]
        /\ UNCHANGED <<objectReqs, racedOwners>>
    BY DEF DeleteObject
  <1>2. begunObjs' \in 0..MaxObjectReqs
    BY ObjectsAssumption DEF DeleteObject, ObjectsInv, ObjectsTypeOK
  <1>3. /\ objects' \in [Owners -> AddressRows]
        /\ \A b \in Addresses \ {a} : objects'[k][b] = objects[k][b]
        /\ \A j \in Owners \ {k} : objects'[j] = objects[j] /\ Saved(j)' = Saved(j)
        /\ Saved(k)' = Saved(k) \ {a}
        /\ \A j \in Owners : IsFiniteSet(Saved(j)')
    BY <1>1, ObjectWritten
  <1>4. /\ told' \in [Owners -> [Addresses -> Contacts \cup {NoContact}]] /\ told'[k][a] = NoContact
        /\ \A b \in Addresses \ {a} : told'[k][b] = told[k][b]
        /\ \A j \in Owners \ {k} : told'[j] = told[j]
    BY <1>1 DEF ObjectsInv
  <1>5. ObjectsTypeOK' /\ RoomWasSeen'
    BY <1>1, <1>2, <1>3 DEF ObjectsInv, ObjectsTypeOK, AddressRows, RoomWasSeen, SavedIn
  <1>6. CapHolds'
    <2> SUFFICES ASSUME NEW j \in Owners \ racedOwners PROVE Cardinality(Saved(j)') <= Cap
      BY <1>1 DEF CapHolds
    <2>1. Cardinality(Saved(j)) <= Cap /\ IsFiniteSet(Saved(j)) /\ Saved(j)' \subseteq Saved(j)
      BY <1>3 DEF ObjectsInv, CapHolds
    <2>2. Cardinality(Saved(j)') <= Cardinality(Saved(j)) /\ Cardinality(Saved(j)') \in Nat
          /\ Cardinality(Saved(j)) \in Nat
      BY <2>1, CountWithin, FS_CardinalityType
    <2> QED BY <2>1, <2>2, ObjectsAssumption
  <1>7. ContactKept' /\ NobodyTold'
    <2> SUFFICES ASSUME NEW j \in Owners \ racedOwners
                 PROVE  /\ \A b \in Saved(j)' : objects'[j][b].contact = told'[j][b]
                        /\ \A b \in Addresses \ Saved(j)' : told'[j][b] = NoContact
      BY <1>1 DEF ContactKept, NobodyTold
    <2>1. /\ \A b \in Saved(j) : objects[j][b].contact = told[j][b] /\ b \in Addresses
          /\ \A b \in Addresses \ Saved(j) : told[j][b] = NoContact
      BY DEF ObjectsInv, ContactKept, NobodyTold, Saved
    <2>2. CASE j = k
      BY <1>3, <1>4, <2>1, <2>2
    <2>3. CASE j # k
      BY <1>3, <1>4, <2>1, <2>3
    <2> QED BY <2>2, <2>3
  <1> QED BY <1>1, <1>3, <1>4, <1>5, <1>6, <1>7 DEF ObjectsInv

\* Every request about addresses keeps the invariant.
LEMMA ObjectsStep == ObjectsInv /\ [ObjectsNext]_objectVars => ObjectsInv'
  <1> SUFFICES ASSUME ObjectsInv, [ObjectsNext]_objectVars PROVE ObjectsInv'
    OBVIOUS
  <1>1. ASSUME NEW q \in ObjectReqs, NEW k \in Owners, NEW a \in Addresses, CreateObjectBegin(q, k, a)
        PROVE  ObjectsInv'
    BY <1>1, BeginObjectKeeps DEF CreateObjectBegin
  <1>2. ASSUME NEW q \in ObjectReqs, NEW k \in Owners, NEW a \in Addresses,
               NEW contact \in Contacts \cup {NoContact}, RememberBegin(q, k, a, contact)
        PROVE  ObjectsInv'
    BY <1>2, BeginObjectKeeps DEF RememberBegin
  <1>3. CASE UNCHANGED <<objects, told, racedOwners, begunObjs>>
             /\ \/ UNCHANGED objectReqs
                \/ \E q \in ObjectReqs : objectReqs' = [objectReqs EXCEPT ![q] = Unused]
    <2>1. /\ objectReqs' \in [ObjectReqs -> ObjectRequest \cup {Unused}]
          /\ \A x \in ObjectReqs : objectReqs'[x] # Unused => objectReqs'[x] = objectReqs[x]
      BY <1>3 DEF ObjectsInv
    <2>2. RoomWasSeen'
      BY <2>1 DEF ObjectsInv, RoomWasSeen, SavedIn
    <2>3. \A k \in Owners : Saved(k)' = Saved(k)
      BY <1>3 DEF Saved
    <2> QED BY <1>3, <2>1, <2>2, <2>3 DEF ObjectsInv, ObjectsTypeOK, CapHolds, ContactKept, NobodyTold
  <1>4. ASSUME NEW q \in ObjectReqs, ObjectFails(q) PROVE ObjectsInv'
    BY <1>3, <1>4 DEF ObjectFails
  <1>5. CASE UNCHANGED objectVars
    BY <1>3, <1>5 DEF objectVars
  <1> QED BY <1>1, <1>2, <1>4, <1>5, CommitObjectKeeps, DeleteObjectKeeps DEF ObjectsNext

-----------------------------------------------------------------------------
(* Versions of the seller *)

SellerChange == [step: {"read", "write"}, now: Times, says: Requisites, current: SUBSET Times]

\* Every change in flight has a time of its own, at which no version begins yet, and has read
\* versions that are in the history.
ChangesTimed ==
    /\ \A t \in Recorded : t <= sellerClock
    /\ \A q \in InFlight :
           /\ sellerReqs[q].now <= sellerClock /\ sellerReqs[q].now \notin Recorded
           /\ sellerReqs[q].current \subseteq Recorded
    /\ \A p, q \in InFlight : sellerReqs[p].now = sellerReqs[q].now => p = q

\* While changes come one at a time, one that is about to write has read what is open.
OneAtATime ==
    ~raced => /\ \A t, u \in OpenVersions : t = u
              /\ \A p, q \in InFlight : p = q
              /\ \A q \in InFlight : sellerReqs[q].step = "write" => OpenVersions \subseteq sellerReqs[q].current

SellersInv ==
    /\ SellersTypeOK
    /\ sellerReqs \in [SellerReqs -> SellerChange \cup {NoChange}]
    /\ ChangesTimed /\ HistoryIsWhole /\ OneAtATime

\* A version is not the version of nothing, and a change not that of nobody.
LEMMA VersionIsThere ==
    /\ \A row \in Version : row # NoVersion
    /\ \A r \in SellerChange : r # NoChange
  <1>1. \A row \in Version : "to" \in DOMAIN row
    BY DEF Version
  <1>2. "to" \notin DOMAIN NoVersion
    BY DEF NoVersion
  <1>3. \A r \in SellerChange : "now" \in DOMAIN r
    BY DEF SellerChange
  <1>4. "now" \notin DOMAIN NoChange
    BY DEF NoChange
  <1> QED BY <1>1, <1>2, <1>3, <1>4

\* What the invariant says of the open versions is what the run checks of them.
LEMMA OneIsOpen == SellersInv => OneOpenVersion
  <1> SUFFICES ASSUME SellersInv, ~raced PROVE Cardinality(OpenVersions) <= 1
    BY DEF OneOpenVersion
  <1>1. CASE OpenVersions = {}
    BY <1>1, FS_EmptySet
  <1>2. CASE OpenVersions # {}
    <2>1. PICK t \in OpenVersions : OpenVersions = {t}
      BY <1>2 DEF SellersInv, OneAtATime
    <2>2. Cardinality({t}) = 1
      BY FS_Singleton
    <2> QED BY <2>1, <2>2
  <1> QED BY <1>1, <1>2

\* At first there is no history.
LEMMA SellersStart == SellersInit => SellersInv
  <1> SUFFICES ASSUME SellersInit PROVE SellersInv
    OBVIOUS
  <1>1. Recorded = {} /\ OpenVersions = {} /\ InFlight = {}
    BY DEF SellersInit, Recorded, OpenVersions, InFlight
  <1>2. SellersTypeOK /\ sellerReqs \in [SellerReqs -> SellerChange \cup {NoChange}]
    BY SellersAssumption DEF SellersInit, SellersTypeOK
  <1> QED BY <1>1, <1>2 DEF SellersInv, ChangesTimed, HistoryIsWhole, OneAtATime

\* A change takes the next time.
LEMMA ChangeBeginKeeps ==
    ASSUME SellersInv, NEW q \in SellerReqs, NEW says \in Requisites, ChangeBegin(q, says)
    PROVE  SellersInv'
  <1>1. PICK n \in Times : n = sellerClock + 1 /\ sellerClock' = n /\ n <= MaxVersion
    BY SellersAssumption DEF ChangeBegin, SellersInv, SellersTypeOK, Times
  <1>2. PICK r \in SellerChange : r = [step |-> "read", now |-> n, says |-> says, current |-> {}]
    BY DEF SellerChange
  <1>3. /\ sellerReqs' = [sellerReqs EXCEPT ![q] = r] /\ UNCHANGED versions
        /\ raced' = (raced \/ InFlight # {}) /\ q \notin InFlight
    BY <1>1, <1>2 DEF ChangeBegin, InFlight
  <1>4. r.step = "read" /\ r.now = n /\ r.current = {} /\ r # NoChange
    BY <1>2, VersionIsThere
  <1>5. Recorded' = Recorded /\ OpenVersions' = OpenVersions
    BY <1>3 DEF Recorded, OpenVersions
  <1>6. /\ sellerReqs' \in [SellerReqs -> SellerChange \cup {NoChange}] /\ sellerReqs'[q] = r
        /\ \A x \in SellerReqs \ {q} : sellerReqs'[x] = sellerReqs[x]
    BY <1>2, <1>3 DEF SellersInv
  <1>7. InFlight' = InFlight \cup {q}
    BY <1>4, <1>6 DEF InFlight
  <1>8. \A x \in InFlight : x \in SellerReqs \ {q} /\ sellerReqs[x].now \in Nat /\ sellerReqs[x].now <= sellerClock
    BY <1>3, SellersAssumption DEF SellersInv, ChangesTimed, InFlight, SellerChange, Times
  <1>9. sellerClock \in Nat /\ \A t \in Recorded : t \in Nat /\ t <= sellerClock
    BY SellersAssumption DEF SellersInv, SellersTypeOK, ChangesTimed, Recorded, Times
  <1>10. n \notin Recorded /\ (\A x \in InFlight : sellerReqs[x].now # n)
    BY <1>1, <1>8, <1>9
  <1>11. SellersTypeOK'
    BY <1>1, <1>3, SellersAssumption DEF SellersInv, SellersTypeOK, Times
  <1>12. ChangesTimed'
    <2>1. \A t \in Recorded' : t <= sellerClock'
      BY <1>1, <1>5, <1>9
    <2>2. \A x \in InFlight' : /\ sellerReqs'[x].now <= sellerClock' /\ sellerReqs'[x].now \notin Recorded'
                               /\ sellerReqs'[x].current \subseteq Recorded'
      <3>1. ASSUME NEW x \in InFlight
            PROVE  /\ sellerReqs'[x] = sellerReqs[x] /\ sellerReqs[x].now <= n
                   /\ sellerReqs[x].now \notin Recorded /\ sellerReqs[x].current \subseteq Recorded
        BY <1>1, <1>6, <1>8, SellersAssumption DEF SellersInv, SellersTypeOK, ChangesTimed
      <3>2. n <= n
        BY <1>1 DEF Times
      <3> QED BY <1>1, <1>4, <1>5, <1>6, <1>7, <1>10, <3>1, <3>2
    <2>3. \A x, y \in InFlight' : sellerReqs'[x].now = sellerReqs'[y].now => x = y
      <3>1. \A x, y \in InFlight : sellerReqs[x].now = sellerReqs[y].now => x = y
        BY DEF SellersInv, ChangesTimed
      <3>2. \A x \in InFlight : sellerReqs'[x] = sellerReqs[x]
        BY <1>6, <1>8
      <3> QED BY <1>4, <1>6, <1>7, <1>10, <3>1, <3>2
    <2> QED BY <2>1, <2>2, <2>3 DEF ChangesTimed
  <1>13. HistoryIsWhole'
    BY <1>3, <1>5 DEF SellersInv, HistoryIsWhole
  <1>14. OneAtATime'
    BY <1>3, <1>4, <1>5, <1>6, <1>7 DEF SellersInv, OneAtATime
  <1> QED BY <1>6, <1>11, <1>12, <1>13, <1>14 DEF SellersInv

\* A change has read the version that is open; while changes come one at a time there is no other.
LEMMA ChangeReadKeeps ==
    ASSUME SellersInv, NEW q \in SellerReqs, ChangeRead(q),
           ~ \E t \in Active : versions[t].says = sellerReqs[q].says
    PROVE  SellersInv'
  <1> DEFINE r == sellerReqs[q]
  <1>1. r \in SellerChange /\ q \in InFlight
    BY DEF ChangeRead, SellersInv, InFlight
  <1>2. Active \subseteq OpenVersions /\ OpenVersions \subseteq Recorded /\ Recorded \subseteq Times
    BY DEF Active, OpenVersions, Recorded
  <1>3. PICK w \in SellerChange : w = [r EXCEPT !.step = "write", !.current = Active]
    BY <1>1, <1>2 DEF SellerChange
  <1>4. w.now = r.now /\ w.current = Active /\ w # NoChange
    BY <1>1, <1>3, VersionIsThere DEF SellerChange
  <1>5. sellerReqs' = [sellerReqs EXCEPT ![q] = w] /\ UNCHANGED <<versions, sellerClock, raced>>
    BY <1>3 DEF ChangeRead
  <1>6. /\ sellerReqs' \in [SellerReqs -> SellerChange \cup {NoChange}] /\ sellerReqs'[q] = w
        /\ \A x \in SellerReqs \ {q} : sellerReqs'[x] = sellerReqs[x]
    BY <1>3, <1>5 DEF SellersInv
  <1>7. InFlight' = InFlight
    BY <1>1, <1>4, <1>6 DEF InFlight
  <1>8. Recorded' = Recorded /\ OpenVersions' = OpenVersions
    BY <1>5 DEF Recorded, OpenVersions
  <1>9. \A x \in InFlight : x \in SellerReqs /\ sellerReqs'[x].now = sellerReqs[x].now
    BY <1>4, <1>6 DEF InFlight
  <1> HIDE DEF r
  <1>10. ChangesTimed'
    <2>1. \A x \in InFlight : sellerReqs'[x].current \subseteq Recorded
      BY <1>2, <1>4, <1>6, <1>9 DEF SellersInv, ChangesTimed
    <2>2. (\A t \in Recorded' : t <= sellerClock') /\ \A x \in InFlight :
              /\ sellerReqs'[x].now <= sellerClock' /\ sellerReqs'[x].now \notin Recorded
      BY <1>5, <1>8, <1>9 DEF SellersInv, ChangesTimed
    <2>3. \A x, y \in InFlight : sellerReqs'[x].now = sellerReqs'[y].now => x = y
      BY <1>9 DEF SellersInv, ChangesTimed
    <2> QED BY <1>7, <1>8, <2>1, <2>2, <2>3 DEF ChangesTimed
  <1>11. OneAtATime'
    <2> SUFFICES ASSUME ~raced
                 PROVE  /\ \A t, u \in OpenVersions' : t = u
                        /\ \A x, y \in InFlight' : x = y
                        /\ \A x \in InFlight' : sellerReqs'[x].step = "write" =>
                               OpenVersions' \subseteq sellerReqs'[x].current
      BY <1>5 DEF OneAtATime
    <2>1. (\A t, u \in OpenVersions : t = u) /\ (\A x, y \in InFlight : x = y)
      BY DEF SellersInv, OneAtATime
    <2>2. \A t \in OpenVersions : t \in Nat /\ t <= t
      BY <1>2 DEF Times
    <2>3. OpenVersions \subseteq Active
      BY <2>1, <2>2 DEF Active
    <2> QED BY <1>1, <1>4, <1>6, <1>7, <1>8, <2>1, <2>3
  <1> QED BY <1>5, <1>6, <1>8, <1>10, <1>11 DEF SellersInv, SellersTypeOK, HistoryIsWhole

\* A change ends: nothing is left of it but what it wrote.
LEMMA ChangeEnds ==
    ASSUME SellersInv, NEW q \in SellerReqs, sellerReqs' = [sellerReqs EXCEPT ![q] = NoChange]
    PROVE  /\ sellerReqs' \in [SellerReqs -> SellerChange \cup {NoChange}]
           /\ InFlight' = InFlight \ {q}
           /\ \A x \in InFlight' : sellerReqs'[x] = sellerReqs[x]
  BY DEF SellersInv, InFlight

\* A change fails, or has nothing to say.
LEMMA ChangeFailsKeeps ==
    ASSUME SellersInv, NEW q \in SellerReqs, sellerReqs' = [sellerReqs EXCEPT ![q] = NoChange],
           UNCHANGED <<versions, sellerClock, raced>>
    PROVE  SellersInv'
  <1>1. /\ sellerReqs' \in [SellerReqs -> SellerChange \cup {NoChange}]
        /\ InFlight' = InFlight \ {q}
        /\ \A x \in InFlight' : sellerReqs'[x] = sellerReqs[x]
    BY ChangeEnds
  <1>2. Recorded' = Recorded /\ OpenVersions' = OpenVersions
    BY DEF Recorded, OpenVersions
  <1>3. ChangesTimed'
    BY <1>1, <1>2 DEF SellersInv, ChangesTimed
  <1>4. OneAtATime'
    BY <1>1, <1>2 DEF SellersInv, OneAtATime
  <1> QED BY <1>1, <1>2, <1>3, <1>4 DEF SellersInv, SellersTypeOK, HistoryIsWhole

\* A change closes what it has read and opens its own version in one commit.
LEMMA ChangeCommitKeeps ==
    ASSUME SellersInv, NEW q \in SellerReqs, ChangeCommit(q)
    PROVE  SellersInv'
  <1> DEFINE r == sellerReqs[q]
  <1>1. /\ r \in SellerChange /\ q \in InFlight /\ r.step = "write"
        /\ sellerReqs' = [sellerReqs EXCEPT ![q] = NoChange]
        /\ UNCHANGED <<sellerClock, raced>> /\ versions' = Replaced(r)
    BY DEF ChangeCommit, SellersInv, InFlight
  <1>2. /\ sellerReqs' \in [SellerReqs -> SellerChange \cup {NoChange}]
        /\ InFlight' = InFlight \ {q}
        /\ \A x \in InFlight' : sellerReqs'[x] = sellerReqs[x]
    BY <1>1, ChangeEnds
  <1>3. PICK n \in Times : n = r.now
    BY <1>1 DEF SellerChange
  <1>4. /\ n <= sellerClock /\ n \notin Recorded /\ r.current \subseteq Recorded
        /\ r.says \in Requisites /\ Recorded \subseteq Times
    BY <1>1, <1>3 DEF SellersInv, ChangesTimed, SellerChange, Recorded
  <1>5. \A t \in Recorded : versions[t] \in Version
    BY <1>4 DEF SellersInv, SellersTypeOK, Recorded
  <1>6. \A t \in Times : versions'[t] = IF t = n THEN [says |-> r.says, to |-> StillOpen]
            ELSE IF t \in r.current THEN [versions[t] EXCEPT !.to = n] ELSE versions[t]
    BY <1>1, <1>3 DEF Replaced
  <1> HIDE DEF r
  <1>7. versions'[n] \in Version /\ versions'[n].to = StillOpen
    <2>1. versions'[n] = [says |-> r.says, to |-> StillOpen]
      BY <1>6
    <2> QED BY <1>4, <2>1 DEF Version
  <1>8. \A t \in r.current : versions'[t] \in Version /\ versions'[t].to = n
    <2> SUFFICES ASSUME NEW t \in r.current PROVE versions'[t] \in Version /\ versions'[t].to = n
      OBVIOUS
    <2>1. t # n /\ t \in Times /\ versions[t] \in Version
      BY <1>4, <1>5
    <2>2. versions'[t] = [versions[t] EXCEPT !.to = n]
      BY <1>6, <2>1
    <2> QED BY <2>1, <2>2 DEF Version
  <1>9. \A t \in Times : t # n /\ t \notin r.current => versions'[t] = versions[t]
    BY <1>6
  <1>10. Recorded' = Recorded \cup {n}
    BY <1>3, <1>4, <1>7, <1>8, <1>9, VersionIsThere DEF Recorded
  <1>11. n # StillOpen
    BY DEF Times, StillOpen
  <1>12. OpenVersions' = (OpenVersions \ r.current) \cup {n}
    <2>1. \A t \in Recorded' : versions'[t].to = StillOpen <=>
              t = n \/ (t \notin r.current /\ versions[t].to = StillOpen)
      BY <1>4, <1>7, <1>8, <1>9, <1>10, <1>11
    <2> QED BY <1>10, <2>1 DEF OpenVersions
  <1>13. SellersTypeOK'
    <2>1. \A t \in Times : versions'[t] \in Version \cup {NoVersion}
      BY <1>7, <1>8, <1>9 DEF SellersInv, SellersTypeOK
    <2>2. versions' = [t \in Times |-> versions'[t]]
      BY <1>1 DEF Replaced
    <2> QED BY <1>1, <2>1, <2>2 DEF SellersInv, SellersTypeOK
  <1>14. ChangesTimed'
    <2>1. \A x \in InFlight' : x \in InFlight /\ sellerReqs'[x].now # n
      BY <1>1, <1>2, <1>3 DEF SellersInv, ChangesTimed, r
    <2>2. \A t \in Recorded' : t <= sellerClock'
      BY <1>1, <1>4, <1>10 DEF SellersInv, ChangesTimed
    <2>3. \A x \in InFlight' : /\ sellerReqs'[x].now <= sellerClock' /\ sellerReqs'[x].now \notin Recorded'
                               /\ sellerReqs'[x].current \subseteq Recorded'
      BY <1>1, <1>2, <1>10, <2>1 DEF SellersInv, ChangesTimed
    <2>4. \A x, y \in InFlight' : sellerReqs'[x].now = sellerReqs'[y].now => x = y
      BY <1>2, <2>1 DEF SellersInv, ChangesTimed
    <2> QED BY <2>2, <2>3, <2>4 DEF ChangesTimed
  <1>15. HistoryIsWhole'
    <2>1. OpenVersions' # {}
      BY <1>12
    <2>2. \A t \in Recorded' : versions'[t].to # StillOpen => versions'[t].to \in Recorded'
      BY <1>4, <1>7, <1>8, <1>9, <1>10 DEF SellersInv, HistoryIsWhole
    <2> QED BY <2>1, <2>2 DEF HistoryIsWhole
  <1>16. OneAtATime'
    <2> SUFFICES ASSUME ~raced
                 PROVE  /\ \A t, u \in OpenVersions' : t = u
                        /\ \A x, y \in InFlight' : x = y
                        /\ \A x \in InFlight' : sellerReqs'[x].step = "write" =>
                               OpenVersions' \subseteq sellerReqs'[x].current
      BY <1>1 DEF OneAtATime
    <2>1. (\A x, y \in InFlight : x = y) /\ OpenVersions \subseteq r.current
      BY <1>1 DEF SellersInv, OneAtATime, r
    <2> QED BY <1>1, <1>2, <1>12, <2>1
  <1> QED BY <1>2, <1>13, <1>14, <1>15, <1>16 DEF SellersInv

\* Every change of the seller keeps the invariant.
LEMMA SellersStep == SellersInv /\ [SellersNext]_sellerVars => SellersInv'
  <1> SUFFICES ASSUME SellersInv, [SellersNext]_sellerVars PROVE SellersInv'
    OBVIOUS
  <1>1. ASSUME NEW q \in SellerReqs, ChangeRead(q) PROVE SellersInv'
    <2>1. CASE \E t \in Active : versions[t].says = sellerReqs[q].says
      <3>1. sellerReqs' = [sellerReqs EXCEPT ![q] = NoChange] /\ UNCHANGED <<versions, sellerClock, raced>>
        BY <1>1, <2>1 DEF ChangeRead
      <3> QED BY <3>1, ChangeFailsKeeps
    <2> QED BY <1>1, <2>1, ChangeReadKeeps
  <1>2. ASSUME NEW q \in SellerReqs, ChangeFails(q) PROVE SellersInv'
    BY <1>2, ChangeFailsKeeps DEF ChangeFails
  <1>3. CASE UNCHANGED sellerVars
    BY <1>3 DEF sellerVars, SellersInv, SellersTypeOK, ChangesTimed, HistoryIsWhole, OneAtATime,
                Recorded, OpenVersions, InFlight
  <1> QED BY <1>1, <1>2, <1>3, ChangeBeginKeeps, ChangeCommitKeeps DEF SellersNext

-----------------------------------------------------------------------------
(* The names of fuels *)

NamesKept == [FuelCodes -> Labels \cup {NoLabel}]

Reload == {AtRest, [step |-> "read"]} \cup [step: {"assign"}, names: NamesKept]

\* Unless something went astray one reload is under way at a time, the names it is about to keep
\* are those of the rows, and so are the names that are kept while none is under way.
CatalogueInv ==
    /\ CatalogueTypeOK
    /\ catalogueReqs \in [CatalogueReqs -> Reload]
    /\ ~astray => /\ \A p, q \in Reloading : p = q
                  /\ \A q \in Reloading : catalogueReqs[q].step = "assign" => catalogueReqs[q].names = NamesOf(entries)
                  /\ Reloading = {} => labels = NamesOf(entries)

\* The names that are kept are those of the rows.
LEMMA NamesAreFresh == CatalogueInv => LabelsFresh
  BY DEF CatalogueInv, LabelsFresh, NamesOf

\* At first there is no name.
LEMMA CatalogueStart == CatalogueInit => CatalogueInv
  <1> SUFFICES ASSUME CatalogueInit PROVE CatalogueInv
    OBVIOUS
  <1>1. CatalogueTypeOK /\ catalogueReqs \in [CatalogueReqs -> Reload]
    BY CatalogueAssumption DEF CatalogueInit, CatalogueTypeOK, Reload
  <1>2. Reloading = {}
    BY DEF CatalogueInit, Reloading
  <1>3. labels = NamesOf(entries)
    BY DEF CatalogueInit, NamesOf
  <1> QED BY <1>1, <1>2, <1>3 DEF CatalogueInv

\* The names of the rows are names.
LEMMA NamesAreNames == CatalogueTypeOK => NamesOf(entries) \in NamesKept
  <1> SUFFICES ASSUME CatalogueTypeOK PROVE NamesOf(entries) \in NamesKept
    OBVIOUS
  <1>1. \A c \in FuelCodes : entries[c] # NoEntry => entries[c].label \in Labels
    BY DEF CatalogueTypeOK, Entry
  <1> QED BY <1>1 DEF NamesOf, NamesKept

\* Every edit, reload and restart keeps the invariant.
LEMMA CatalogueStep == CatalogueInv /\ [CatalogueNext]_catalogueVars => CatalogueInv'
  <1> SUFFICES ASSUME CatalogueInv, [CatalogueNext]_catalogueVars PROVE CatalogueInv'
    OBVIOUS
  <1>0. [step |-> "read"] # AtRest
    BY DEF AtRest
  <1>1. ASSUME NEW q \in CatalogueReqs, NEW c \in FuelCodes, NEW row \in Entry, EditEntry(q, c, row)
        PROVE  CatalogueInv'
    <2>1. CatalogueTypeOK'
      BY <1>1, CatalogueAssumption DEF EditEntry, CatalogueInv, CatalogueTypeOK
    <2>2. /\ catalogueReqs' \in [CatalogueReqs -> Reload] /\ catalogueReqs'[q] = [step |-> "read"]
          /\ \A x \in CatalogueReqs \ {q} : catalogueReqs'[x] = catalogueReqs[x]
      BY <1>1 DEF EditEntry, CatalogueInv, Reload
    <2>3. Reloading' = Reloading \cup {q}
      BY <1>0, <2>2 DEF Reloading
    <2>4. astray' = (astray \/ Reloading # {})
      BY <1>1 DEF EditEntry
    <2>5. catalogueReqs'[q].step # "assign"
      BY <2>2
    <2> QED BY <2>1, <2>2, <2>3, <2>4, <2>5 DEF CatalogueInv
  <1>2. ASSUME NEW q \in CatalogueReqs, ReloadRead(q) PROVE CatalogueInv'
    <2>1. PICK w \in Reload : w = [step |-> "assign", names |-> NamesOf(entries)]
      BY NamesAreNames DEF CatalogueInv, Reload
    <2>2. w # AtRest /\ w.names = NamesOf(entries) /\ catalogueReqs[q] # AtRest
      BY <1>2, <2>1 DEF AtRest, ReloadRead
    <2>3. /\ catalogueReqs' \in [CatalogueReqs -> Reload] /\ catalogueReqs'[q] = w
          /\ \A x \in CatalogueReqs \ {q} : catalogueReqs'[x] = catalogueReqs[x]
          /\ UNCHANGED <<entries, labels, edits, astray>>
      BY <1>2, <2>1 DEF ReloadRead, CatalogueInv
    <2>4. Reloading' = Reloading
      BY <2>2, <2>3 DEF Reloading
    <2>5. CatalogueTypeOK' /\ NamesOf(entries)' = NamesOf(entries)
      BY <2>3 DEF CatalogueInv, CatalogueTypeOK, NamesOf
    <2>6. ASSUME ~astray
          PROVE  \A x \in Reloading : catalogueReqs'[x].step = "assign" => catalogueReqs'[x].names = NamesOf(entries)
      BY <2>2, <2>3, <2>6 DEF CatalogueInv, Reloading
    <2> QED BY <2>3, <2>4, <2>5, <2>6 DEF CatalogueInv
  <1>3. ASSUME NEW q \in CatalogueReqs, catalogueReqs' = [catalogueReqs EXCEPT ![q] = AtRest]
        PROVE  /\ catalogueReqs' \in [CatalogueReqs -> Reload] /\ Reloading' = Reloading \ {q}
               /\ \A x \in Reloading' : catalogueReqs'[x] = catalogueReqs[x]
    BY <1>3 DEF CatalogueInv, Reload, Reloading
  <1>4. ASSUME NEW q \in CatalogueReqs, ReloadAssign(q) PROVE CatalogueInv'
    <2>1. /\ catalogueReqs' = [catalogueReqs EXCEPT ![q] = AtRest] /\ labels' = catalogueReqs[q].names
          /\ catalogueReqs[q].step = "assign" /\ UNCHANGED <<entries, edits, astray>>
      BY <1>4 DEF ReloadAssign
    <2>2. q \in Reloading
      BY <2>1 DEF Reloading, AtRest
    <2>3. CatalogueTypeOK' /\ NamesOf(entries)' = NamesOf(entries)
      BY <2>1 DEF CatalogueInv, CatalogueTypeOK, NamesOf
    <2>4. ASSUME ~astray
          PROVE  Reloading' = {} /\ labels' = NamesOf(entries)
      BY <1>3, <2>1, <2>2, <2>4 DEF CatalogueInv
    <2> QED BY <1>3, <2>1, <2>3, <2>4 DEF CatalogueInv
  <1>5. ASSUME NEW q \in CatalogueReqs, ReloadCut(q) PROVE CatalogueInv'
    BY <1>3, <1>5 DEF ReloadCut, CatalogueInv, CatalogueTypeOK
  <1>6. ASSUME NEW ok \in BOOLEAN, RestartCatalogue(ok) PROVE CatalogueInv'
    <2>1. CatalogueTypeOK' /\ catalogueReqs' \in [CatalogueReqs -> Reload]
      BY <1>6, CatalogueAssumption DEF RestartCatalogue, CatalogueInv, CatalogueTypeOK, Reload
    <2>2. Reloading' = {}
      BY <1>6 DEF RestartCatalogue, Reloading
    <2>3. ~astray' => labels' = NamesOf(entries)'
      BY <1>6 DEF RestartCatalogue, NamesOf
    <2> QED BY <2>1, <2>2, <2>3 DEF CatalogueInv
  <1>7. CASE UNCHANGED catalogueVars
    BY <1>7 DEF catalogueVars, CatalogueInv, CatalogueTypeOK, Reloading, NamesOf
  <1> QED BY <1>1, <1>2, <1>4, <1>5, <1>6, <1>7 DEF CatalogueNext

-----------------------------------------------------------------------------
(* Tariffs: the journal of prices *)

PriceEntry == [fuel: Fuels, price: Prices \cup {NoPrice}]

\* The last entry about a fuel says its price.
SaysOf(log, f, price) ==
    IF \A i \in 1..Len(log) : log[i].fuel # f THEN price = NoPrice
    ELSE \E i \in 1..Len(log) :
            log[i].fuel = f /\ log[i].price = price /\ \A j \in 1..Len(log) : log[j].fuel = f => j <= i

\* A finite set has a sequence of its members, each once.
LEMMA ListOfSet ==
    ASSUME NEW S, IsFiniteSet(S)
    PROVE  /\ SetToSeq(S) \in Seq(S) /\ Len(SetToSeq(S)) \in Nat
           /\ \A i \in 1..Len(SetToSeq(S)) : SetToSeq(S)[i] \in S
           /\ \A i, j \in 1..Len(SetToSeq(S)) : SetToSeq(S)[i] = SetToSeq(S)[j] => i = j
           /\ \A x \in S : \E i \in 1..Len(SetToSeq(S)) : SetToSeq(S)[i] = x
  <1> DEFINE n == Cardinality(S)
             s == SetToSeq(S)
  <1>1. n \in Nat /\ ExistsBijection(1..n, S)
    BY FS_CardinalityType
  <1>2. PICK b \in Bijection(1..n, S) : TRUE
    BY <1>1 DEF ExistsBijection
  <1>3. b \in [1..n -> S] /\ IsInjective(b)
    BY <1>2 DEF Bijection, Injection, IsInjective
  <1>4. s \in [1..n -> S] /\ IsInjective(s)
    BY <1>3 DEF SetToSeq
  <1>5. s \in Injection(1..n, S)
    BY <1>4 DEF Injection, IsInjective
  <1>6. Cardinality(1..n) = n /\ IsFiniteSet(1..n)
    BY <1>1, FS_Interval
  <1> HIDE DEF s, n
  <1>7. s \in Surjection(1..n, S)
    BY <1>5, <1>6, FS_Injection DEF n
  <1>8. s \in Seq(S) /\ Len(s) = n /\ DOMAIN s = 1..n
    BY <1>1, <1>4
  <1>9. \A x \in S : \E i \in 1..n : s[i] = x
    BY <1>7 DEF Surjection
  <1>10. \A i, j \in 1..n : s[i] = s[j] => i = j
    BY <1>4 DEF IsInjective
  <1>11. \A i \in 1..n : s[i] \in S
    BY <1>4
  <1> QED BY <1>1, <1>8, <1>9, <1>10, <1>11 DEF s

\* The journal of a change has one entry for each fuel whose price is another.
LEMMA ChangesAreListed ==
    ASSUME NEW before \in PriceRows, NEW after \in PriceRows, NEW log, log = PriceChanges(before, after)
    PROVE  /\ log \in Seq(PriceEntry) /\ Len(log) \in Nat
           /\ \A i \in 1..Len(log) : before[log[i].fuel].price # after[log[i].fuel].price
                                     /\ log[i].fuel \in Fuels /\ log[i].price = after[log[i].fuel].price
           /\ \A i, j \in 1..Len(log) : log[i].fuel = log[j].fuel => i = j
           /\ \A f \in Fuels : before[f].price # after[f].price => \E i \in 1..Len(log) : log[i].fuel = f
  <1> DEFINE C == {f \in Fuels : before[f].price # after[f].price}
             E(f) == [fuel |-> f, price |-> after[f].price]
             S == {E(f) : f \in C}
  <1>1. \A f \in Fuels : after[f].price \in Prices \cup {NoPrice}
    BY DEF PriceRows, PriceRow
  <1>2. \A e \in S : e \in PriceEntry /\ e.fuel \in C /\ e.price = after[e.fuel].price /\ e = E(e.fuel)
    BY <1>1 DEF PriceEntry
  <1>3. \A f \in C : E(f) \in S /\ E(f).fuel = f
    OBVIOUS
  <1>4. IsFiniteSet(S)
    <2>1. IsFiniteSet(C)
      BY TariffsAssumption, FS_Subset
    <2>2. [f \in C |-> E(f)] \in Surjection(C, S)
      BY DEF Surjection
    <2> QED BY <2>1, <2>2, FS_Surjection
  <1>5. log = SetToSeq(S)
    BY DEF PriceChanges
  <1> HIDE DEF S, C, E
  <1>6. /\ log \in Seq(S) /\ Len(log) \in Nat
        /\ \A i \in 1..Len(log) : log[i] \in S
        /\ \A i, j \in 1..Len(log) : log[i] = log[j] => i = j
        /\ \A x \in S : \E i \in 1..Len(log) : log[i] = x
    BY <1>4, <1>5, ListOfSet
  <1>7. log \in Seq(PriceEntry)
    <2>1. S \subseteq PriceEntry
      BY <1>2
    <2> QED BY <1>6, <2>1
  <1>8. \A i \in 1..Len(log) : log[i].fuel \in C /\ log[i].price = after[log[i].fuel].price
    BY <1>2, <1>6
  <1>9. \A i, j \in 1..Len(log) : log[i].fuel = log[j].fuel => i = j
    <2>1. \A e, g \in S : e.fuel = g.fuel => e = g
      BY <1>2
    <2> QED BY <1>6, <2>1
  <1>10. \A f \in C : \E i \in 1..Len(log) : log[i].fuel = f
    BY <1>3, <1>6
  <1> QED BY <1>6, <1>7, <1>8, <1>9, <1>10 DEF C

\* A journal that gives the prices before a change gives those after it.
LEMMA JournalGoesOn ==
    ASSUME NEW log \in Seq(PriceEntry), NEW before \in PriceRows, NEW after \in PriceRows,
           \A f \in Fuels : SaysOf(log, f, before[f].price)
    PROVE  /\ log \o PriceChanges(before, after) \in Seq(PriceEntry)
           /\ \A f \in Fuels : SaysOf(log \o PriceChanges(before, after), f, after[f].price)
  <1>1. PICK more : more = PriceChanges(before, after) /\ more \in Seq(PriceEntry)
    BY ChangesAreListed
  <1>2. /\ Len(more) \in Nat
        /\ \A i \in 1..Len(more) : before[more[i].fuel].price # after[more[i].fuel].price
                                   /\ more[i].fuel \in Fuels /\ more[i].price = after[more[i].fuel].price
        /\ \A i, j \in 1..Len(more) : more[i].fuel = more[j].fuel => i = j
        /\ \A f \in Fuels : before[f].price # after[f].price => \E i \in 1..Len(more) : more[i].fuel = f
    BY <1>1, ChangesAreListed
  <1>3. PICK all \in Seq(PriceEntry) : all = log \o more
    <2>1. more \in Seq(PriceEntry)
      BY <1>1
    <2>2. log \o more \in Seq(PriceEntry)
      BY <2>1
    <2> QED BY <2>2
  <1>4. /\ Len(log) \in Nat /\ Len(all) = Len(log) + Len(more)
        /\ \A i \in 1..Len(log) : all[i] = log[i]
        /\ \A i \in 1..Len(more) : all[Len(log) + i] = more[i]
    BY <1>3
  <1>5. \A i \in 1..Len(all) : i \in 1..Len(log) \/ \E j \in 1..Len(more) : i = Len(log) + j
    <2> SUFFICES ASSUME NEW i \in 1..Len(all), i \notin 1..Len(log)
                 PROVE  \E j \in 1..Len(more) : i = Len(log) + j
      OBVIOUS
    <2>1. PICK m, n, k \in Int : m = Len(log) /\ n = Len(more) /\ k = Len(all) /\ m >= 0 /\ n >= 0 /\ k = m + n
      BY <1>2, <1>4
    <2>2. i \in 1..k /\ i \notin 1..m
      BY <2>1
    <2>3. i - m \in 1..n /\ i = m + (i - m)
      BY <2>1, <2>2
    <2> QED BY <2>1, <2>3
  <1>6. ASSUME NEW f \in Fuels PROVE SaysOf(all, f, after[f].price)
    <2>1. CASE before[f].price # after[f].price
      <3>1. PICK i \in 1..Len(more) : more[i].fuel = f
        BY <1>2, <2>1
      <3>2. more[i].price = after[f].price /\ \A j \in 1..Len(more) : more[j].fuel = f => j = i
        BY <1>2, <3>1
      <3>3. PICK k \in 1..Len(all) : k = Len(log) + i
        BY <1>2, <1>4
      <3>4. all[k].fuel = f /\ all[k].price = after[f].price
        BY <1>4, <3>1, <3>2, <3>3
      <3>5. \A j \in 1..Len(all) : all[j].fuel = f => j <= k
        <4> SUFFICES ASSUME NEW j \in 1..Len(all), all[j].fuel = f PROVE j <= k
          OBVIOUS
        <4>1. CASE j \in 1..Len(log)
          BY <1>2, <1>4, <3>3, <4>1
        <4>2. CASE \E m \in 1..Len(more) : j = Len(log) + m
          <5>1. PICK m \in 1..Len(more) : j = Len(log) + m
            BY <4>2
          <5>2. m = i
            BY <1>4, <3>2, <5>1
          <5> QED BY <3>3, <5>1, <5>2, <1>2, <1>4
        <4> QED BY <1>5, <4>1, <4>2
      <3> QED BY <3>4, <3>5 DEF SaysOf
    <2>2. CASE before[f].price = after[f].price
      <3>1. \A i \in 1..Len(more) : more[i].fuel # f
        BY <1>2, <2>2
      <3>2. \A j \in 1..Len(all) : all[j].fuel = f => j \in 1..Len(log) /\ log[j].fuel = f
        BY <1>4, <1>5, <3>1
      <3>3. \A j \in 1..Len(log) : j \in 1..Len(all)
        BY <1>2, <1>4
      <3>4. SaysOf(log, f, after[f].price)
        BY <2>2
      <3>5. CASE \A i \in 1..Len(log) : log[i].fuel # f
        BY <3>2, <3>4, <3>5 DEF SaysOf
      <3>6. CASE ~ \A i \in 1..Len(log) : log[i].fuel # f
        <4>1. PICK i \in 1..Len(log) : /\ log[i].fuel = f /\ log[i].price = after[f].price
                                       /\ \A j \in 1..Len(log) : log[j].fuel = f => j <= i
          BY <3>4, <3>6 DEF SaysOf
        <4>2. i \in 1..Len(all) /\ all[i] = log[i]
          BY <1>4, <3>3
        <4>3. \A j \in 1..Len(all) : all[j].fuel = f => j <= i
          BY <3>2, <4>1
        <4> QED BY <4>1, <4>2, <4>3 DEF SaysOf
      <3> QED BY <3>5, <3>6
    <2> QED BY <2>1, <2>2
  <1> QED BY <1>1, <1>3, <1>6

\* The last entry about a fuel is the one that the replay takes.
LEMMA LastIsSaid ==
    ASSUME NEW t \in Tariff, priceLog[t] \in Seq(PriceEntry), NEW f, NEW price, SaysOf(priceLog[t], f, price)
    PROVE  LastPrice(t, f) = price
  <1> DEFINE log == priceLog[t]
             about == {i \in DOMAIN log : log[i].fuel = f}
  <1>1. Len(log) \in Nat /\ DOMAIN log = 1..Len(log)
    OBVIOUS
  <1>2. CASE about = {}
    <2>1. \A i \in 1..Len(log) : log[i].fuel # f
      BY <1>1, <1>2
    <2> QED BY <1>2, <2>1 DEF LastPrice, SaysOf
  <1>3. CASE about # {}
    <2>1. PICK i \in 1..Len(log) : /\ log[i].fuel = f /\ log[i].price = price
                                   /\ \A j \in 1..Len(log) : log[j].fuel = f => j <= i
      BY <1>1, <1>3 DEF SaysOf
    <2>2. i \in about /\ \A j \in about : j <= i
      BY <1>1, <2>1
    <2>3. \A x \in about : (\A j \in about : x >= j) => x = i
      BY <1>1, <2>2
    <2>4. Max(about) = i
      <3> HIDE DEF about
      <3>1. \A j \in about : i >= j
        BY <2>2, <1>1 DEF about
      <3> QED BY <2>2, <2>3, <3>1 DEF Max
    <2> QED BY <1>3, <2>1, <2>4 DEF LastPrice
  <1> QED BY <1>2, <1>3

-----------------------------------------------------------------------------
(* Tariffs: the inductive invariant *)

TariffTable == [Tariff -> TariffRow \cup {NoTariff}]

UpdateRequest ==
    [step: {"update"}, tariff: Tariff, type: ClientTypes, base: Tariff \cup {NoBase}, markup: Markups \cup {0},
     rows: PriceRows, seen: TariffTable, log: Seq(PriceEntry), clear: SUBSET Tariff]

FlagRequest == [step: {"default", "archive"}, tariff: Tariff, seen: TariffTable, clear: SUBSET Tariff]

TariffRequest == UpdateRequest \cup FlagRequest

\* What a request has found out, by the rows that it has seen.
RequestSays(r) ==
    /\ r.seen[r.tariff] # NoTariff /\ ~r.seen[r.tariff].archived
    /\ \A u \in r.clear : r.seen[u] # NoTariff
    /\ r.step = "update" =>
           /\ ValidPrices(r.rows, r.base) /\ (r.base = NoBase => r.markup = 0)
           /\ r.log = PriceChanges(r.seen[r.tariff].rows, r.rows)
    /\ r.step = "default" =>
           \A u \in Tariff \ {r.tariff} :
               r.seen[u] # NoTariff /\ r.seen[u].isDefault /\ r.seen[u].type = r.seen[r.tariff].type => u \in r.clear
    /\ r.step = "archive" => ~r.seen[r.tariff].isDefault

TariffTypes ==
    /\ TariffsTypeOK
    /\ tariffReqs \in [TariffReqs -> TariffRequest \cup {Unasked}]
    /\ priceLog \in [Tariff -> Seq(PriceEntry)]

\* No tariff that a request has seen is gone.
RequestsSay ==
    \A q \in TariffReqs : tariffReqs[q] # Unasked =>
        RequestSays(tariffReqs[q]) /\ \A u \in Tariff : tariffReqs[q].seen[u] # NoTariff => tariffs[u] # NoTariff

PlainPriced == \A t \in Known : tariffs[t].base = NoBase => ValidPrices(tariffs[t].rows, NoBase)

RowsOf(t) == IF tariffs[t] = NoTariff THEN NoRows ELSE tariffs[t].rows

JournalSays == \A t \in Tariff, f \in Fuels : SaysOf(priceLog[t], f, RowsOf(t)[f].price)

DefaultsDiffer ==
    overlapped = {} /\ retyped = {} =>
        \A t, u \in Known : tariffs[t].isDefault /\ tariffs[u].isDefault /\ tariffs[t].type = tariffs[u].type => t = u

TariffsInv == TariffTypes /\ RequestsSay /\ PlainPriced /\ JournalSays /\ DefaultIsUsable /\ DefaultsDiffer

\* A row is not the row of nothing, and a request not that of nobody.
LEMMA TariffIsThere ==
    /\ \A row \in TariffRow : row # NoTariff
    /\ \A r \in TariffRequest : r # Unasked
  <1>1. \A row \in TariffRow : "base" \in DOMAIN row
    BY DEF TariffRow
  <1>2. "base" \notin DOMAIN NoTariff
    BY DEF NoTariff
  <1>3. \A r \in TariffRequest : "seen" \in DOMAIN r
    BY DEF TariffRequest, UpdateRequest, FlagRequest
  <1>4. "seen" \notin DOMAIN Unasked
    BY DEF Unasked
  <1> QED BY <1>1, <1>2, <1>3, <1>4

\* The invariant is more than what the run checks.
LEMMA TariffsAreOK == TariffsInv => OneDefaultPerType /\ DefaultIsUsable /\ PlainTariffPrices /\ JournalReplays
  <1> SUFFICES ASSUME TariffsInv PROVE OneDefaultPerType /\ PlainTariffPrices /\ JournalReplays
    BY DEF TariffsInv
  <1>1. OneDefaultPerType
    <2> SUFFICES ASSUME overlapped = {}, retyped = {}, NEW type \in ClientTypes
                 PROVE  Cardinality(Defaults(type)) <= 1
      BY DEF OneDefaultPerType
    <2>1. \A t, u \in Defaults(type) : t = u
      BY DEF TariffsInv, DefaultsDiffer, Defaults, Usable
    <2>2. CASE Defaults(type) = {}
      BY <2>2, FS_EmptySet
    <2>3. CASE Defaults(type) # {}
      <3>1. PICK t \in Defaults(type) : Defaults(type) = {t}
        BY <2>1, <2>3
      <3>2. Cardinality({t}) = 1
        BY FS_Singleton
      <3> QED BY <3>1, <3>2
    <2> QED BY <2>2, <2>3
  <1>2. PlainTariffPrices
    BY DEF TariffsInv, PlainPriced, PlainTariffPrices, ValidPrices, Usable, FuelPrice, EffectiveRows
  <1>3. JournalReplays
    <2> SUFFICES ASSUME NEW t \in Known, NEW f \in Fuels PROVE LastPrice(t, f) = tariffs[t].rows[f].price
      BY DEF JournalReplays
    <2>1. t \in Tariff /\ priceLog[t] \in Seq(PriceEntry) /\ RowsOf(t) = tariffs[t].rows
      BY DEF TariffsInv, TariffTypes, Known, RowsOf
    <2>2. SaysOf(priceLog[t], f, tariffs[t].rows[f].price)
      BY <2>1 DEF TariffsInv, JournalSays
    <2> QED BY <2>1, <2>2, LastIsSaid
  <1> QED BY <1>1, <1>2, <1>3

\* The rows of nothing are rows without a price.
LEMMA NoRowsAreRows == NoRows \in PriceRows /\ \A f \in Fuels : NoRows[f].price = NoPrice
  BY DEF NoRows, PriceRows, PriceRow

\* At first there is no tariff, and nothing in the journal.
LEMMA TariffsStart == TariffsInit => TariffsInv
  <1> SUFFICES ASSUME TariffsInit PROVE TariffsInv
    OBVIOUS
  <1>1. Known = {}
    BY DEF TariffsInit, Known
  <1>2. TariffTypes
    <2>1. <<>> \in Seq(PriceEntry)
      OBVIOUS
    <2> QED BY <1>1, <2>1, TariffsAssumption DEF TariffsInit, TariffTypes, TariffsTypeOK
  <1>3. RequestsSay
    BY DEF TariffsInit, RequestsSay
  <1>4. JournalSays
    <2> SUFFICES ASSUME NEW t \in Tariff, NEW f \in Fuels PROVE SaysOf(priceLog[t], f, RowsOf(t)[f].price)
      BY DEF JournalSays
    <2>1. Len(priceLog[t]) = 0 /\ RowsOf(t)[f].price = NoPrice
      BY NoRowsAreRows DEF TariffsInit, RowsOf
    <2> QED BY <2>1 DEF SaysOf
  <1> QED BY <1>1, <1>2, <1>3, <1>4 DEF TariffsInv, PlainPriced, DefaultIsUsable, DefaultsDiffer

\* A request that goes on, or ends, finds the tariffs that it has seen.
LEMMA RequestsStay ==
    ASSUME TariffsInv,
           UNCHANGED tariffReqs \/ \E q \in TariffReqs : tariffReqs' = [tariffReqs EXCEPT ![q] = Unasked],
           \A u \in Tariff : tariffs[u] # NoTariff => tariffs'[u] # NoTariff
    PROVE  tariffReqs' \in [TariffReqs -> TariffRequest \cup {Unasked}] /\ RequestsSay'
  <1>1. /\ tariffReqs' \in [TariffReqs -> TariffRequest \cup {Unasked}]
        /\ \A x \in TariffReqs : tariffReqs'[x] # Unasked => tariffReqs'[x] = tariffReqs[x]
    BY DEF TariffsInv, TariffTypes
  <1>2. ASSUME NEW x \in TariffReqs, tariffReqs'[x] # Unasked
        PROVE  RequestSays(tariffReqs'[x]) /\ \A u \in Tariff : tariffReqs'[x].seen[u] # NoTariff => tariffs'[u] # NoTariff
    BY <1>1, <1>2 DEF TariffsInv, RequestsSay
  <1> QED BY <1>1, <1>2 DEF RequestsSay

\* A request begins: what it has found out is true of the rows it has seen.
LEMMA BeginTariffKeeps ==
    ASSUME TariffsInv, NEW q \in TariffReqs, NEW r \in TariffRequest, r.seen = tariffs, RequestSays(r),
           BeginTariff(q, r), UNCHANGED <<tariffs, priceLog, overlapped, retyped>>
    PROVE  TariffsInv'
  <1>1. /\ tariffReqs' \in [TariffReqs -> TariffRequest \cup {Unasked}] /\ tariffReqs'[q] = r
        /\ \A x \in TariffReqs \ {q} : tariffReqs'[x] = tariffReqs[x]
    BY DEF BeginTariff, TariffsInv, TariffTypes
  <1>2. begunTariffs' \in 0..MaxTariffReqs
    BY TariffsAssumption DEF BeginTariff, TariffsInv, TariffTypes, TariffsTypeOK
  <1>3. Known' = Known /\ \A t \in Tariff : RowsOf(t)' = RowsOf(t)
    BY DEF Known, RowsOf
  <1>4. TariffTypes'
    BY <1>1, <1>2, <1>3 DEF TariffsInv, TariffTypes, TariffsTypeOK
  <1>5. RequestsSay'
    <2>1. ASSUME NEW x \in TariffReqs \ {q}, tariffReqs[x] # Unasked
          PROVE  RequestSays(tariffReqs[x]) /\ \A u \in Tariff : tariffReqs[x].seen[u] # NoTariff => tariffs[u] # NoTariff
      BY <2>1 DEF TariffsInv, RequestsSay
    <2>2. ASSUME NEW x \in TariffReqs, tariffReqs'[x] # Unasked
          PROVE  RequestSays(tariffReqs'[x]) /\ \A u \in Tariff : tariffReqs'[x].seen[u] # NoTariff => tariffs'[u] # NoTariff
      BY <1>1, <2>1, <2>2
    <2> QED BY <2>2 DEF RequestsSay
  <1>6. PlainPriced' /\ DefaultIsUsable' /\ DefaultsDiffer'
    BY <1>3 DEF TariffsInv, PlainPriced, DefaultIsUsable, DefaultsDiffer
  <1>7. JournalSays'
    BY <1>3 DEF TariffsInv, JournalSays
  <1> QED BY <1>4, <1>5, <1>6, <1>7 DEF TariffsInv

\* A tariff is created, with its prices in the journal.
LEMMA CreateTariffKeeps ==
    ASSUME TariffsInv, NEW t \in Tariff, NEW type \in ClientTypes, NEW base \in Tariff \cup {NoBase},
           NEW markup \in Markups, NEW rows \in PriceRows, CreateTariff(t, type, base, markup, rows)
    PROVE  TariffsInv'
  <1>1. PICK row \in TariffRow :
            row = [type |-> type, isDefault |-> FALSE, archived |-> FALSE, base |-> base,
                   markup |-> StoredFormula(base, markup), rows |-> rows]
    <2>1. StoredFormula(base, markup) \in Markups \cup {0}
      BY DEF StoredFormula
    <2>2. [type |-> type, isDefault |-> FALSE, archived |-> FALSE, base |-> base,
           markup |-> StoredFormula(base, markup), rows |-> rows] \in TariffRow
      BY <2>1 DEF TariffRow
    <2> QED BY <2>2
  <1>2. row # NoTariff /\ ~row.isDefault /\ row.rows = rows /\ row.base = base /\ (base = NoBase => row.markup = 0)
    BY <1>1, TariffIsThere DEF StoredFormula
  <1>3. /\ tariffs' = [tariffs EXCEPT ![t] = row]
        /\ priceLog' = [priceLog EXCEPT ![t] = @ \o PriceChanges(NoRows, rows)]
        /\ UNCHANGED <<tariffReqs, overlapped, retyped>> /\ tariffs[t] = NoTariff
    BY <1>1 DEF CreateTariff, Known
  <1>4. tariffs \in TariffTable
    BY DEF TariffsInv, TariffTypes, TariffsTypeOK, TariffTable
  <1>5. /\ tariffs' \in TariffTable /\ tariffs'[t] = row
        /\ \A u \in Tariff \ {t} : tariffs'[u] = tariffs[u]
    BY <1>3, <1>4 DEF TariffTable
  <1>6. Known' = Known \cup {t} /\ t \notin Known
    BY <1>2, <1>3, <1>5 DEF Known
  <1>7. PICK log \in Seq(PriceEntry) : log = priceLog[t]
    BY DEF TariffsInv, TariffTypes
  <1>8. \A f \in Fuels : SaysOf(log, f, NoRows[f].price)
    BY <1>3, <1>7 DEF TariffsInv, JournalSays, RowsOf
  <1>9. /\ log \o PriceChanges(NoRows, rows) \in Seq(PriceEntry)
        /\ \A f \in Fuels : SaysOf(log \o PriceChanges(NoRows, rows), f, rows[f].price)
    BY <1>8, NoRowsAreRows, JournalGoesOn
  <1>10. /\ priceLog' \in [Tariff -> Seq(PriceEntry)] /\ priceLog'[t] = log \o PriceChanges(NoRows, rows)
         /\ \A u \in Tariff \ {t} : priceLog'[u] = priceLog[u]
    BY <1>3, <1>7, <1>9 DEF TariffsInv, TariffTypes
  <1>11. JournalSays'
    <2>1. RowsOf(t)' = rows /\ \A u \in Tariff \ {t} : RowsOf(u)' = RowsOf(u)
      BY <1>2, <1>5 DEF RowsOf
    <2>2. \A u \in Tariff \ {t}, f \in Fuels : SaysOf(priceLog'[u], f, RowsOf(u)[f].price)
      BY <1>10 DEF TariffsInv, JournalSays
    <2>3. \A f \in Fuels : SaysOf(priceLog'[t], f, rows[f].price)
      BY <1>9, <1>10
    <2>4. ASSUME NEW u \in Tariff, NEW f \in Fuels PROVE SaysOf(priceLog'[u], f, (RowsOf(u)')[f].price)
      <3>1. CASE u = t
        BY <2>1, <2>3, <3>1
      <3>2. CASE u # t
        BY <2>1, <2>2, <3>2
      <3> QED BY <3>1, <3>2
    <2> QED BY <2>4 DEF JournalSays
  <1>12. TariffTypes'
    <2>1. \A u \in Known : tariffs'[u] = tariffs[u] /\ (tariffs[u].base = NoBase => tariffs[u].markup = 0)
      BY <1>5, <1>6 DEF TariffsInv, TariffTypes, TariffsTypeOK, Known
    <2>3. \A u \in Known' : tariffs'[u].base = NoBase => tariffs'[u].markup = 0
      BY <1>2, <1>5, <1>6, <2>1
    <2>2. begunTariffs' \in 0..MaxTariffReqs
      BY TariffsAssumption DEF CreateTariff, TariffsInv, TariffTypes, TariffsTypeOK
    <2> QED BY <1>3, <1>5, <1>10, <2>2, <2>3 DEF TariffsInv, TariffTypes, TariffsTypeOK, TariffTable
  <1>13. RequestsSay'
    <2>1. ASSUME NEW x \in TariffReqs, tariffReqs[x] # Unasked
          PROVE  RequestSays(tariffReqs[x]) /\ \A u \in Tariff : tariffReqs[x].seen[u] # NoTariff => tariffs'[u] # NoTariff
      BY <1>2, <1>5, <2>1 DEF TariffsInv, RequestsSay
    <2> QED BY <1>3, <2>1 DEF RequestsSay
  <1>14. PlainPriced'
    <2>1. base = NoBase => ValidPrices(rows, NoBase)
      BY DEF CreateTariff
    <2>2. \A u \in Known : tariffs'[u] = tariffs[u] /\ (tariffs[u].base = NoBase => ValidPrices(tariffs[u].rows, NoBase))
      BY <1>5, <1>6 DEF TariffsInv, PlainPriced, Known
    <2>3. \A u \in Known' : tariffs'[u].base = NoBase => ValidPrices(tariffs'[u].rows, NoBase)
      BY <1>2, <1>5, <1>6, <2>1, <2>2
    <2> QED BY <2>3 DEF PlainPriced
  <1>15. DefaultIsUsable' /\ DefaultsDiffer'
    BY <1>2, <1>3, <1>5, <1>6 DEF TariffsInv, DefaultIsUsable, DefaultsDiffer
  <1> QED BY <1>11, <1>12, <1>13, <1>14, <1>15 DEF TariffsInv

\* What a request has when it commits: its tariff is there, and either nothing has changed since it
\* looked, or the crossing is noted.
LEMMA CommitBegins ==
    ASSUME TariffsInv, NEW q \in TariffReqs, CommitTariff(q), NEW r, r = tariffReqs[q]
    PROVE  /\ r \in TariffRequest /\ r.tariff \in Tariff /\ r.seen \in TariffTable /\ r.clear \subseteq Tariff
           /\ RequestSays(r) /\ tariffs \in TariffTable
           /\ tariffs[r.tariff] \in TariffRow
           /\ \A u \in r.clear : tariffs[u] \in TariffRow
           /\ overlapped' = {} => r.seen = tariffs /\ overlapped = {}
           /\ overlapped \subseteq overlapped' /\ overlapped' \subseteq Tariff
           /\ retyped \subseteq retyped' /\ retyped' \subseteq Tariff
           /\ begunTariffs' = begunTariffs
  <1>1. r \in TariffRequest /\ r.tariff \in Tariff /\ r.seen \in TariffTable /\ r.clear \subseteq Tariff
    BY DEF CommitTariff, TariffsInv, TariffTypes, TariffRequest, UpdateRequest, FlagRequest
  <1>2. tariffs \in TariffTable
    BY DEF TariffsInv, TariffTypes, TariffsTypeOK, TariffTable
  <1>3. RequestSays(r) /\ \A u \in Tariff : r.seen[u] # NoTariff => tariffs[u] # NoTariff
    BY DEF CommitTariff, TariffsInv, RequestsSay
  <1>4. tariffs[r.tariff] \in TariffRow /\ \A u \in r.clear : tariffs[u] \in TariffRow
    BY <1>1, <1>2, <1>3 DEF RequestSays, TariffTable
  <1>5. /\ overlapped' = {} => r.seen = tariffs /\ overlapped = {}
        /\ overlapped \subseteq overlapped' /\ overlapped' \subseteq Tariff
    BY <1>1 DEF CommitTariff, TariffsInv, TariffTypes, TariffsTypeOK
  <1>6. retyped \subseteq retyped' /\ retyped' \subseteq Tariff /\ begunTariffs' = begunTariffs
    BY <1>1 DEF CommitTariff, TariffsInv, TariffTypes, TariffsTypeOK
  <1> QED BY <1>1, <1>2, <1>3, <1>4, <1>5, <1>6

\* A commit of flags leaves the prices as they are.
LEMMA FlagsKeepPrices ==
    ASSUME TariffsInv, tariffs \in TariffTable, tariffs' \in TariffTable, UNCHANGED priceLog,
           \A u \in Tariff : tariffs[u] = NoTariff => tariffs'[u] = NoTariff,
           \A u \in Known : /\ tariffs'[u] \in TariffRow /\ tariffs'[u].base = tariffs[u].base
                            /\ tariffs'[u].markup = tariffs[u].markup /\ tariffs'[u].rows = tariffs[u].rows
    PROVE  /\ Known' = Known /\ PlainPriced' /\ JournalSays'
           /\ \A u \in Known' : tariffs'[u].base = NoBase => tariffs'[u].markup = 0
  <1>1. Known' = Known
    BY TariffIsThere DEF Known
  <1>2. \A t \in Tariff : RowsOf(t)' = RowsOf(t)
    BY TariffIsThere DEF RowsOf, Known
  <1>3. PlainPriced'
    BY <1>1 DEF TariffsInv, PlainPriced
  <1>4. JournalSays'
    BY <1>2 DEF TariffsInv, JournalSays
  <1>5. \A u \in Known' : tariffs'[u].base = NoBase => tariffs'[u].markup = 0
    BY <1>1 DEF TariffsInv, TariffTypes, TariffsTypeOK
  <1> QED BY <1>1, <1>3, <1>4, <1>5

\* One default replaces the others of its type.
LEMMA CommitDefaultKeeps ==
    ASSUME TariffsInv, NEW q \in TariffReqs, CommitTariff(q), tariffReqs[q].step = "default"
    PROVE  TariffsInv'
  <1>1. PICK r : r = tariffReqs[q]
    OBVIOUS
  <1>2. /\ r \in TariffRequest /\ r.tariff \in Tariff /\ r.seen \in TariffTable /\ r.clear \subseteq Tariff
        /\ RequestSays(r) /\ tariffs \in TariffTable
        /\ tariffs[r.tariff] \in TariffRow
        /\ \A u \in r.clear : tariffs[u] \in TariffRow
        /\ overlapped' = {} => r.seen = tariffs /\ overlapped = {}
        /\ overlapped \subseteq overlapped' /\ overlapped' \subseteq Tariff
        /\ retyped \subseteq retyped' /\ retyped' \subseteq Tariff
        /\ begunTariffs' = begunTariffs
    BY <1>1, CommitBegins
  <1>3. PICK t \in Tariff : t = r.tariff
    BY <1>2
  <1>4. /\ tariffs' = [u \in Tariff |->
                IF u = t THEN [tariffs[u] EXCEPT !.isDefault = TRUE]
                ELSE IF u \in r.clear THEN [tariffs[u] EXCEPT !.isDefault = FALSE] ELSE tariffs[u]]
        /\ tariffReqs' = [tariffReqs EXCEPT ![q] = Unasked] /\ UNCHANGED priceLog
    BY <1>1, <1>3 DEF CommitTariff, Rewritten
  <1>5. /\ tariffs'[t] = [tariffs[t] EXCEPT !.isDefault = TRUE]
        /\ \A u \in r.clear \ {t} : tariffs'[u] = [tariffs[u] EXCEPT !.isDefault = FALSE]
        /\ \A u \in Tariff \ {t} : u \notin r.clear => tariffs'[u] = tariffs[u]
    BY <1>2, <1>4
  <1>6. \A row \in TariffRow, b \in BOOLEAN :
            /\ [row EXCEPT !.isDefault = b] \in TariffRow
            /\ [row EXCEPT !.isDefault = b].isDefault = b
            /\ [row EXCEPT !.isDefault = b].type = row.type /\ [row EXCEPT !.isDefault = b].archived = row.archived
            /\ [row EXCEPT !.isDefault = b].base = row.base /\ [row EXCEPT !.isDefault = b].markup = row.markup
            /\ [row EXCEPT !.isDefault = b].rows = row.rows
    BY DEF TariffRow
  <1>7. \A u \in Known : tariffs[u] \in TariffRow
    BY <1>2 DEF Known, TariffTable
  <1>8. \A u \in Known : /\ tariffs'[u] \in TariffRow /\ tariffs'[u].type = tariffs[u].type
                         /\ tariffs'[u].archived = tariffs[u].archived /\ tariffs'[u].base = tariffs[u].base
                         /\ tariffs'[u].markup = tariffs[u].markup /\ tariffs'[u].rows = tariffs[u].rows
    <2> SUFFICES ASSUME NEW u \in Known
                 PROVE  /\ tariffs'[u] \in TariffRow /\ tariffs'[u].type = tariffs[u].type
                        /\ tariffs'[u].archived = tariffs[u].archived /\ tariffs'[u].base = tariffs[u].base
                        /\ tariffs'[u].markup = tariffs[u].markup /\ tariffs'[u].rows = tariffs[u].rows
      OBVIOUS
    <2>1. u \in Tariff /\ tariffs[u] \in TariffRow
      BY <1>7 DEF Known
    <2>2. tariffs'[u] = tariffs[u] \/ \E b \in BOOLEAN : tariffs'[u] = [tariffs[u] EXCEPT !.isDefault = b]
      BY <1>5, <2>1
    <2>3. CASE tariffs'[u] = tariffs[u]
      BY <2>1, <2>3
    <2>4. CASE \E b \in BOOLEAN : tariffs'[u] = [tariffs[u] EXCEPT !.isDefault = b]
      <3>1. PICK b \in BOOLEAN : tariffs'[u] = [tariffs[u] EXCEPT !.isDefault = b]
        BY <2>4
      <3> QED BY <1>6, <2>1, <3>1
    <2> QED BY <2>2, <2>3, <2>4
  <1>9. \A u \in Tariff : tariffs[u] = NoTariff => tariffs'[u] = NoTariff
    BY <1>2, <1>3, <1>5, TariffIsThere
  <1>10. tariffs' \in TariffTable
    <2>1. \A u \in Tariff : tariffs'[u] \in TariffRow \cup {NoTariff}
      BY <1>8, <1>9 DEF Known
    <2>2. tariffs' = [u \in Tariff |-> tariffs'[u]]
      BY <1>4
    <2> QED BY <2>1, <2>2 DEF TariffTable
  <1>11. /\ Known' = Known /\ PlainPriced' /\ JournalSays'
         /\ \A u \in Known' : tariffs'[u].base = NoBase => tariffs'[u].markup = 0
    BY <1>2, <1>4, <1>8, <1>9, <1>10, FlagsKeepPrices
  <1>12. tariffReqs' \in [TariffReqs -> TariffRequest \cup {Unasked}] /\ RequestsSay'
    <2>1. \A u \in Tariff : tariffs[u] # NoTariff => tariffs'[u] # NoTariff
      BY <1>8, TariffIsThere DEF Known
    <2> QED BY <1>4, <2>1, RequestsStay
  <1>13. TariffTypes'
    BY <1>2, <1>4, <1>10, <1>11, <1>12 DEF TariffsInv, TariffTypes, TariffsTypeOK, TariffTable
  <1>14. /\ tariffs'[t].isDefault /\ \A u \in r.clear \ {t} : ~tariffs'[u].isDefault
         /\ \A u \in Tariff \ {t} : u \notin r.clear => tariffs'[u] = tariffs[u]
         /\ t \in Known
    <2>1. tariffs'[t].isDefault = TRUE
      BY <1>2, <1>3, <1>5, <1>6
    <2>2. ASSUME NEW u \in r.clear \ {t} PROVE tariffs'[u].isDefault = FALSE
      <3>1. tariffs[u] \in TariffRow /\ tariffs'[u] = [tariffs[u] EXCEPT !.isDefault = FALSE]
        BY <1>2, <1>5
      <3>2. FALSE \in BOOLEAN
        OBVIOUS
      <3> QED BY <1>6, <3>1, <3>2
    <2>3. t \in Known
      BY <1>2, <1>3, TariffIsThere DEF Known
    <2> QED BY <1>5, <2>1, <2>2, <2>3
  <1>15. DefaultIsUsable'
    <2> SUFFICES ASSUME overlapped' = {}, NEW u \in Known, tariffs'[u].isDefault PROVE ~tariffs'[u].archived
      BY <1>11 DEF DefaultIsUsable
    <2>1. r.seen = tariffs /\ overlapped = {}
      BY <1>2
    <2>2. CASE u = t
      BY <1>2, <1>3, <1>8, <2>1, <2>2 DEF RequestSays
    <2>3. CASE u # t
      <3>1. tariffs'[u] = tariffs[u]
        BY <1>14, <2>3 DEF Known
      <3> QED BY <2>1, <3>1 DEF TariffsInv, DefaultIsUsable
    <2> QED BY <2>2, <2>3
  <1>16. DefaultsDiffer'
    <2> SUFFICES ASSUME overlapped' = {}, retyped' = {}
                 PROVE  \A u, w \in Known : tariffs'[u].isDefault /\ tariffs'[w].isDefault
                                            /\ tariffs'[u].type = tariffs'[w].type => u = w
      BY <1>11 DEF DefaultsDiffer
    <2>1. r.seen = tariffs /\ overlapped = {} /\ retyped = {}
      BY <1>2
    <2>2. \A u \in Known \ {t} : tariffs'[u].isDefault => tariffs'[u] = tariffs[u] /\ u \notin r.clear
      BY <1>14 DEF Known
    <2>3. \A u \in Known \ {t} : tariffs'[u].isDefault => tariffs'[u].type # tariffs'[t].type
      <3>1. \A u \in Known \ {t} : tariffs[u].isDefault /\ u \notin r.clear => tariffs[u].type # tariffs[t].type
        BY <1>1, <1>2, <1>3, <2>1 DEF RequestSays, Known
      <3> QED BY <1>8, <1>14, <2>2, <3>1
    <2>4. \A u, w \in Known \ {t} : tariffs'[u].isDefault /\ tariffs'[w].isDefault
                                    /\ tariffs'[u].type = tariffs'[w].type => u = w
      BY <2>1, <2>2 DEF TariffsInv, DefaultsDiffer
    <2> QED BY <2>3, <2>4
  <1> QED BY <1>11, <1>12, <1>13, <1>15, <1>16 DEF TariffsInv

\* A tariff that is archived was not the default, as its request saw it.
LEMMA CommitArchiveKeeps ==
    ASSUME TariffsInv, NEW q \in TariffReqs, CommitTariff(q), tariffReqs[q].step = "archive"
    PROVE  TariffsInv'
  <1>1. PICK r : r = tariffReqs[q]
    OBVIOUS
  <1>2. /\ r \in TariffRequest /\ r.tariff \in Tariff /\ r.seen \in TariffTable /\ r.clear \subseteq Tariff
        /\ RequestSays(r) /\ tariffs \in TariffTable
        /\ tariffs[r.tariff] \in TariffRow
        /\ \A u \in r.clear : tariffs[u] \in TariffRow
        /\ overlapped' = {} => r.seen = tariffs /\ overlapped = {}
        /\ overlapped \subseteq overlapped' /\ overlapped' \subseteq Tariff
        /\ retyped \subseteq retyped' /\ retyped' \subseteq Tariff
        /\ begunTariffs' = begunTariffs
    BY <1>1, CommitBegins
  <1>3. PICK t \in Tariff : t = r.tariff
    BY <1>2
  <1>4. /\ tariffs' = [tariffs EXCEPT ![t] = [tariffs[t] EXCEPT !.archived = TRUE]]
        /\ tariffReqs' = [tariffReqs EXCEPT ![q] = Unasked] /\ UNCHANGED priceLog
    BY <1>1, <1>3 DEF CommitTariff, Rewritten
  <1>5. PICK row \in TariffRow : row = [tariffs[t] EXCEPT !.archived = TRUE]
    BY <1>2, <1>3 DEF TariffRow
  <1>6. /\ row.type = tariffs[t].type /\ row.isDefault = tariffs[t].isDefault /\ row.base = tariffs[t].base
        /\ row.markup = tariffs[t].markup /\ row.rows = tariffs[t].rows
    BY <1>2, <1>3, <1>5 DEF TariffRow
  <1>7. /\ tariffs' \in TariffTable /\ tariffs'[t] = row
        /\ \A u \in Tariff \ {t} : tariffs'[u] = tariffs[u]
    BY <1>2, <1>4, <1>5 DEF TariffTable
  <1>8. t \in Known /\ \A u \in Known : tariffs[u] \in TariffRow
    BY <1>2, <1>3, TariffIsThere DEF Known, TariffTable
  <1>9. /\ Known' = Known /\ PlainPriced' /\ JournalSays'
        /\ \A u \in Known' : tariffs'[u].base = NoBase => tariffs'[u].markup = 0
    <2>1. \A u \in Tariff : tariffs[u] = NoTariff => tariffs'[u] = NoTariff
      BY <1>7, <1>8 DEF Known
    <2>2. \A u \in Known : /\ tariffs'[u] \in TariffRow /\ tariffs'[u].base = tariffs[u].base
                           /\ tariffs'[u].markup = tariffs[u].markup /\ tariffs'[u].rows = tariffs[u].rows
      BY <1>6, <1>7, <1>8 DEF Known
    <2> QED BY <1>2, <1>4, <1>7, <2>1, <2>2, FlagsKeepPrices
  <1>10. tariffReqs' \in [TariffReqs -> TariffRequest \cup {Unasked}] /\ RequestsSay'
    <2>1. \A u \in Tariff : tariffs[u] # NoTariff => tariffs'[u] # NoTariff
      BY <1>7, TariffIsThere
    <2> QED BY <1>4, <2>1, RequestsStay
  <1>11. TariffTypes'
    BY <1>2, <1>4, <1>7, <1>9, <1>10 DEF TariffsInv, TariffTypes, TariffsTypeOK, TariffTable
  <1>12. DefaultIsUsable'
    <2> SUFFICES ASSUME overlapped' = {}, NEW u \in Known, tariffs'[u].isDefault PROVE ~tariffs'[u].archived
      BY <1>9 DEF DefaultIsUsable
    <2>1. r.seen = tariffs /\ overlapped = {}
      BY <1>2
    <2>2. ~tariffs[t].isDefault
      BY <1>1, <1>2, <1>3, <2>1 DEF RequestSays
    <2>3. u # t /\ tariffs'[u] = tariffs[u]
      BY <1>6, <1>7, <2>2 DEF Known
    <2> QED BY <2>1, <2>3 DEF TariffsInv, DefaultIsUsable
  <1>13. DefaultsDiffer'
    <2> SUFFICES ASSUME overlapped' = {}, retyped' = {}
                 PROVE  \A u, w \in Known : tariffs'[u].isDefault /\ tariffs'[w].isDefault
                                            /\ tariffs'[u].type = tariffs'[w].type => u = w
      BY <1>9 DEF DefaultsDiffer
    <2>1. overlapped = {} /\ retyped = {}
      BY <1>2
    <2>2. \A u \in Known : tariffs'[u].isDefault = tariffs[u].isDefault /\ tariffs'[u].type = tariffs[u].type
      BY <1>6, <1>7 DEF Known
    <2> QED BY <2>1, <2>2 DEF TariffsInv, DefaultsDiffer
  <1> QED BY <1>9, <1>10, <1>11, <1>12, <1>13 DEF TariffsInv

\* The prices of an update are those that were checked, and the journal has what is new in them.
LEMMA CommitUpdateKeeps ==
    ASSUME TariffsInv, NEW q \in TariffReqs, CommitTariff(q), tariffReqs[q].step = "update"
    PROVE  TariffsInv'
  <1>1. PICK r : r = tariffReqs[q]
    OBVIOUS
  <1>2. /\ r \in TariffRequest /\ r.tariff \in Tariff /\ r.seen \in TariffTable /\ r.clear \subseteq Tariff
        /\ RequestSays(r) /\ tariffs \in TariffTable
        /\ tariffs[r.tariff] \in TariffRow
        /\ \A u \in r.clear : tariffs[u] \in TariffRow
        /\ overlapped' = {} => r.seen = tariffs /\ overlapped = {}
        /\ overlapped \subseteq overlapped' /\ overlapped' \subseteq Tariff
        /\ retyped \subseteq retyped' /\ retyped' \subseteq Tariff
        /\ begunTariffs' = begunTariffs
    BY <1>1, CommitBegins
  <1>3. PICK t \in Tariff : t = r.tariff
    BY <1>2
  <1>4. r \in UpdateRequest /\ r.rows \in PriceRows /\ r.type \in ClientTypes
    BY <1>1, <1>2 DEF TariffRequest, UpdateRequest, FlagRequest
  <1>5. /\ tariffs' = [tariffs EXCEPT ![t] = [tariffs[t] EXCEPT !.type = r.type, !.base = r.base,
                                                                !.markup = r.markup, !.rows = r.rows]]
        /\ tariffReqs' = [tariffReqs EXCEPT ![q] = Unasked]
        /\ priceLog' = [priceLog EXCEPT ![t] = @ \o r.log]
        /\ tariffs[t].rows = r.seen[t].rows
        /\ retyped' = {} => ~tariffs[t].isDefault \/ r.type = tariffs[t].type
    BY <1>1, <1>2, <1>3 DEF CommitTariff, Rewritten, TariffTable
  <1>6. PICK row \in TariffRow :
            row = [tariffs[t] EXCEPT !.type = r.type, !.base = r.base, !.markup = r.markup, !.rows = r.rows]
    BY <1>2, <1>3, <1>4 DEF TariffRow, UpdateRequest
  <1>7. /\ row.type = r.type /\ row.isDefault = tariffs[t].isDefault /\ row.base = r.base
        /\ row.markup = r.markup /\ row.rows = r.rows /\ row.archived = tariffs[t].archived
    BY <1>2, <1>3, <1>6 DEF TariffRow
  <1>8. /\ tariffs' \in TariffTable /\ tariffs'[t] = row
        /\ \A u \in Tariff \ {t} : tariffs'[u] = tariffs[u]
    BY <1>2, <1>5, <1>6 DEF TariffTable
  <1>9. t \in Known /\ Known' = Known /\ row # NoTariff
    BY <1>2, <1>3, <1>8, TariffIsThere DEF Known
  <1>10. ValidPrices(r.rows, r.base) /\ (r.base = NoBase => r.markup = 0) /\ r.log = PriceChanges(tariffs[t].rows, r.rows)
    BY <1>1, <1>2, <1>3, <1>5 DEF RequestSays
  <1>11. PICK log \in Seq(PriceEntry) : log = priceLog[t]
    BY DEF TariffsInv, TariffTypes
  <1>12. PICK before \in PriceRows : before = tariffs[t].rows
    BY <1>2, <1>3 DEF TariffRow
  <1>13. \A f \in Fuels : SaysOf(log, f, before[f].price)
    BY <1>9, <1>11, <1>12 DEF TariffsInv, JournalSays, RowsOf, Known
  <1>14. /\ log \o PriceChanges(before, r.rows) \in Seq(PriceEntry)
         /\ \A f \in Fuels : SaysOf(log \o PriceChanges(before, r.rows), f, r.rows[f].price)
    BY <1>4, <1>13, JournalGoesOn
  <1>15. /\ priceLog' \in [Tariff -> Seq(PriceEntry)] /\ priceLog'[t] = log \o PriceChanges(before, r.rows)
         /\ \A u \in Tariff \ {t} : priceLog'[u] = priceLog[u]
    BY <1>5, <1>10, <1>11, <1>12, <1>14 DEF TariffsInv, TariffTypes
  <1>16. JournalSays'
    <2>1. RowsOf(t)' = r.rows /\ \A u \in Tariff \ {t} : RowsOf(u)' = RowsOf(u)
      BY <1>7, <1>8, <1>9 DEF RowsOf
    <2>2. \A u \in Tariff \ {t}, f \in Fuels : SaysOf(priceLog'[u], f, RowsOf(u)[f].price)
      BY <1>15 DEF TariffsInv, JournalSays
    <2>3. \A f \in Fuels : SaysOf(priceLog'[t], f, r.rows[f].price)
      BY <1>14, <1>15
    <2>4. ASSUME NEW u \in Tariff, NEW f \in Fuels PROVE SaysOf(priceLog'[u], f, (RowsOf(u)')[f].price)
      <3>1. CASE u = t
        BY <2>1, <2>3, <3>1
      <3>2. CASE u # t
        BY <2>1, <2>2, <3>2
      <3> QED BY <3>1, <3>2
    <2> QED BY <2>4 DEF JournalSays
  <1>17. tariffReqs' \in [TariffReqs -> TariffRequest \cup {Unasked}] /\ RequestsSay'
    <2>1. \A u \in Tariff : tariffs[u] # NoTariff => tariffs'[u] # NoTariff
      BY <1>8, <1>9
    <2> QED BY <1>5, <2>1, RequestsStay
  <1>18. TariffTypes'
    <2>1. \A u \in Known : u # t => tariffs'[u] = tariffs[u] /\ (tariffs[u].base = NoBase => tariffs[u].markup = 0)
      BY <1>8 DEF TariffsInv, TariffTypes, TariffsTypeOK, Known
    <2>2. \A u \in Known' : tariffs'[u].base = NoBase => tariffs'[u].markup = 0
      BY <1>7, <1>8, <1>9, <1>10, <2>1
    <2>3. begunTariffs' \in 0..MaxTariffReqs
      BY <1>2 DEF TariffsInv, TariffTypes, TariffsTypeOK
    <2> QED BY <1>2, <1>8, <1>15, <1>17, <2>2, <2>3 DEF TariffTypes, TariffsTypeOK, TariffTable
  <1>19. PlainPriced'
    <2>1. \A u \in Known : u # t => tariffs'[u] = tariffs[u] /\ (tariffs[u].base = NoBase => ValidPrices(tariffs[u].rows, NoBase))
      BY <1>8 DEF TariffsInv, PlainPriced, Known
    <2>2. r.base = NoBase => ValidPrices(r.rows, NoBase)
      BY <1>10
    <2>3. \A u \in Known' : tariffs'[u].base = NoBase => ValidPrices(tariffs'[u].rows, NoBase)
      BY <1>7, <1>8, <1>9, <2>1, <2>2
    <2> QED BY <2>3 DEF PlainPriced
  <1>20. DefaultIsUsable'
    <2> SUFFICES ASSUME overlapped' = {}, NEW u \in Known, tariffs'[u].isDefault PROVE ~tariffs'[u].archived
      BY <1>9 DEF DefaultIsUsable
    <2>1. tariffs'[u].isDefault = tariffs[u].isDefault /\ tariffs'[u].archived = tariffs[u].archived
      BY <1>7, <1>8 DEF Known
    <2> QED BY <1>2, <2>1 DEF TariffsInv, DefaultIsUsable
  <1>21. DefaultsDiffer'
    <2> SUFFICES ASSUME overlapped' = {}, retyped' = {}
                 PROVE  \A u, w \in Known : tariffs'[u].isDefault /\ tariffs'[w].isDefault
                                            /\ tariffs'[u].type = tariffs'[w].type => u = w
      BY <1>9 DEF DefaultsDiffer
    <2>1. overlapped = {} /\ retyped = {}
      BY <1>2
    <2>2. \A u \in Known : /\ tariffs'[u].isDefault = tariffs[u].isDefault
                           /\ tariffs'[u].isDefault => tariffs'[u].type = tariffs[u].type
      BY <1>5, <1>7, <1>8 DEF Known
    <2> QED BY <2>1, <2>2 DEF TariffsInv, DefaultsDiffer
  <1> QED BY <1>16, <1>17, <1>18, <1>19, <1>20, <1>21 DEF TariffsInv

\* Every request about tariffs keeps the invariant.
LEMMA TariffsStep == TariffsInv /\ [TariffsNext]_tariffVars => TariffsInv'
  <1> SUFFICES ASSUME TariffsInv, [TariffsNext]_tariffVars PROVE TariffsInv'
    OBVIOUS
  <1>1. tariffs \in TariffTable
    BY DEF TariffsInv, TariffTypes, TariffsTypeOK, TariffTable
  <1>2. \A t \in Usable : t \in Tariff /\ tariffs[t] # NoTariff /\ ~tariffs[t].archived /\ tariffs[t].rows \in PriceRows
    BY <1>1 DEF Usable, Known, TariffTable, TariffRow
  <1>3. ASSUME NEW q \in TariffReqs, NEW t \in Tariff, NEW type \in ClientTypes, NEW base \in Tariff \cup {NoBase},
               NEW markup \in Markups, NEW rows \in PriceRows, UpdateBegin(q, t, type, base, markup, rows)
        PROVE  TariffsInv'
    <2>1. t \in Usable /\ ValidPrices(rows, base) /\ UNCHANGED <<tariffs, priceLog, overlapped, retyped>>
      BY <1>3 DEF UpdateBegin
    <2>2. PriceChanges(tariffs[t].rows, rows) \in Seq(PriceEntry)
      BY <1>2, <2>1, ChangesAreListed
    <2>3. StoredFormula(base, markup) \in Markups \cup {0} /\ (base = NoBase => StoredFormula(base, markup) = 0)
      BY DEF StoredFormula
    <2>4. PICK r : r = [step |-> "update", tariff |-> t, type |-> type, base |-> base,
                        markup |-> StoredFormula(base, markup), rows |-> rows, seen |-> tariffs,
                        log |-> PriceChanges(tariffs[t].rows, rows), clear |-> {}]
      OBVIOUS
    <2>5. r \in UpdateRequest
      BY <1>1, <2>2, <2>3, <2>4 DEF UpdateRequest
    <2>6. /\ r.step = "update" /\ r.tariff = t /\ r.seen = tariffs /\ r.clear = {} /\ r.base = base /\ r.rows = rows
          /\ r.markup = StoredFormula(base, markup) /\ r.log = PriceChanges(tariffs[t].rows, rows)
      BY <2>4
    <2>7. RequestSays(r)
      BY <1>2, <2>1, <2>3, <2>6 DEF RequestSays
    <2>8. BeginTariff(q, r)
      BY <1>3, <2>4 DEF UpdateBegin
    <2> QED BY <2>1, <2>5, <2>6, <2>7, <2>8, BeginTariffKeeps DEF TariffRequest
  <1>4. ASSUME NEW q \in TariffReqs, NEW t \in Tariff, SetDefaultBegin(q, t) PROVE TariffsInv'
    <2>1. t \in Usable /\ UNCHANGED <<tariffs, priceLog, overlapped, retyped>>
      BY <1>4 DEF SetDefaultBegin
    <2>2. OthersDefault(t) \in SUBSET Tariff
      BY DEF OthersDefault, Known
    <2>3. PICK r : r = [step |-> "default", tariff |-> t, seen |-> tariffs, clear |-> OthersDefault(t)]
      OBVIOUS
    <2>4. r \in FlagRequest
      BY <1>1, <2>2, <2>3 DEF FlagRequest
    <2>5. r.step = "default" /\ r.tariff = t /\ r.seen = tariffs /\ r.clear = OthersDefault(t)
      BY <2>3
    <2>6. RequestSays(r)
      BY <1>2, <2>1, <2>5 DEF RequestSays, OthersDefault, Known
    <2>7. BeginTariff(q, r)
      BY <1>4, <2>3 DEF SetDefaultBegin
    <2> QED BY <2>1, <2>4, <2>5, <2>6, <2>7, BeginTariffKeeps DEF TariffRequest
  <1>5. ASSUME NEW q \in TariffReqs, NEW t \in Tariff, ArchiveBegin(q, t) PROVE TariffsInv'
    <2>1. t \in Usable /\ ~tariffs[t].isDefault /\ UNCHANGED <<tariffs, priceLog, overlapped, retyped>>
      BY <1>5 DEF ArchiveBegin
    <2>2. PICK r : r = [step |-> "archive", tariff |-> t, seen |-> tariffs, clear |-> {}]
      OBVIOUS
    <2>3. r \in FlagRequest
      BY <1>1, <2>2 DEF FlagRequest
    <2>4. r.step = "archive" /\ r.tariff = t /\ r.seen = tariffs /\ r.clear = {}
      BY <2>2
    <2>5. RequestSays(r)
      BY <1>2, <2>1, <2>4 DEF RequestSays
    <2>6. BeginTariff(q, r)
      BY <1>5, <2>2 DEF ArchiveBegin
    <2> QED BY <2>1, <2>3, <2>4, <2>5, <2>6, BeginTariffKeeps DEF TariffRequest
  <1>6. ASSUME NEW q \in TariffReqs, CommitTariff(q) PROVE TariffsInv'
    <2>1. tariffReqs[q] \in TariffRequest
      BY <1>6 DEF CommitTariff, TariffsInv, TariffTypes
    <2>2. tariffReqs[q].step \in {"update", "default", "archive"}
      BY <2>1 DEF TariffRequest, UpdateRequest, FlagRequest
    <2> QED BY <1>6, <2>2, CommitUpdateKeeps, CommitDefaultKeeps, CommitArchiveKeeps
  <1>7. ASSUME UNCHANGED tariffReqs \/ \E q \in TariffReqs : tariffReqs' = [tariffReqs EXCEPT ![q] = Unasked],
               UNCHANGED <<tariffs, priceLog, begunTariffs, overlapped, retyped>>
        PROVE  TariffsInv'
    <2>1. tariffReqs' \in [TariffReqs -> TariffRequest \cup {Unasked}] /\ RequestsSay'
      BY <1>7, RequestsStay
    <2>2. Known' = Known /\ \A t \in Tariff : RowsOf(t)' = RowsOf(t)
      BY <1>7 DEF Known, RowsOf
    <2>3. TariffTypes'
      BY <1>7, <2>1, <2>2 DEF TariffsInv, TariffTypes, TariffsTypeOK
    <2>4. PlainPriced' /\ DefaultIsUsable' /\ DefaultsDiffer'
      BY <1>7, <2>2 DEF TariffsInv, PlainPriced, DefaultIsUsable, DefaultsDiffer
    <2>5. JournalSays'
      BY <1>7, <2>2 DEF TariffsInv, JournalSays
    <2> QED BY <2>1, <2>3, <2>4, <2>5 DEF TariffsInv
  <1>8. ASSUME NEW q \in TariffReqs, TariffFails(q) PROVE TariffsInv'
    BY <1>7, <1>8 DEF TariffFails
  <1>9. CASE UNCHANGED tariffVars
    BY <1>7, <1>9 DEF tariffVars
  <1>10. CASE TariffsNext
    <2>1. CASE \E t \in Tariff, type \in ClientTypes, base \in Tariff \cup {NoBase}, markup \in Markups, rows \in PriceRows :
                  \/ CreateTariff(t, type, base, markup, rows)
                  \/ \E q \in TariffReqs : UpdateBegin(q, t, type, base, markup, rows)
      BY <1>3, <2>1, CreateTariffKeeps
    <2>2. CASE \E q \in TariffReqs :
                  \/ CommitTariff(q) \/ TariffFails(q)
                  \/ \E t \in Tariff : SetDefaultBegin(q, t) \/ ArchiveBegin(q, t)
      BY <1>4, <1>5, <1>6, <1>8, <2>2
    <2> QED BY <1>10, <2>1, <2>2 DEF TariffsNext
  <1> QED BY <1>9, <1>10

-----------------------------------------------------------------------------
(* The form and the order *)

\* What an order of an input costs, by the prices of today.
Charged(i) ==
    Total(IF ByHand(i) THEN ManualFuel(i.manualPrice, i.volume) ELSE TariffFuel(litrePrice, i.volume),
          Delivery(i), i.volume, ByHand(i))

\* What the form has shown is what an order costs, while the prices have not changed.
FormInv ==
    /\ litrePrice \in LitrePrices \cup {NoPriceToday}
    /\ \A i \in Inputs : preview # NoQuote /\ preview.input = i => preview.total = Charged(i)

\* The form's own way to the fuel part leads to the sum of the order.
LEMMA SameFuel ==
    ASSUME NEW price \in LitrePrices \cup {NoPriceToday}, NEW vol \in Volumes
    PROVE  PreviewFuel(price, vol) = TariffFuel(price, vol)
  <1>1. price \in Int /\ vol \in Int /\ Discount(vol) \in Int
    BY MoneyAssumption DEF Discount, NoPriceToday
  <1>2. price * (100 - Discount(vol)) = price * 100 - price * Discount(vol)
    BY <1>1
  <1> QED BY <1>2 DEF PreviewFuel, TariffFuel

\* Each step of the sums keeps what the form has shown true, and the order costs that.
LEMMA FormStep ==
    ASSUME FormInv, [MoneyNext]_moneyVars
    PROVE  /\ FormInv'
           /\ ~Quoted /\ preview # NoQuote /\ quote' # NoQuote => quote'.expected = preview.total
  <1>1. ASSUME NEW p \in LitrePrices \cup {NoPriceToday}, NEW z \in ZonePrices \cup {NoSum}, PricesChange(p, z)
        PROVE  FormInv' /\ quote' = quote
    <2>1. litrePrice' \in LitrePrices \cup {NoPriceToday} /\ preview' = NoQuote /\ quote' = quote
      BY <1>1 DEF PricesChange
    <2> QED BY <2>1 DEF FormInv
  <1>2. ASSUME NEW i \in Inputs, Preview(i) PROVE FormInv' /\ quote' = quote
    <2>1. i.volume \in Volumes
      BY DEF Inputs
    <2>2. PreviewFuel(litrePrice, i.volume) = TariffFuel(litrePrice, i.volume)
      BY <2>1, SameFuel DEF FormInv
    <2>3. preview' = [input |-> i, total |-> Charged(i)] /\ UNCHANGED <<quote, litrePrice, zonePrice>>
      BY <1>2, <2>2 DEF Preview, Charged
    <2>4. preview'.input = i /\ preview'.total = Charged(i)
      BY <2>3
    <2>5. \A j \in Inputs : Charged(j)' = Charged(j)
      BY <2>3 DEF Charged, Delivery
    <2>6. litrePrice' \in LitrePrices \cup {NoPriceToday}
      BY <2>3 DEF FormInv
    <2> QED BY <2>3, <2>4, <2>5, <2>6 DEF FormInv
  <1>3. ASSUME UNCHANGED <<litrePrice, zonePrice, preview>> PROVE FormInv'
    <2>1. \A i \in Inputs : Charged(i)' = Charged(i)
      BY <1>3 DEF Charged, Delivery
    <2> QED BY <1>3, <2>1 DEF FormInv
  <1>4. ASSUME NEW i \in Inputs, Create(i)
        PROVE  FormInv' /\ (preview # NoQuote => quote'.expected = preview.total)
    <2>1. quote'.expected = Charged(i) /\ (preview # NoQuote => preview.input = i)
      BY <1>4 DEF Create, Charged
    <2>2. UNCHANGED <<litrePrice, zonePrice, preview>>
      BY <1>4 DEF Create
    <2> QED BY <1>3, <2>1, <2>2 DEF FormInv
  <1>5. ASSUME NEW vol \in Volumes, NEW company \in BOOLEAN, NEW sum \in TypedSums \cup {NoSum},
               NEW last \in TypedSums \cup {NoSum}, NEW cost \in Deliveries \cup {NoSum}, NEW away \in BOOLEAN,
               Update(vol, company, sum, cost, last, away)
        PROVE  FormInv' /\ Quoted
    BY <1>3, <1>5 DEF Update
  <1>6. ASSUME NEW away \in BOOLEAN, Approve(away) PROVE FormInv' /\ Quoted
    BY <1>3, <1>6 DEF Approve
  <1>7. ASSUME NEW vol \in Volumes, Deliver(vol) PROVE FormInv' /\ Quoted
    BY <1>3, <1>7 DEF Deliver
  <1>8. CASE UNCHANGED moneyVars
    BY <1>3, <1>8 DEF moneyVars, Quoted
  <1>9. CASE MoneyNext
    <2>1. CASE \E p \in LitrePrices \cup {NoPriceToday}, z \in ZonePrices \cup {NoSum} : PricesChange(p, z)
      BY <1>1, <2>1 DEF Quoted
    <2>2. CASE \E i \in Inputs : Preview(i) \/ Create(i)
      BY <1>2, <1>4, <2>2 DEF Quoted
    <2>3. CASE \E vol \in Volumes, company \in BOOLEAN, sum, last \in TypedSums \cup {NoSum},
                  cost \in Deliveries \cup {NoSum}, away \in BOOLEAN : Update(vol, company, sum, cost, last, away)
      BY <1>5, <2>3
    <2>4. CASE (\E away \in BOOLEAN : Approve(away)) \/ \E vol \in Volumes : Deliver(vol)
      BY <1>6, <1>7, <2>4
    <2> QED BY <1>9, <2>1, <2>2, <2>3, <2>4 DEF MoneyNext
  <1> QED BY <1>8, <1>9

-----------------------------------------------------------------------------
(* Invoices: the inductive invariant *)

DocRequest ==
    [kind: Holders \cup {"issue", "mail", "chat"}, order: Orders, amount: Amounts \cup {NotComputed},
     step: {"look", "render", "write", "post", "mark"}, doc: Numbers \cup {NoNumber}, fresh: BOOLEAN,
     file: Files \cup {NoPdf}, sent: BOOLEAN]

\* What the steps of a request have made of it.
InShape(r) ==
    /\ r.step = "look" => r.doc = NoNumber /\ r.kind \in Holders \cup {"issue"}
    /\ r.step \in {"render", "write"} =>
           r.doc \in Numbers /\ r.amount \in Amounts /\ r.kind \in Holders \cup {"issue"}
    /\ r.step \in {"post", "mark"} => r.doc \in Numbers /\ ~r.fresh /\ r.kind \in {"mail", "chat"}
    /\ r.fresh => r.step \in {"render", "write"}
    /\ r.file \in Files => r.step = "write" /\ r.file.order = r.order
    /\ r.sent => r.fresh /\ r.file \in Files
    /\ r.sent => r.kind = "create"

DocTypes ==
    /\ DocsTypeOK
    /\ docReqs \in [DocRequests -> DocRequest \cup {Free}]
    /\ \A q \in DocRequests : docReqs[q] # Free => InShape(docReqs[q])
    /\ orderLock \in [Orders -> BOOLEAN] /\ numberLock \in BOOLEAN

\* The numbers that are taken, and what a row and a file always are.
RowsHold ==
    /\ \A n \in Numbers : Exists(n) =>
           /\ n <= numbered /\ amount[docs[n].order] # Absent
           /\ docs[n].file \in Files => docs[n].file.order = docs[n].order
           /\ docs[n].state = "draft" => docs[n].file = NoPdf
    /\ \A f \in Files : disk[f] \in Pdf => disk[f].order = f.order

Busy == {q \in DocRequests : docReqs[q] # Free}

\* A new invoice is numbered under the lock of the counter, another works on a row that is there.
NumberOf(q) ==
    /\ docReqs[q].fresh => numberLock /\ docReqs[q].doc = numbered + 1
    /\ docReqs[q].doc # NoNumber /\ ~docReqs[q].fresh =>
           Exists(docReqs[q].doc) /\ docs[docReqs[q].doc].order = docReqs[q].order
    /\ docReqs[q].step \in {"post", "mark"} => docs[docReqs[q].doc].state # "draft"

NumbersHeld ==
    /\ \A q \in Busy : NumberOf(q)
    /\ \A p, q \in Busy : docReqs[p].fresh /\ docReqs[q].fresh => p = q

\* The row of an order is locked by one request.
LocksHeld ==
    /\ \A q \in Busy : docReqs[q].kind \in Holders => orderLock[docReqs[q].order]
    /\ \A p, q \in Busy : docReqs[p].kind \in Holders /\ docReqs[q].kind \in Holders
                            /\ docReqs[p].order = docReqs[q].order => p = q

\* A creation holds the row of an order that nobody else knows of.
CreationsAlone ==
    \A q \in Busy : docReqs[q].kind = "create" <=> amount[docReqs[q].order] = Absent

\* Of an order where no two requests met:
OneWorker ==
    \A p, q \in Busy : docReqs[p].order = docReqs[q].order /\ docReqs[q].order \notin crowded => p = q

OneInvoice ==
    /\ \A m, n \in Numbers : Exists(m) /\ Exists(n) /\ docs[m].order = docs[n].order /\ docs[n].order \notin crowded => m = n
    /\ \A q \in Busy, n \in Numbers : docReqs[q].fresh /\ docReqs[q].order \notin crowded /\ Exists(n) =>
           docs[n].order # docReqs[q].order

\* ... a manual issue has the amount that is committed, a file that was not written is noted, and one
\* that was written is there; what was sent is it.
WorkOf(q) ==
    /\ docReqs[q].kind = "issue" => docReqs[q].amount = amount[docReqs[q].order]
    /\ docReqs[q].step = "write" /\ docReqs[q].file = NoPdf => docReqs[q].order \in loose
    /\ docReqs[q].file \in Files =>
           disk[docReqs[q].file] = [state |-> "file", order |-> docReqs[q].order, number |-> docReqs[q].doc,
                                    amount |-> docReqs[q].amount]
    /\ docReqs[q].sent => received[docReqs[q].doc] \in {disk[docReqs[q].file], LinkInChat}
    /\ docReqs[q].step = "mark" /\ docReqs[q].order \notin loose =>
           received[docReqs[q].doc] \in {Exported(docReqs[q].doc), LinkInChat}

WorkHolds == \A q \in Busy : docReqs[q].order \notin crowded => WorkOf(q)

\* A request that has written the file of an order, and not yet its row.
WroteFile(o) == \E q \in Busy : docReqs[q].order = o /\ docReqs[q].file \in Files

\* ... and its invoice says what it costs, on paper too.
RowSays(n) ==
    docs[n].order \notin loose \cup crowded =>
        /\ docs[n].order \notin penciled /\ amount[docs[n].order] # NotComputed => docs[n].amount = amount[docs[n].order]
        /\ ~WroteFile(docs[n].order) => PdfOf(n) = Exported(n)
        /\ docs[n].state = "sent" => received[n] \in {Exported(n), LinkInChat}

RowsSay == \A n \in Numbers : Exists(n) => RowSays(n)

\* What a client has of a number is of the order that has it, or will, or was announced in vain.
PaperHolds ==
    \A n \in Numbers : received[n] \in Pdf =>
        \/ received[n].order \in unkept
        \/ Exists(n) /\ docs[n].order = received[n].order
        \/ \E q \in Busy : docReqs[q].sent /\ docReqs[q].doc = n /\ docReqs[q].order = received[n].order

DocsInv ==
    /\ DocTypes /\ RowsHold /\ NumbersHeld /\ LocksHeld /\ CreationsAlone /\ OneWorker /\ OneInvoice
    /\ WorkHolds /\ RowsSay /\ PaperHolds

\* What is there is not nothing, and what is one thing is not another.
LEMMA DocIsThere ==
    /\ \A r \in DocRequest : r # Free
    /\ \A row \in DocRow : row # NoDocument
    /\ \A f \in Files : f # NoPdf
    /\ NoPdf \notin Pdf /\ LinkInChat \notin Pdf /\ NoPdf \notin Files
  <1>1. \A r \in DocRequest : "doc" \in DOMAIN r
    BY DEF DocRequest
  <1>2. "doc" \notin DOMAIN Free
    BY DEF Free
  <1>3. \A row \in DocRow : "file" \in DOMAIN row
    BY DEF DocRow
  <1>4. "file" \notin DOMAIN NoDocument
    BY DEF NoDocument
  <1>5. \A f \in Files : "label" \in DOMAIN f
    BY DEF Files
  <1>6. "label" \notin DOMAIN NoPdf
    BY DEF NoPdf
  <1>7. \A f \in Pdf : "number" \in DOMAIN f
    BY DEF Pdf
  <1>8. "number" \notin DOMAIN NoPdf /\ "number" \notin DOMAIN LinkInChat
    BY DEF NoPdf, LinkInChat
  <1> QED BY <1>1, <1>2, <1>3, <1>4, <1>5, <1>6, <1>7, <1>8

\* The invariant is more than what the run checks.
LEMMA DocsAreOK == DocsInv => InvoiceOnce /\ InvoiceFollowsOrder /\ SentWasReceived /\ PaperIsOwn
  <1> SUFFICES ASSUME DocsInv PROVE InvoiceOnce /\ InvoiceFollowsOrder /\ SentWasReceived /\ PaperIsOwn
    OBVIOUS
  <1>1. InvoiceOnce
    <2> SUFFICES ASSUME NEW o \in Orders \ crowded PROVE Cardinality(InvoicesOf(o)) <= 1
      BY DEF InvoiceOnce
    <2>1. \A m, n \in InvoicesOf(o) : m = n
      BY DEF DocsInv, OneInvoice, InvoicesOf
    <2>2. CASE InvoicesOf(o) = {}
      BY <2>2, FS_EmptySet
    <2>3. CASE InvoicesOf(o) # {}
      <3>1. PICK n \in InvoicesOf(o) : InvoicesOf(o) = {n}
        BY <2>1, <2>3
      <3>2. Cardinality({n}) = 1
        BY FS_Singleton
      <3> QED BY <3>1, <3>2
    <2> QED BY <2>2, <2>3
  <1>2. ASSUME NEW o \in Orders, WorkingOn(o) = {} PROVE ~WroteFile(o)
    BY <1>2 DEF WorkingOn, WroteFile, Busy
  <1>3. \A n \in Numbers : Exists(n) => docs[n].order \in Orders
    BY DEF DocsInv, DocTypes, DocsTypeOK, Exists, DocRow
  <1>4. InvoiceFollowsOrder
    BY <1>2, <1>3 DEF DocsInv, RowsSay, RowSays, InvoiceFollowsOrder
  <1>5. SentWasReceived
    BY DEF DocsInv, RowsSay, RowSays, SentWasReceived
  <1>6. PaperIsOwn
    <2> SUFFICES ASSUME NEW n \in Numbers, received[n] \in Pdf, received[n].order \notin unkept, Exists(n)
                 PROVE  received[n].order = docs[n].order
      BY DEF PaperIsOwn
    <2>1. ASSUME NEW q \in Busy, docReqs[q].sent, docReqs[q].doc = n PROVE FALSE
      <3>1. docReqs[q].fresh
        BY <2>1 DEF DocsInv, DocTypes, InShape, Busy
      <3>2. n = numbered + 1 /\ n <= numbered /\ numbered \in Int
        BY <2>1, <3>1 DEF DocsInv, NumbersHeld, NumberOf, RowsHold, DocTypes, DocsTypeOK
      <3> QED BY <3>2 DEF Numbers
    <2> QED BY <2>1 DEF DocsInv, PaperHolds
  <1> QED BY <1>1, <1>4, <1>5, <1>6

\* At first there is no order, no document and no file.
LEMMA DocsStart == DocsInit => DocsInv
  <1> SUFFICES ASSUME DocsInit PROVE DocsInv
    OBVIOUS
  <1>1. Busy = {} /\ \A n \in Numbers : ~Exists(n)
    BY DEF DocsInit, Busy, Exists
  <1>2. DocTypes
    <2>1. DocsTypeOK
      BY <1>1, DocumentsAssumption DEF DocsInit, DocsTypeOK
    <2> QED BY <1>1, <2>1 DEF DocsInit, DocTypes, Busy
  <1>3. RowsHold /\ PaperHolds
    BY <1>1, DocIsThere DEF DocsInit, RowsHold, PaperHolds
  <1> QED BY <1>1, <1>2, <1>3
          DEF DocsInv, NumbersHeld, LocksHeld, CreationsAlone, OneWorker, OneInvoice, WorkHolds, RowsSay


\* What the types say of a request, a row and the counters.
LEMMA DocFacts ==
    ASSUME DocsInv
    PROVE  /\ \A q \in Busy : q \in DocRequests /\ docReqs[q] \in DocRequest /\ InShape(docReqs[q])
           /\ \A n \in Numbers : Exists(n) <=> docs[n] \in DocRow
           /\ \A n \in Numbers : Exists(n) => docs[n].file \in Files \cup {NoPdf}
           /\ numbered \in 0..MaxDoc /\ numbered \in Int
           /\ loose \subseteq Orders /\ crowded \subseteq Orders /\ unkept \subseteq Orders /\ penciled \subseteq Orders
  <1>1. \A q \in Busy : q \in DocRequests /\ docReqs[q] \in DocRequest /\ InShape(docReqs[q])
    BY DEF DocsInv, DocTypes, Busy
  <1>2. \A n \in Numbers : Exists(n) <=> docs[n] \in DocRow
    BY DocIsThere DEF DocsInv, DocTypes, DocsTypeOK, Exists
  <1>3. \A n \in Numbers : Exists(n) => docs[n].file \in Files \cup {NoPdf}
    BY <1>2 DEF DocRow
  <1>4. numbered \in 0..MaxDoc /\ numbered \in Int
    BY DocumentsAssumption DEF DocsInv, DocTypes, DocsTypeOK
  <1>5. loose \subseteq Orders /\ crowded \subseteq Orders /\ unkept \subseteq Orders /\ penciled \subseteq Orders
    BY DEF DocsInv, DocTypes, DocsTypeOK
  <1> QED BY <1>1, <1>2, <1>3, <1>4, <1>5

\* A new number is nobody's yet.
LEMMA FreshIsNew ==
    ASSUME DocsInv, NEW q \in Busy, docReqs[q].fresh
    PROVE  /\ docReqs[q].doc \in Numbers /\ ~Exists(docReqs[q].doc) /\ docReqs[q].doc = numbered + 1
           /\ \A p \in Busy : docReqs[p].fresh => p = q
           /\ \A p \in Busy \ {q} : docReqs[p].doc # docReqs[q].doc
  <1>1. docReqs[q].doc \in Numbers /\ docReqs[q].doc = numbered + 1 /\ \A p \in Busy : docReqs[p].fresh => p = q
    BY DocFacts DEF DocsInv, NumbersHeld, NumberOf, InShape
  <1>2. ~Exists(docReqs[q].doc)
    BY <1>1, DocFacts DEF DocsInv, RowsHold
  <1>3. ASSUME NEW p \in Busy \ {q}, docReqs[p].doc = docReqs[q].doc PROVE FALSE
    <2>1. ~docReqs[p].fresh /\ docReqs[p].doc # NoNumber
      BY <1>1, <1>3 DEF Numbers, NoNumber
    <2> QED BY <1>2, <1>3, <2>1 DEF DocsInv, NumbersHeld, NumberOf
  <1> QED BY <1>1, <1>2, <1>3

\* A request goes on, by itself.
LEMMA GoesOnAlone ==
    ASSUME DocsInv, NEW q \in Busy, NEW s \in DocRequest, InShape(s),
           s.kind = docReqs[q].kind, s.order = docReqs[q].order, s.amount = docReqs[q].amount,
           docReqs' = [docReqs EXCEPT ![q] = s],
           UNCHANGED <<amount, docs, orderLock, numbered, penciled, crowded, unkept>>
    PROVE  /\ docReqs'[q] = s /\ (\A p \in Busy \ {q} : docReqs'[p] = docReqs[p]) /\ Busy' = Busy
           /\ docReqs' \in [DocRequests -> DocRequest \cup {Free}]
           /\ \A p \in DocRequests : docReqs'[p] # Free => InShape(docReqs'[p])
           /\ \A n \in Numbers : (Exists(n)' <=> Exists(n)) /\ Exported(n)' = Exported(n)
           /\ LocksHeld' /\ CreationsAlone' /\ OneWorker'
  <1>1. q \in DocRequests /\ s # Free
    BY DocFacts, DocIsThere
  <1>2. /\ docReqs'[q] = s /\ (\A p \in DocRequests \ {q} : docReqs'[p] = docReqs[p])
        /\ docReqs' \in [DocRequests -> DocRequest \cup {Free}]
    BY <1>1 DEF DocsInv, DocTypes
  <1>3. Busy' = Busy /\ \A p \in Busy \ {q} : docReqs'[p] = docReqs[p]
    BY <1>1, <1>2 DEF Busy
  <1>4. \A p \in DocRequests : docReqs'[p] # Free => InShape(docReqs'[p])
    BY <1>1, <1>2 DEF DocsInv, DocTypes
  <1>5. \A n \in Numbers : (Exists(n)' <=> Exists(n)) /\ Exported(n)' = Exported(n)
    BY DEF Exists, Exported
  <1>6. \A p \in Busy : docReqs'[p].kind = docReqs[p].kind /\ docReqs'[p].order = docReqs[p].order
    BY <1>2, <1>3
  <1>7. LocksHeld'
    <2>1. \A p \in Busy' : docReqs'[p].kind \in Holders => orderLock'[docReqs'[p].order]
      BY <1>3, <1>6 DEF DocsInv, LocksHeld
    <2>2. \A p, w \in Busy' : docReqs'[p].kind \in Holders /\ docReqs'[w].kind \in Holders
                              /\ docReqs'[p].order = docReqs'[w].order => p = w
      BY <1>3, <1>6 DEF DocsInv, LocksHeld
    <2> QED BY <2>1, <2>2 DEF LocksHeld
  <1>8. CreationsAlone' /\ OneWorker'
    BY <1>3, <1>6 DEF DocsInv, CreationsAlone, OneWorker
  <1> QED BY <1>2, <1>3, <1>4, <1>5, <1>7, <1>8

\* An order that is not crowded has one request.
LEMMA Another ==
    ASSUME DocsInv, NEW q \in Busy
    PROVE  \A p \in Busy \ {q} : docReqs[p].order \notin crowded => docReqs[p].order # docReqs[q].order
  BY DEF DocsInv, OneWorker

\* A step that is about one order only.
OnlyAbout(o) ==
    /\ crowded \subseteq crowded'
    /\ \A x \in Orders \ {o} : /\ amount'[x] = amount[x] /\ (x \in loose' <=> x \in loose)
                               /\ (x \in penciled' <=> x \in penciled)
    /\ \A f \in Files : f.order # o => disk'[f] = disk[f]
    /\ \A n \in Numbers : Exists(n) => Exists(n)' /\ docs'[n].order = docs[n].order
    /\ \A n \in Numbers : Exists(n) /\ docs[n].order # o => docs'[n] = docs[n] /\ received'[n] = received[n]
    /\ \A n \in Numbers : Exists(n)' => Exists(n) \/ docs'[n].order = o
    /\ \A p \in Busy : docReqs[p].order # o => p \in Busy' /\ docReqs'[p] = docReqs[p]
    /\ \A p \in Busy' : docReqs'[p].order # o => p \in Busy /\ docReqs'[p] = docReqs[p]
    /\ \A p \in Busy : docReqs[p].order # o /\ docReqs[p].sent => received'[docReqs[p].doc] = received[docReqs[p].doc]

\* Such a step leaves the requests and the invoices of the other orders as they are.
LEMMA OthersAsBefore ==
    ASSUME DocsInv, NEW o \in Orders, OnlyAbout(o),
           \A p \in Busy' : docReqs'[p].order = o /\ o \notin crowded' => WorkOf(p)',
           \A n \in Numbers : Exists(n)' /\ docs'[n].order = o => RowSays(n)'
    PROVE  WorkHolds' /\ RowsSay'
  <1>1. ASSUME NEW p \in Busy', docReqs'[p].order # o, docReqs'[p].order \notin crowded' PROVE WorkOf(p)'
    <2>1. p \in Busy /\ docReqs'[p] = docReqs[p] /\ docReqs[p].order # o /\ docReqs[p].order \notin crowded
      BY <1>1 DEF OnlyAbout
    <2>2. docReqs[p] \in DocRequest /\ InShape(docReqs[p]) /\ docReqs[p].order \in Orders \ {o} /\ WorkOf(p)
      BY <2>1, DocFacts DEF DocRequest, DocsInv, WorkHolds
    <2>3. amount'[docReqs[p].order] = amount[docReqs[p].order] /\ (docReqs[p].order \in loose' <=> docReqs[p].order \in loose)
      BY <2>2 DEF OnlyAbout
    <2>4. docReqs[p].file \in Files => disk'[docReqs[p].file] = disk[docReqs[p].file]
      BY <2>1, <2>2 DEF OnlyAbout, InShape
    <2>5. docReqs[p].sent => received'[docReqs[p].doc] = received[docReqs[p].doc] /\ docReqs[p].file \in Files
      BY <2>1, <2>2 DEF OnlyAbout, InShape
    <2>6. ASSUME docReqs[p].step = "mark"
          PROVE  received'[docReqs[p].doc] = received[docReqs[p].doc] /\ Exported(docReqs[p].doc)' = Exported(docReqs[p].doc)
      <3>1. PICK n \in Numbers : n = docReqs[p].doc
        BY <2>2, <2>6 DEF InShape
      <3>2. Exists(n) /\ docs[n].order # o
        BY <2>1, <2>2, <2>6, <3>1 DEF DocsInv, NumbersHeld, NumberOf, InShape, Numbers, NoNumber
      <3>3. docs'[n] = docs[n] /\ received'[n] = received[n]
        BY <3>2 DEF OnlyAbout
      <3>4. Exported(n)' = Exported(n)
        BY <3>3 DEF Exported
      <3> QED BY <2>1, <3>1, <3>3, <3>4
    <2>7. docReqs[p].step = "mark" => received'[docReqs'[p].doc] = received[docReqs[p].doc]
                                      /\ Exported(docReqs[p].doc)' = Exported(docReqs[p].doc)
      BY <2>1, <2>6
    <2>8. docReqs'[p].step = "mark" /\ docReqs'[p].order \notin loose' =>
              received'[docReqs'[p].doc] \in {Exported(docReqs[p].doc)', LinkInChat}
      BY <2>1, <2>2, <2>3, <2>7 DEF WorkOf
    <2> QED BY <2>1, <2>2, <2>3, <2>4, <2>5, <2>8 DEF WorkOf, Exported
  <1>2. ASSUME NEW n \in Numbers, Exists(n)', docs'[n].order # o PROVE RowSays(n)'
    <2>1. /\ Exists(n) /\ docs[n].order # o /\ docs'[n] = docs[n] /\ received'[n] = received[n]
          /\ docs[n].order \in Orders \ {o} /\ RowSays(n)
      BY <1>2, DocFacts DEF OnlyAbout, DocRow, DocsInv, RowsSay
    <2>2. PICK x \in Orders \ {o} : x = docs[n].order
      BY <2>1
    <2>3. /\ amount'[x] = amount[x] /\ (x \in loose' <=> x \in loose) /\ (x \in penciled' <=> x \in penciled)
          /\ x \notin crowded' => x \notin crowded
      BY DEF OnlyAbout
    <2>4. Exported(n)' = Exported(n)
      BY <2>1 DEF Exported
    <2>5. PdfOf(n)' = PdfOf(n)
      <3>1. docs[n].file \in Files => disk'[docs[n].file] = disk[docs[n].file]
        BY <2>1 DEF DocsInv, RowsHold, OnlyAbout
      <3> QED BY <2>1, <3>1 DEF PdfOf
    <2>6. WroteFile(x) => WroteFile(x)'
      BY <2>2 DEF WroteFile, OnlyAbout
    <2>7. x = docs'[n].order
      BY <2>1, <2>2
    <2> QED BY <2>1, <2>2, <2>3, <2>4, <2>5, <2>6, <2>7 DEF RowSays
  <1>3. WorkHolds'
    BY <1>1 DEF WorkHolds
  <1>4. RowsSay'
    BY <1>2 DEF RowsSay
  <1> QED BY <1>3, <1>4

\* ... and there is still one invoice of each of them.
LEMMA OthersOneInvoice ==
    ASSUME DocsInv, NEW o \in Orders, OnlyAbout(o),
           \A m, n \in Numbers : Exists(m)' /\ Exists(n)' /\ docs'[m].order = o /\ docs'[n].order = o
                                 /\ o \notin crowded' => m = n,
           \A p \in Busy', n \in Numbers : docReqs'[p].fresh /\ docReqs'[p].order = o /\ o \notin crowded' /\ Exists(n)' =>
                                 docs'[n].order # o
    PROVE  OneInvoice'
  <1>1. \A n \in Numbers : Exists(n)' /\ docs'[n].order # o => Exists(n) /\ docs'[n].order = docs[n].order
    BY DEF OnlyAbout
  <1>2. \A x : x \notin crowded' => x \notin crowded
    BY DEF OnlyAbout
  <1>3. ASSUME NEW m \in Numbers, NEW n \in Numbers, Exists(m)', Exists(n)', docs'[m].order = docs'[n].order,
               docs'[n].order \notin crowded'
        PROVE  m = n
    <2>1. CASE docs'[n].order = o
      BY <1>3, <2>1
    <2>2. CASE docs'[n].order # o
      BY <1>1, <1>2, <1>3, <2>2 DEF DocsInv, OneInvoice
    <2> QED BY <2>1, <2>2
  <1>4. ASSUME NEW p \in Busy', NEW n \in Numbers, docReqs'[p].fresh, docReqs'[p].order \notin crowded', Exists(n)',
               docs'[n].order = docReqs'[p].order
        PROVE  FALSE
    <2>1. docReqs'[p].order # o
      BY <1>4
    <2>2. p \in Busy /\ docReqs'[p] = docReqs[p]
      BY <2>1 DEF OnlyAbout
    <2>3. Exists(n) /\ docs[n].order = docReqs[p].order
      BY <1>1, <1>4, <2>1, <2>2
    <2> QED BY <1>2, <1>4, <2>2, <2>3 DEF DocsInv, OneInvoice
  <1> QED BY <1>3, <1>4 DEF OneInvoice

\* The numbers of the requests that a step is not about: their rows stay, and a new number is kept by the lock.
LEMMA NumbersGoOn ==
    ASSUME DocsInv, NEW S \in SUBSET DocRequests, \A v, w \in S : v = w,
           \A p \in Busy' \ S : p \in Busy /\ docReqs'[p] = docReqs[p],
           \A n \in Numbers : Exists(n) =>
               Exists(n)' /\ docs'[n].order = docs[n].order /\ (docs[n].state # "draft" => docs'[n].state # "draft"),
           \A p \in Busy' \ S : docReqs[p].fresh =>
               numberLock' /\ numbered' = numbered /\ \A w \in Busy' \cap S : ~docReqs'[w].fresh,
           \A w \in Busy' \cap S : NumberOf(w)'
    PROVE  NumbersHeld'
  <1>1. ASSUME NEW p \in Busy' \ S PROVE NumberOf(p)'
    <2>1. p \in Busy /\ docReqs'[p] = docReqs[p] /\ NumberOf(p) /\ docReqs[p] \in DocRequest /\ InShape(docReqs[p])
      BY DocFacts DEF DocsInv, NumbersHeld
    <2>2. docReqs'[p].fresh => numberLock' /\ docReqs'[p].doc = numbered' + 1
      BY <2>1 DEF NumberOf
    <2>3. ASSUME docReqs[p].doc # NoNumber, ~docReqs[p].fresh
          PROVE  docs'[docReqs[p].doc] # NoDocument /\ docs'[docReqs[p].doc].order = docReqs[p].order
      <3>1. PICK n \in Numbers : n = docReqs[p].doc
        BY <2>1, <2>3 DEF DocRequest
      <3>2. Exists(n) /\ docs[n].order = docReqs[p].order
        BY <2>1, <2>3, <3>1 DEF NumberOf
      <3>3. Exists(n)' /\ docs'[n].order = docs[n].order
        BY <3>2
      <3> QED BY <3>1, <3>2, <3>3 DEF Exists
    <2>4. docReqs'[p].step \in {"post", "mark"} => docs'[docReqs'[p].doc].state # "draft"
      <3> SUFFICES ASSUME docReqs[p].step \in {"post", "mark"} PROVE docs'[docReqs[p].doc].state # "draft"
        BY <2>1
      <3>1. PICK n \in Numbers : n = docReqs[p].doc
        BY <2>1 DEF InShape
      <3>2. ~docReqs[p].fresh /\ n # NoNumber
        BY <2>1 DEF InShape, Numbers, NoNumber
      <3>3. Exists(n) /\ docs[n].state # "draft"
        BY <2>1, <3>1, <3>2 DEF NumberOf
      <3> QED BY <3>1, <3>3
    <2> QED BY <2>1, <2>2, <2>3, <2>4 DEF NumberOf, Exists
  <1>2. \A p, w \in Busy' : docReqs'[p].fresh /\ docReqs'[w].fresh => p = w
    BY DEF DocsInv, NumbersHeld
  <1> QED BY <1>1, <1>2 DEF NumbersHeld

\* A request goes on: what is left to show is about its own number, order and what it sends.
LEMMA DocGoesOn ==
    ASSUME DocsInv, NEW q \in Busy, NEW s \in DocRequest, InShape(s),
           s.kind = docReqs[q].kind, s.order = docReqs[q].order, s.amount = docReqs[q].amount,
           docReqs' = [docReqs EXCEPT ![q] = s],
           UNCHANGED <<amount, docs, orderLock, numbered, penciled, crowded, unkept>>,
           numberLock' \in BOOLEAN, numberLock => numberLock',
           s.fresh => numberLock' /\ s.doc = numbered + 1 /\ (docReqs[q].fresh \/ ~numberLock),
           s.fresh /\ s.order \notin crowded => \A n \in Numbers : Exists(n) => docs[n].order # s.order,
           s.doc # NoNumber /\ ~s.fresh => Exists(s.doc) /\ docs[s.doc].order = s.order,
           s.step \in {"post", "mark"} => docs[s.doc].state # "draft",
           disk' \in [Files -> Pdf \cup {NoPdf}], received' \in [Numbers -> Pdf \cup {NoPdf, LinkInChat}],
           \A f \in Files : IF f.order = s.order THEN disk'[f] \in Pdf => disk'[f].order = f.order
                                                 ELSE disk'[f] = disk[f],
           \A n \in Numbers \ {s.doc} : received'[n] = received[n],
           loose' = loose \/ loose' = loose \cup {s.order},
           s.order \notin crowded => WorkOf(q)',
           \A n \in Numbers : Exists(n) /\ docs[n].order = s.order => RowSays(n)',
           PaperHolds'
    PROVE  DocsInv'
  <1> DEFINE o == s.order
  <1>1. /\ docReqs'[q] = s /\ (\A p \in Busy \ {q} : docReqs'[p] = docReqs[p]) /\ Busy' = Busy
        /\ docReqs' \in [DocRequests -> DocRequest \cup {Free}]
        /\ \A p \in DocRequests : docReqs'[p] # Free => InShape(docReqs'[p])
        /\ \A m \in Numbers : (Exists(m)' <=> Exists(m)) /\ Exported(m)' = Exported(m)
        /\ LocksHeld' /\ CreationsAlone' /\ OneWorker'
    BY GoesOnAlone
  <1>2. o \in Orders
    BY DEF DocRequest
  <1>3. DocTypes'
    <2>1. DocsTypeOK'
      BY <1>1, <1>2 DEF DocsInv, DocTypes, DocsTypeOK
    <2> QED BY <1>1, <2>1 DEF DocsInv, DocTypes
  <1>4. RowsHold'
    <2>1. \A f \in Files : disk'[f] \in Pdf => disk'[f].order = f.order
      BY DEF DocsInv, RowsHold
    <2> QED BY <1>1, <2>1 DEF DocsInv, RowsHold
  <1>5. \A p \in Busy \ {q} : docReqs[p].fresh => ~s.fresh /\ numberLock
    BY DEF DocsInv, NumbersHeld, NumberOf
  <1>6. NumbersHeld'
    <2>1. PICK S \in SUBSET DocRequests : S = {q}
      BY DocFacts
    <2>2. \A v, w \in S : v = w
      BY <2>1
    <2>3. \A p \in Busy' \ S : p \in Busy /\ docReqs'[p] = docReqs[p]
      BY <1>1, <2>1
    <2>4. \A m \in Numbers : Exists(m) =>
              Exists(m)' /\ docs'[m].order = docs[m].order /\ (docs[m].state # "draft" => docs'[m].state # "draft")
      BY <1>1
    <2>5. \A p \in Busy' \ S : docReqs[p].fresh =>
              numberLock' /\ numbered' = numbered /\ \A w \in Busy' \cap S : ~docReqs'[w].fresh
      BY <1>1, <1>5, <2>1
    <2>6. NumberOf(q)'
      <3>1. s.doc # NoNumber /\ ~s.fresh => docs'[s.doc] # NoDocument /\ docs'[s.doc].order = s.order
        BY DEF Exists
      <3> QED BY <1>1, <3>1 DEF NumberOf, Exists
    <2>7. \A w \in Busy' \cap S : NumberOf(w)'
      BY <2>1, <2>6
    <2> QED BY <2>1, <2>2, <2>3, <2>4, <2>5, <2>7, NumbersGoOn
  <1>7. OnlyAbout(o)
    <2>1. \A x \in Orders \ {o} : /\ amount'[x] = amount[x] /\ (x \in loose' <=> x \in loose)
                                  /\ (x \in penciled' <=> x \in penciled)
      OBVIOUS
    <2>2. ASSUME NEW n \in Numbers, Exists(n), docs[n].order # o PROVE docs'[n] = docs[n] /\ received'[n] = received[n]
      <3>1. n # s.doc
        <4>1. CASE s.fresh
          BY <2>2, <4>1, DocFacts DEF DocsInv, RowsHold
        <4>2. CASE ~s.fresh
          BY <2>2, <4>2 DEF Numbers, NoNumber
        <4> QED BY <4>1, <4>2
      <3> QED BY <3>1
    <2>3. ASSUME NEW p \in Busy, docReqs[p].order # o, docReqs[p].sent
          PROVE  received'[docReqs[p].doc] = received[docReqs[p].doc]
      <3>1. p # q /\ docReqs[p].fresh
        BY <2>3, DocFacts DEF InShape
      <3>2. docReqs[p].doc \in Numbers /\ ~Exists(docReqs[p].doc) /\ ~s.fresh
        BY <1>5, <3>1, FreshIsNew
      <3>3. docReqs[p].doc # s.doc
        BY <3>2 DEF Numbers, NoNumber
      <3> QED BY <3>2, <3>3
    <2>4. \A p \in Busy : docReqs[p].order # o => p \in Busy' /\ docReqs'[p] = docReqs[p]
      BY <1>1
    <2>5. \A p \in Busy' : docReqs'[p].order # o => p \in Busy /\ docReqs'[p] = docReqs[p]
      BY <1>1
    <2> QED BY <1>1, <2>1, <2>2, <2>3, <2>4, <2>5 DEF OnlyAbout
  <1>8. OneInvoice'
    <2>1. \A p \in Busy', n \in Numbers : docReqs'[p].fresh /\ docReqs'[p].order \notin crowded' /\ Exists(n)' =>
              docs'[n].order # docReqs'[p].order
      BY <1>1 DEF DocsInv, OneInvoice
    <2>2. \A m, n \in Numbers : Exists(m)' /\ Exists(n)' /\ docs'[m].order = docs'[n].order
                                /\ docs'[n].order \notin crowded' => m = n
      BY <1>1 DEF DocsInv, OneInvoice
    <2> QED BY <2>1, <2>2 DEF OneInvoice
  <1>9. WorkHolds' /\ RowsSay'
    <2>1. ASSUME NEW p \in Busy', docReqs'[p].order = o, o \notin crowded' PROVE WorkOf(p)'
      <3>1. p = q
        BY <1>1, <2>1 DEF OneWorker
      <3> QED BY <2>1, <3>1
    <2>2. ASSUME NEW n \in Numbers, Exists(n)', docs'[n].order = o PROVE RowSays(n)'
      BY <1>1, <2>2
    <2> QED BY <1>2, <1>7, <2>1, <2>2, OthersAsBefore
  <1> QED BY <1>1, <1>3, <1>4, <1>6, <1>8, <1>9 DEF DocsInv

\* What an invoice says and what was sent of it stay, while nothing is written.
LEMMA RowStays ==
    ASSUME DocsInv, NEW n \in Numbers, Exists(n), UNCHANGED <<amount, docs, disk, loose, penciled, crowded>>,
           received'[n] = received[n], NEW x, x = docs[n].order, WroteFile(x) => WroteFile(x)'
    PROVE  RowSays(n)'
  <1>1. RowSays(n) /\ docs'[n] = docs[n]
    BY DEF DocsInv, RowsSay
  <1>2. PdfOf(n)' = PdfOf(n) /\ Exported(n)' = Exported(n)
    BY DEF PdfOf, Exported
  <1> QED BY <1>1, <1>2 DEF RowSays

\* ... and what a client has is of the order that it says.
LEMMA PaperStays ==
    ASSUME DocsInv, UNCHANGED <<docs, received, unkept>>,
           \A p \in Busy : docReqs[p].sent => p \in Busy' /\ docReqs'[p].sent /\ docReqs'[p].doc = docReqs[p].doc
                                              /\ docReqs'[p].order = docReqs[p].order
    PROVE  PaperHolds'
  <1> SUFFICES ASSUME NEW n \in Numbers, received[n] \in Pdf, received[n].order \notin unkept, ~(Exists(n) /\ docs[n].order = received[n].order)
               PROVE  \E p \in Busy' : docReqs'[p].sent /\ docReqs'[p].doc = n /\ docReqs'[p].order = received[n].order
    BY DEF PaperHolds, Exists
  <1>1. PICK p \in Busy : docReqs[p].sent /\ docReqs[p].doc = n /\ docReqs[p].order = received[n].order
    BY DEF DocsInv, PaperHolds
  <1> QED BY <1>1

\* The invoice that is there is found.
LEMMA LookFoundKeeps ==
    ASSUME DocsInv, NEW q \in DocRequests, NEW n \in Numbers, LookFound(q, n)
    PROVE  DocsInv'
  <1>1. PICK r : r = docReqs[q]
    OBVIOUS
  <1>2. /\ q \in Busy /\ r.step = "look" /\ n \in InvoicesOf(r.order) /\ r.amount # NotComputed
        /\ docReqs' = [docReqs EXCEPT ![q] = [r EXCEPT !.doc = n, !.step = "render"]]
        /\ UNCHANGED <<amount, docs, disk, orderLock, numberLock, numbered, received, loose, penciled, unkept, crowded>>
    BY <1>1 DEF LookFound, At, Busy, DocsInv, DocTypes
  <1>3. r \in DocRequest /\ InShape(r) /\ r.order \in Orders
    BY <1>1, <1>2, DocFacts DEF DocRequest
  <1>4. PICK s \in DocRequest : s = [r EXCEPT !.doc = n, !.step = "render"]
    BY <1>3 DEF DocRequest
  <1>5. /\ s.kind = r.kind /\ s.order = r.order /\ s.amount = r.amount /\ s.doc = n /\ s.step = "render"
        /\ s.fresh = r.fresh /\ s.file = r.file /\ s.sent = r.sent
    BY <1>3, <1>4 DEF DocRequest
  <1>6. ~r.fresh /\ ~r.sent /\ r.file \notin Files /\ r.amount \in Amounts
    BY <1>2, <1>3 DEF InShape, DocRequest
  <1>7. InShape(s)
    BY <1>2, <1>3, <1>5, <1>6 DEF InShape
  <1>8. /\ docReqs' = [docReqs EXCEPT ![q] = s] /\ docReqs'[q] = s
        /\ (\A p \in Busy \ {q} : docReqs'[p] = docReqs[p]) /\ Busy' = Busy
    BY <1>1, <1>2, <1>4, <1>5, <1>7, GoesOnAlone
  <1>9. Exists(n) /\ docs[n].order = r.order
    BY <1>2 DEF InvoicesOf
  <1>10. r.order \notin crowded => WorkOf(q)'
    <2>1. r.order \notin crowded => (r.kind = "issue" => r.amount = amount[r.order])
      BY <1>1, <1>2 DEF DocsInv, WorkHolds, WorkOf
    <2> QED BY <1>2, <1>5, <1>6, <1>8, <2>1 DEF WorkOf
  <1>11. ASSUME NEW m \in Numbers, Exists(m) PROVE RowSays(m)'
    <2>1. PICK x : x = docs[m].order
      OBVIOUS
    <2>2. WroteFile(x) => WroteFile(x)'
      BY <1>1, <1>6, <1>8 DEF WroteFile
    <2> QED BY <1>2, <1>11, <2>1, <2>2, RowStays
  <1>12. PaperHolds'
    BY <1>1, <1>2, <1>6, <1>8, PaperStays
  <1>13. /\ numberLock' \in BOOLEAN /\ (numberLock => numberLock')
         /\ ~s.fresh /\ s.step \notin {"post", "mark"} /\ Exists(s.doc) /\ docs[s.doc].order = s.order
    BY <1>2, <1>5, <1>6, <1>9 DEF DocsInv, DocTypes
  <1>14. /\ disk' \in [Files -> Pdf \cup {NoPdf}] /\ received' \in [Numbers -> Pdf \cup {NoPdf, LinkInChat}]
         /\ \A f \in Files : IF f.order = s.order THEN disk'[f] \in Pdf => disk'[f].order = f.order
                                                 ELSE disk'[f] = disk[f]
         /\ \A m \in Numbers \ {s.doc} : received'[m] = received[m]
    BY <1>2 DEF DocsInv, DocTypes, DocsTypeOK, RowsHold
  <1>15. \A m \in Numbers : Exists(m) /\ docs[m].order = s.order => RowSays(m)'
    BY <1>11
  <1>16. s.order \notin crowded => WorkOf(q)'
    BY <1>5, <1>10
  <1>17. s.kind = docReqs[q].kind /\ s.order = docReqs[q].order /\ s.amount = docReqs[q].amount
    BY <1>1, <1>5
  <1> QED BY <1>2, <1>7, <1>8, <1>12, <1>13, <1>14, <1>15, <1>16, <1>17, DocGoesOn

\* None is there: a new number is taken under its lock.
LEMMA LookNoneKeeps ==
    ASSUME DocsInv, NEW q \in DocRequests, LookNone(q)
    PROVE  DocsInv'
  <1>1. PICK r : r = docReqs[q]
    OBVIOUS
  <1>2. /\ q \in Busy /\ r.step = "look" /\ InvoicesOf(r.order) = {} /\ r.amount # NotComputed
        /\ numbered < MaxDoc /\ ~numberLock /\ numberLock'
        /\ docReqs' = [docReqs EXCEPT ![q] = [r EXCEPT !.doc = numbered + 1, !.fresh = TRUE, !.step = "render"]]
        /\ UNCHANGED <<amount, docs, disk, orderLock, numbered, received, loose, penciled, unkept, crowded>>
    BY <1>1 DEF LookNone, At, Busy, NextDocNumber
  <1>3. r \in DocRequest /\ InShape(r) /\ r.order \in Orders
    BY <1>1, <1>2, DocFacts DEF DocRequest
  <1>4. PICK n \in Numbers : n = numbered + 1
    BY <1>2, DocFacts, DocumentsAssumption DEF Numbers
  <1>5. PICK s \in DocRequest : s = [r EXCEPT !.doc = n, !.fresh = TRUE, !.step = "render"]
    BY <1>3 DEF DocRequest
  <1>6. /\ s.kind = r.kind /\ s.order = r.order /\ s.amount = r.amount /\ s.doc = n /\ s.step = "render"
        /\ s.fresh /\ s.file = r.file /\ s.sent = r.sent
    BY <1>3, <1>5 DEF DocRequest
  <1>7. ~r.sent /\ r.file \notin Files /\ r.amount \in Amounts
    BY <1>2, <1>3 DEF InShape, DocRequest
  <1>8. InShape(s)
    BY <1>2, <1>3, <1>6, <1>7 DEF InShape
  <1>9. /\ docReqs' = [docReqs EXCEPT ![q] = s] /\ docReqs'[q] = s
        /\ (\A p \in Busy \ {q} : docReqs'[p] = docReqs[p]) /\ Busy' = Busy
    BY <1>1, <1>2, <1>4, <1>5, <1>6, <1>8, GoesOnAlone
  <1>10. \A m \in Numbers : Exists(m) => docs[m].order # s.order
    BY <1>2, <1>6 DEF InvoicesOf
  <1>11. r.order \notin crowded => WorkOf(q)'
    <2>1. r.order \notin crowded => (r.kind = "issue" => r.amount = amount[r.order])
      BY <1>1, <1>2 DEF DocsInv, WorkHolds, WorkOf
    <2> QED BY <1>2, <1>6, <1>7, <1>9, <2>1 DEF WorkOf
  <1>12. ASSUME NEW m \in Numbers, Exists(m) PROVE RowSays(m)'
    <2>1. PICK x : x = docs[m].order
      OBVIOUS
    <2>2. WroteFile(x) => WroteFile(x)'
      BY <1>1, <1>7, <1>9 DEF WroteFile
    <2> QED BY <1>2, <1>12, <2>1, <2>2, RowStays
  <1>13. PaperHolds'
    BY <1>1, <1>2, <1>7, <1>9, PaperStays
  <1>14. /\ numberLock' \in BOOLEAN /\ numberLock' /\ ~numberLock
         /\ s.fresh /\ s.step \notin {"post", "mark"} /\ s.doc = numbered + 1
    BY <1>2, <1>4, <1>6 DEF LookNone
  <1>15. /\ disk' \in [Files -> Pdf \cup {NoPdf}] /\ received' \in [Numbers -> Pdf \cup {NoPdf, LinkInChat}]
         /\ \A f \in Files : IF f.order = s.order THEN disk'[f] \in Pdf => disk'[f].order = f.order
                                                 ELSE disk'[f] = disk[f]
         /\ \A m \in Numbers \ {s.doc} : received'[m] = received[m]
    BY <1>2 DEF DocsInv, DocTypes, DocsTypeOK, RowsHold
  <1>16. \A m \in Numbers : Exists(m) /\ docs[m].order = s.order => RowSays(m)'
    BY <1>12
  <1>17. s.order \notin crowded => WorkOf(q)'
    BY <1>6, <1>11
  <1>18. s.kind = docReqs[q].kind /\ s.order = docReqs[q].order /\ s.amount = docReqs[q].amount
    BY <1>1, <1>6
  <1> QED BY <1>2, <1>8, <1>9, <1>10, <1>13, <1>14, <1>15, <1>16, <1>17, <1>18, DocGoesOn


\* The PDF is written.
LEMMA RenderKeeps ==
    ASSUME DocsInv, NEW q \in DocRequests, Render(q)
    PROVE  DocsInv'
  <1>1. PICK r : r = docReqs[q]
    OBVIOUS
  <1>2. PICK f : f = FileOf(q)
    OBVIOUS
  <1>3. PICK pdf : pdf = [state |-> "file", order |-> r.order, number |-> r.doc, amount |-> r.amount]
    OBVIOUS
  <1>4. /\ q \in Busy /\ r.step = "render" /\ disk' = [disk EXCEPT ![f] = pdf]
        /\ docReqs' = [docReqs EXCEPT ![q] = [r EXCEPT !.file = f, !.step = "write"]]
        /\ UNCHANGED <<amount, docs, orderLock, numberLock, numbered, received, loose, penciled, unkept, crowded>>
    BY <1>1, <1>2, <1>3 DEF Render, At, Busy
  <1>5. r \in DocRequest /\ InShape(r) /\ r.order \in Orders /\ r.doc \in Numbers /\ r.amount \in Amounts
    BY <1>1, <1>4, DocFacts DEF DocRequest, InShape
  <1>6. r.doc # NoNumber
    BY <1>5 DEF Numbers, NoNumber
  <1>7. ~r.fresh => Exists(r.doc) /\ docs[r.doc].order = r.order
    BY <1>1, <1>4, <1>6 DEF DocsInv, NumbersHeld, NumberOf
  <1>8. f \in Files /\ f.order = r.order
    <2>1. PICK x : x = IF r.fresh THEN "" ELSE docs[r.doc].name
      OBVIOUS
    <2>2. x \in Names \cup {""}
      BY <1>5, <1>7, <2>1, DocFacts DEF DocRow
    <2>3. DisplayName(r.doc, x) \in FileNames
      BY <1>5, <2>2 DEF FileNames, DisplayName
    <2>4. f = [order |-> r.order, label |-> DisplayName(r.doc, x)]
      BY <1>1, <1>2, <2>1 DEF FileOf
    <2> QED BY <1>5, <2>3, <2>4 DEF Files
  <1>9. pdf \in Pdf /\ pdf.order = r.order
    BY <1>3, <1>5 DEF Pdf
  <1>10. PICK s \in DocRequest : s = [r EXCEPT !.file = f, !.step = "write"]
    BY <1>5, <1>8 DEF DocRequest
  <1>11. /\ s.kind = r.kind /\ s.order = r.order /\ s.amount = r.amount /\ s.doc = r.doc /\ s.step = "write"
         /\ s.fresh = r.fresh /\ s.file = f /\ s.sent = r.sent
    BY <1>5, <1>10 DEF DocRequest
  <1>12. ~r.sent
    BY <1>4, <1>5 DEF InShape
  <1>13. InShape(s)
    BY <1>4, <1>5, <1>8, <1>11, <1>12 DEF InShape
  <1>14. /\ docReqs' = [docReqs EXCEPT ![q] = s] /\ docReqs'[q] = s
         /\ (\A p \in Busy \ {q} : docReqs'[p] = docReqs[p]) /\ Busy' = Busy
    BY <1>1, <1>4, <1>10, <1>11, <1>13, GoesOnAlone
  <1>15. disk'[f] = pdf /\ disk' \in [Files -> Pdf \cup {NoPdf}] /\ \A g \in Files \ {f} : disk'[g] = disk[g]
    BY <1>4, <1>8, <1>9 DEF DocsInv, DocTypes, DocsTypeOK
  <1>16. s.order \notin crowded => WorkOf(q)'
    <2>1. r.order \notin crowded => (r.kind = "issue" => r.amount = amount[r.order])
      BY <1>1, <1>4 DEF DocsInv, WorkHolds, WorkOf
    <2>2. f # NoPdf
      BY <1>8, DocIsThere
    <2> QED BY <1>3, <1>4, <1>11, <1>12, <1>14, <1>15, <2>1, <2>2 DEF WorkOf
  <1>17. ASSUME NEW m \in Numbers, Exists(m), docs[m].order = s.order PROVE RowSays(m)'
    <2>1. WroteFile(s.order)'
      BY <1>4, <1>8, <1>11, <1>14 DEF WroteFile
    <2>2. RowSays(m) /\ docs'[m] = docs[m] /\ Exported(m)' = Exported(m)
      BY <1>4, <1>17 DEF DocsInv, RowsSay, Exported
    <2> QED BY <1>4, <1>17, <2>1, <2>2 DEF RowSays
  <1>18. PaperHolds'
    BY <1>1, <1>4, <1>12, <1>14, PaperStays
  <1>19. /\ s.fresh => numberLock' /\ s.doc = numbered + 1 /\ docReqs[q].fresh
         /\ s.fresh /\ s.order \notin crowded => \A n \in Numbers : Exists(n) => docs[n].order # s.order
         /\ s.doc # NoNumber /\ ~s.fresh => Exists(s.doc) /\ docs[s.doc].order = s.order
         /\ s.step \notin {"post", "mark"}
    BY <1>1, <1>4, <1>7, <1>11 DEF DocsInv, NumbersHeld, NumberOf, OneInvoice
  <1>20. /\ numberLock' \in BOOLEAN /\ (numberLock => numberLock')
         /\ received' \in [Numbers -> Pdf \cup {NoPdf, LinkInChat}]
         /\ \A n \in Numbers \ {s.doc} : received'[n] = received[n]
    BY <1>4 DEF DocsInv, DocTypes, DocsTypeOK
  <1>21. \A g \in Files : IF g.order = s.order THEN disk'[g] \in Pdf => disk'[g].order = g.order
                                               ELSE disk'[g] = disk[g]
    BY <1>8, <1>9, <1>11, <1>15 DEF DocsInv, RowsHold
  <1>22. s.kind = docReqs[q].kind /\ s.order = docReqs[q].order /\ s.amount = docReqs[q].amount
    BY <1>1, <1>11
  <1> QED BY <1>4, <1>13, <1>14, <1>15, <1>16, <1>17, <1>18, <1>19, <1>20, <1>21, <1>22, DocGoesOn

\* It cannot be written, which is noted.
LEMMA RenderFailsKeeps ==
    ASSUME DocsInv, NEW q \in DocRequests, RenderFails(q)
    PROVE  DocsInv'
  <1>1. PICK r : r = docReqs[q]
    OBVIOUS
  <1>2. /\ q \in Busy /\ r.step = "render" /\ loose' = loose \cup {r.order}
        /\ docReqs' = [docReqs EXCEPT ![q] = [r EXCEPT !.step = "write"]]
        /\ UNCHANGED <<amount, docs, disk, orderLock, numberLock, numbered, received, penciled, unkept, crowded>>
    BY <1>1 DEF RenderFails, At, Busy
  <1>3. r \in DocRequest /\ InShape(r) /\ r.order \in Orders /\ r.doc \in Numbers /\ r.amount \in Amounts
    BY <1>1, <1>2, DocFacts DEF DocRequest, InShape
  <1>4. r.doc # NoNumber
    BY <1>3 DEF Numbers, NoNumber
  <1>5. ~r.fresh => Exists(r.doc) /\ docs[r.doc].order = r.order
    BY <1>1, <1>2, <1>4 DEF DocsInv, NumbersHeld, NumberOf
  <1>6. PICK s \in DocRequest : s = [r EXCEPT !.step = "write"]
    BY <1>3 DEF DocRequest
  <1>7. /\ s.kind = r.kind /\ s.order = r.order /\ s.amount = r.amount /\ s.doc = r.doc /\ s.step = "write"
        /\ s.fresh = r.fresh /\ s.file = r.file /\ s.sent = r.sent
    BY <1>3, <1>6 DEF DocRequest
  <1>8. ~r.sent /\ r.file \notin Files
    BY <1>2, <1>3 DEF InShape
  <1>9. InShape(s)
    BY <1>2, <1>3, <1>7, <1>8 DEF InShape
  <1>10. /\ docReqs' = [docReqs EXCEPT ![q] = s] /\ docReqs'[q] = s
         /\ (\A p \in Busy \ {q} : docReqs'[p] = docReqs[p]) /\ Busy' = Busy
    BY <1>1, <1>2, <1>6, <1>7, <1>9, GoesOnAlone
  <1>11. s.order \notin crowded => WorkOf(q)'
    <2>1. r.order \notin crowded => (r.kind = "issue" => r.amount = amount[r.order])
      BY <1>1, <1>2 DEF DocsInv, WorkHolds, WorkOf
    <2> QED BY <1>2, <1>7, <1>8, <1>10, <2>1 DEF WorkOf
  <1>12. ASSUME NEW m \in Numbers, Exists(m), docs[m].order = s.order PROVE RowSays(m)'
    BY <1>2, <1>7, <1>12 DEF RowSays
  <1>13. PaperHolds'
    BY <1>1, <1>2, <1>8, <1>10, PaperStays
  <1>14. /\ s.fresh => numberLock' /\ s.doc = numbered + 1 /\ docReqs[q].fresh
         /\ s.fresh /\ s.order \notin crowded => \A n \in Numbers : Exists(n) => docs[n].order # s.order
         /\ s.doc # NoNumber /\ ~s.fresh => Exists(s.doc) /\ docs[s.doc].order = s.order
         /\ s.step \notin {"post", "mark"}
    BY <1>1, <1>2, <1>5, <1>7 DEF DocsInv, NumbersHeld, NumberOf, OneInvoice
  <1>15. /\ numberLock' \in BOOLEAN /\ (numberLock => numberLock')
         /\ received' \in [Numbers -> Pdf \cup {NoPdf, LinkInChat}]
         /\ \A n \in Numbers \ {s.doc} : received'[n] = received[n]
    BY <1>2 DEF DocsInv, DocTypes, DocsTypeOK
  <1>16. /\ disk' \in [Files -> Pdf \cup {NoPdf}]
         /\ \A g \in Files : IF g.order = s.order THEN disk'[g] \in Pdf => disk'[g].order = g.order
                                                  ELSE disk'[g] = disk[g]
    BY <1>2 DEF DocsInv, DocTypes, DocsTypeOK, RowsHold
  <1>17. s.kind = docReqs[q].kind /\ s.order = docReqs[q].order /\ s.amount = docReqs[q].amount
         /\ loose' = loose \cup {s.order}
    BY <1>1, <1>2, <1>7
  <1> QED BY <1>2, <1>9, <1>10, <1>11, <1>12, <1>13, <1>14, <1>15, <1>16, <1>17, DocGoesOn

\* A new order is announced before it is committed: only a new number is sent so.
LEMMA SendAtCreationKeeps ==
    ASSUME DocsInv, NEW q \in DocRequests, NEW way \in {"mail", "chat"}, SendAtCreation(q, way)
    PROVE  DocsInv'
  <1>1. PICK r : r = docReqs[q]
    OBVIOUS
  <1>2. PICK what : what = IF way = "mail" THEN disk[r.file] ELSE LinkInChat
    OBVIOUS
  <1>3. /\ q \in Busy /\ r.step = "write" /\ r.kind = "create" /\ r.file \in Files /\ ~r.sent
        /\ docReqs' = [docReqs EXCEPT ![q] = [r EXCEPT !.sent = TRUE]]
        /\ received' = [received EXCEPT ![r.doc] = what]
        /\ UNCHANGED <<amount, docs, disk, orderLock, numberLock, numbered, loose, penciled, unkept, crowded>>
    BY <1>1, <1>2 DEF SendAtCreation, At, Busy
  <1>4. r \in DocRequest /\ InShape(r) /\ r.order \in Orders /\ r.doc \in Numbers /\ r.amount \in Amounts
    BY <1>1, <1>3, DocFacts DEF DocRequest, InShape
  <1>5. r.fresh
    <2>1. amount[r.order] = Absent
      BY <1>1, <1>3 DEF DocsInv, CreationsAlone
    <2>2. ~r.fresh => Exists(r.doc) /\ docs[r.doc].order = r.order
      BY <1>1, <1>3, <1>4 DEF DocsInv, NumbersHeld, NumberOf, Numbers, NoNumber
    <2> QED BY <1>4, <2>1, <2>2 DEF DocsInv, RowsHold
  <1>6. r.doc = numbered + 1 /\ ~Exists(r.doc) /\ numberLock
    BY <1>1, <1>3, <1>5, FreshIsNew DEF DocsInv, NumbersHeld, NumberOf
  <1>7. PICK s \in DocRequest : s = [r EXCEPT !.sent = TRUE]
    BY <1>4 DEF DocRequest
  <1>8. /\ s.kind = r.kind /\ s.order = r.order /\ s.amount = r.amount /\ s.doc = r.doc /\ s.step = r.step
        /\ s.fresh = r.fresh /\ s.file = r.file /\ s.sent
    BY <1>4, <1>7 DEF DocRequest
  <1>9. InShape(s)
    BY <1>3, <1>4, <1>5, <1>8 DEF InShape
  <1>10. /\ docReqs' = [docReqs EXCEPT ![q] = s] /\ docReqs'[q] = s
         /\ (\A p \in Busy \ {q} : docReqs'[p] = docReqs[p]) /\ Busy' = Busy
    BY <1>1, <1>3, <1>7, <1>8, <1>9, GoesOnAlone
  <1>11. disk[r.file] \in Pdf \cup {NoPdf} /\ r.file.order = r.order
         /\ (disk[r.file] \in Pdf => disk[r.file].order = r.order)
    BY <1>3, <1>4 DEF DocsInv, DocTypes, DocsTypeOK, InShape, RowsHold
  <1>12. /\ received' \in [Numbers -> Pdf \cup {NoPdf, LinkInChat}] /\ received'[r.doc] = what
         /\ \A n \in Numbers \ {r.doc} : received'[n] = received[n]
    BY <1>2, <1>3, <1>4, <1>11 DEF DocsInv, DocTypes, DocsTypeOK
  <1>13. s.order \notin crowded => WorkOf(q)'
    <2>1. r.order \notin crowded => WorkOf(q)
      BY <1>1, <1>3 DEF DocsInv, WorkHolds
    <2>2. r.file # NoPdf
      BY <1>3, DocIsThere
    <2> QED BY <1>1, <1>2, <1>3, <1>8, <1>10, <1>12, <2>1, <2>2 DEF WorkOf
  <1>14. ASSUME NEW m \in Numbers, Exists(m), docs[m].order = s.order PROVE RowSays(m)'
    <2>1. received'[m] = received[m]
      BY <1>6, <1>12, <1>14
    <2>2. PICK x : x = docs[m].order
      OBVIOUS
    <2>3. WroteFile(x) => WroteFile(x)'
      BY <1>1, <1>8, <1>10 DEF WroteFile
    <2> QED BY <1>3, <1>14, <2>1, <2>2, <2>3, RowStays
  <1>15. PaperHolds'
    <2> SUFFICES ASSUME NEW n \in Numbers, received'[n] \in Pdf, received'[n].order \notin unkept,
                        ~(Exists(n) /\ docs[n].order = received'[n].order)
                 PROVE  \E p \in Busy' : docReqs'[p].sent /\ docReqs'[p].doc = n /\ docReqs'[p].order = received'[n].order
      BY <1>3 DEF PaperHolds, Exists
    <2>1. CASE n = r.doc
      BY <1>2, <1>3, <1>8, <1>10, <1>11, <1>12, <2>1, DocIsThere
    <2>2. CASE n # r.doc
      <3>1. received'[n] = received[n]
        BY <1>12, <2>2
      <3>2. PICK p \in Busy : docReqs[p].sent /\ docReqs[p].doc = n /\ docReqs[p].order = received[n].order
        BY <3>1 DEF DocsInv, PaperHolds
      <3> QED BY <1>1, <1>3, <1>10, <3>1, <3>2
    <2> QED BY <2>1, <2>2
  <1>16. /\ s.fresh /\ numberLock' /\ s.doc = numbered + 1 /\ docReqs[q].fresh
         /\ s.order \notin crowded => \A n \in Numbers : Exists(n) => docs[n].order # s.order
         /\ s.step \notin {"post", "mark"} /\ numberLock' \in BOOLEAN
    BY <1>1, <1>3, <1>5, <1>6, <1>8 DEF DocsInv, OneInvoice, DocTypes
  <1>17. /\ disk' \in [Files -> Pdf \cup {NoPdf}]
         /\ \A g \in Files : IF g.order = s.order THEN disk'[g] \in Pdf => disk'[g].order = g.order
                                                  ELSE disk'[g] = disk[g]
    BY <1>3 DEF DocsInv, DocTypes, DocsTypeOK, RowsHold
  <1>18. s.kind = docReqs[q].kind /\ s.order = docReqs[q].order /\ s.amount = docReqs[q].amount
         /\ \A n \in Numbers \ {s.doc} : received'[n] = received[n]
    BY <1>1, <1>8, <1>12
  <1> QED BY <1>3, <1>9, <1>10, <1>12, <1>13, <1>14, <1>15, <1>16, <1>17, <1>18, DocGoesOn

\* The client receives the document: it is what the row says, unless the order is crowded or loose.
LEMMA PostKeeps ==
    ASSUME DocsInv, NEW q \in DocRequests, Post(q)
    PROVE  DocsInv'
  <1>1. PICK r : r = docReqs[q]
    OBVIOUS
  <1>2. PICK what : what = IF r.kind = "mail" THEN PdfOf(r.doc) ELSE LinkInChat
    OBVIOUS
  <1>3. /\ q \in Busy /\ r.step = "post"
        /\ docReqs' = [docReqs EXCEPT ![q] = [r EXCEPT !.step = "mark"]]
        /\ received' = [received EXCEPT ![r.doc] = what]
        /\ UNCHANGED <<amount, docs, disk, orderLock, numberLock, numbered, loose, penciled, unkept, crowded>>
    BY <1>1, <1>2 DEF Post, At, Busy
  <1>4. r \in DocRequest /\ InShape(r) /\ r.order \in Orders /\ r.doc \in Numbers /\ ~r.fresh /\ r.file \notin Files /\ ~r.sent
    BY <1>1, <1>3, DocFacts DEF DocRequest, InShape
  <1>5. Exists(r.doc) /\ docs[r.doc].order = r.order /\ docs[r.doc].state # "draft"
    BY <1>1, <1>3, <1>4 DEF DocsInv, NumbersHeld, NumberOf, Numbers, NoNumber
  <1>6. PICK s \in DocRequest : s = [r EXCEPT !.step = "mark"]
    BY <1>4 DEF DocRequest
  <1>7. /\ s.kind = r.kind /\ s.order = r.order /\ s.amount = r.amount /\ s.doc = r.doc /\ s.step = "mark"
        /\ s.fresh = r.fresh /\ s.file = r.file /\ s.sent = r.sent
    BY <1>4, <1>6 DEF DocRequest
  <1>8. InShape(s)
    BY <1>3, <1>4, <1>7 DEF InShape
  <1>9. /\ docReqs' = [docReqs EXCEPT ![q] = s] /\ docReqs'[q] = s
        /\ (\A p \in Busy \ {q} : docReqs'[p] = docReqs[p]) /\ Busy' = Busy
    BY <1>1, <1>3, <1>6, <1>7, <1>8, GoesOnAlone
  <1>10. PdfOf(r.doc) \in Pdf \cup {NoPdf} /\ (PdfOf(r.doc) \in Pdf => PdfOf(r.doc).order = r.order)
    <2>1. PICK f : f = docs[r.doc].file
      OBVIOUS
    <2>2. f \in Files => f.order = r.order /\ disk[f] \in Pdf \cup {NoPdf} /\ (disk[f] \in Pdf => disk[f].order = f.order)
      BY <1>4, <1>5, <2>1 DEF DocsInv, RowsHold, DocTypes, DocsTypeOK
    <2> QED BY <2>1, <2>2, DocIsThere DEF PdfOf
  <1>11. /\ received' \in [Numbers -> Pdf \cup {NoPdf, LinkInChat}] /\ received'[r.doc] = what
         /\ \A n \in Numbers \ {r.doc} : received'[n] = received[n]
    BY <1>2, <1>3, <1>4, <1>10 DEF DocsInv, DocTypes, DocsTypeOK
  <1>12. r.order \notin crowded => ~WroteFile(r.order)
    BY <1>1, <1>3, <1>4, Another DEF WroteFile
  <1>13. r.order \notin loose \cup crowded => what \in {Exported(r.doc), LinkInChat}
    <2>1. r.order \notin loose \cup crowded => PdfOf(r.doc) = Exported(r.doc)
      BY <1>4, <1>5, <1>12 DEF DocsInv, RowsSay, RowSays
    <2> QED BY <1>2, <2>1
  <1>14. Exported(r.doc)' = Exported(r.doc)
    BY <1>3 DEF Exported
  <1>15. s.order \notin crowded => WorkOf(q)'
    <2>1. docs' = docs
      BY <1>3
    <2>2. s.file \notin Files /\ s.kind # "issue" /\ ~s.sent
      BY <1>3, <1>4, <1>7 DEF InShape
    <2>3. s.order \notin crowded /\ s.order \notin loose' => received'[s.doc] \in {Exported(s.doc), LinkInChat}
      BY <1>3, <1>7, <1>11, <1>13
    <2> QED BY <1>7, <1>9, <2>1, <2>2, <2>3 DEF WorkOf, Exported
  <1>16. ASSUME NEW m \in Numbers, Exists(m), docs[m].order = s.order PROVE RowSays(m)'
    <2>1. PICK x : x = docs[m].order
      OBVIOUS
    <2>2. WroteFile(x) => WroteFile(x)'
      BY <1>1, <1>7, <1>9 DEF WroteFile
    <2>3. CASE m = r.doc
      <3>1. RowSays(m) /\ docs'[m] = docs[m] /\ Exported(m)' = Exported(m) /\ PdfOf(m)' = PdfOf(m)
        BY <1>3, <1>16 DEF DocsInv, RowsSay, Exported, PdfOf
      <3>2. docs[m].order \notin loose \cup crowded => received'[m] \in {Exported(m), LinkInChat}
        BY <1>5, <1>11, <1>13, <2>3
      <3> QED BY <1>3, <2>1, <2>2, <3>1, <3>2 DEF RowSays
    <2>4. CASE m # r.doc
      BY <1>3, <1>11, <1>16, <2>1, <2>2, <2>4, RowStays
    <2> QED BY <2>3, <2>4
  <1>17. PaperHolds'
    <2> SUFFICES ASSUME NEW n \in Numbers, received'[n] \in Pdf, received'[n].order \notin unkept,
                        ~(Exists(n) /\ docs[n].order = received'[n].order)
                 PROVE  \E p \in Busy' : docReqs'[p].sent /\ docReqs'[p].doc = n /\ docReqs'[p].order = received'[n].order
      BY <1>3 DEF PaperHolds, Exists
    <2>1. n # r.doc
      BY <1>2, <1>5, <1>10, <1>11, DocIsThere
    <2>2. received'[n] = received[n]
      BY <1>11, <2>1
    <2>3. PICK p \in Busy : docReqs[p].sent /\ docReqs[p].doc = n /\ docReqs[p].order = received[n].order
      BY <2>2 DEF DocsInv, PaperHolds
    <2> QED BY <1>1, <1>4, <1>9, <2>2, <2>3
  <1>18. /\ ~s.fresh /\ Exists(s.doc) /\ docs[s.doc].order = s.order /\ docs[s.doc].state # "draft"
         /\ numberLock' \in BOOLEAN /\ (numberLock => numberLock')
    BY <1>3, <1>4, <1>5, <1>7 DEF DocsInv, DocTypes
  <1>19. /\ disk' \in [Files -> Pdf \cup {NoPdf}]
         /\ \A g \in Files : IF g.order = s.order THEN disk'[g] \in Pdf => disk'[g].order = g.order
                                                  ELSE disk'[g] = disk[g]
    BY <1>3 DEF DocsInv, DocTypes, DocsTypeOK, RowsHold
  <1>20. s.kind = docReqs[q].kind /\ s.order = docReqs[q].order /\ s.amount = docReqs[q].amount
         /\ \A n \in Numbers \ {s.doc} : received'[n] = received[n]
    BY <1>1, <1>7, <1>11
  <1> QED BY <1>3, <1>8, <1>9, <1>11, <1>15, <1>16, <1>17, <1>18, <1>19, <1>20, DocGoesOn

\* A request ends, with its locks: what is left to show is about the rows of its order.
LEMMA Ends ==
    ASSUME DocsInv, NEW q \in Busy, Released(q), UNCHANGED <<disk, received, crowded>>,
           NEW o \in Orders, o = docReqs[q].order, DocsTypeOK', RowsHold',
           \A n \in Numbers : Exists(n) =>
               Exists(n)' /\ docs'[n].order = docs[n].order /\ (docs[n].state # "draft" => docs'[n].state # "draft"),
           \A n \in Numbers : docs'[n] = docs[n] \/ (Exists(n)' /\ docs'[n].order = o),
           \A x \in Orders \ {o} : amount'[x] = amount[x] /\ (x \in loose' <=> x \in loose)
                                   /\ (x \in penciled' <=> x \in penciled),
           (amount'[o] = Absent <=> amount[o] = Absent) \/ docReqs[q].kind = "create",
           numbered' = numbered \/ docReqs[q].fresh,
           \A m, n \in Numbers : Exists(m)' /\ Exists(n)' /\ docs'[m].order = o /\ docs'[n].order = o
                                 /\ o \notin crowded => m = n,
           \A n \in Numbers : Exists(n)' /\ docs'[n].order = o => RowSays(n)',
           unkept \subseteq unkept',
           docReqs[q].sent => \/ o \in unkept'
                              \/ \A n \in Numbers : n = docReqs[q].doc => Exists(n)' /\ docs'[n].order = o
    PROVE  DocsInv'
  <1>1. q \in DocRequests /\ docReqs[q] \in DocRequest /\ InShape(docReqs[q])
    BY DocFacts
  <1>2. docReqs' \in [DocRequests -> DocRequest \cup {Free}] /\ docReqs'[q] = Free
        /\ \A p \in DocRequests \ {q} : docReqs'[p] = docReqs[p]
    BY <1>1 DEF Released, DocsInv, DocTypes
  <1>3. Busy' = Busy \ {q} /\ \A p \in Busy' : docReqs'[p] = docReqs[p] /\ p \in Busy
    BY <1>1, <1>2 DEF Busy
  <1>4. /\ orderLock' \in [Orders -> BOOLEAN] /\ numberLock' \in BOOLEAN
        /\ orderLock'[o] = (orderLock[o] /\ docReqs[q].kind \notin Holders)
        /\ \A x \in Orders \ {o} : orderLock'[x] = orderLock[x]
    <2>1. orderLock' = [orderLock EXCEPT ![o] = orderLock[o] /\ docReqs[q].kind \notin Holders]
      BY DEF Released
    <2>2. orderLock \in [Orders -> BOOLEAN]
      BY DEF DocsInv, DocTypes
    <2>3. numberLock' \in BOOLEAN
      BY DEF Released, DocsInv, DocTypes
    <2> QED BY <2>1, <2>2, <2>3, Zenon
  <1>5. DocTypes'
    BY <1>2, <1>4 DEF DocsInv, DocTypes
  <1>6. LocksHeld'
    <2>1. ASSUME NEW p \in Busy', docReqs'[p].kind \in Holders PROVE orderLock'[docReqs'[p].order]
      <3>1. p \in Busy /\ p # q /\ docReqs'[p] = docReqs[p] /\ orderLock[docReqs[p].order] /\ docReqs[p].order \in Orders
        BY <1>3, <2>1, DocFacts DEF DocsInv, LocksHeld, DocRequest
      <3>2. docReqs[p].order = o => docReqs[q].kind \notin Holders
        BY <2>1, <3>1 DEF DocsInv, LocksHeld
      <3> QED BY <1>4, <3>1, <3>2
    <2>2. \A p, w \in Busy' : docReqs'[p].kind \in Holders /\ docReqs'[w].kind \in Holders
                              /\ docReqs'[p].order = docReqs'[w].order => p = w
      BY <1>3 DEF DocsInv, LocksHeld
    <2> QED BY <2>1, <2>2 DEF LocksHeld
  <1>7. CreationsAlone'
    <2> SUFFICES ASSUME NEW p \in Busy' PROVE docReqs'[p].kind = "create" <=> amount'[docReqs'[p].order] = Absent
      BY DEF CreationsAlone
    <2>1. p \in Busy /\ p # q /\ docReqs'[p] = docReqs[p] /\ docReqs[p].order \in Orders
          /\ (docReqs[p].kind = "create" <=> amount[docReqs[p].order] = Absent)
      BY <1>3, DocFacts DEF DocsInv, CreationsAlone, DocRequest
    <2>2. ASSUME docReqs[p].order = o, docReqs[q].kind = "create" PROVE FALSE
      <3>1. docReqs[p].kind = "create"
        BY <2>1, <2>2 DEF DocsInv, CreationsAlone
      <3> QED BY <2>1, <2>2, <3>1 DEF DocsInv, LocksHeld, Holders
    <2>3. CASE docReqs[p].order = o
      BY <2>1, <2>2, <2>3
    <2>4. CASE docReqs[p].order # o
      BY <2>1, <2>4
    <2> QED BY <2>3, <2>4
  <1>8. OneWorker'
    BY <1>3 DEF DocsInv, OneWorker
  <1>9. NumbersHeld'
    <2>1. PICK S \in SUBSET DocRequests : S = {q}
      BY <1>1
    <2>2. \A v, w \in S : v = w
      BY <2>1
    <2>3. \A p \in Busy' \ S : p \in Busy /\ docReqs'[p] = docReqs[p]
      BY <1>3
    <2>4. \A p \in Busy' \ S : docReqs[p].fresh =>
              numberLock' /\ numbered' = numbered /\ \A w \in Busy' \cap S : ~docReqs'[w].fresh
      <3>1. ASSUME NEW p \in Busy \ {q}, docReqs[p].fresh PROVE ~docReqs[q].fresh /\ numberLock
        BY <3>1 DEF DocsInv, NumbersHeld, NumberOf
      <3> QED BY <1>3, <2>1, <3>1 DEF Released
    <2>5. \A w \in Busy' \cap S : NumberOf(w)'
      BY <1>3, <2>1
    <2> QED BY <2>1, <2>2, <2>3, <2>4, <2>5, NumbersGoOn
  <1>10. ASSUME NEW p \in Busy', docReqs'[p].order = o, o \notin crowded' PROVE FALSE
    BY <1>3, <1>10 DEF DocsInv, OneWorker
  <1>11. OnlyAbout(o)
    <2>1. \A n \in Numbers : Exists(n) /\ docs[n].order # o => docs'[n] = docs[n] /\ received'[n] = received[n]
      OBVIOUS
    <2>2. \A n \in Numbers : Exists(n)' => Exists(n) \/ docs'[n].order = o
      BY DEF Exists
    <2>3. \A p \in Busy : docReqs[p].order # o => p \in Busy' /\ docReqs'[p] = docReqs[p]
      BY <1>3
    <2>4. \A p \in Busy' : docReqs'[p].order # o => p \in Busy /\ docReqs'[p] = docReqs[p]
      BY <1>3
    <2> QED BY <2>1, <2>2, <2>3, <2>4 DEF OnlyAbout
  <1>12. OneInvoice'
    BY <1>10, <1>11, OthersOneInvoice
  <1>13. WorkHolds' /\ RowsSay'
    BY <1>10, <1>11, OthersAsBefore
  <1>14. PaperHolds'
    <2> SUFFICES ASSUME NEW n \in Numbers, received[n] \in Pdf, received[n].order \notin unkept'
                 PROVE  \/ Exists(n)' /\ docs'[n].order = received[n].order
                        \/ \E p \in Busy' : docReqs'[p].sent /\ docReqs'[p].doc = n /\ docReqs'[p].order = received[n].order
      BY DEF PaperHolds
    <2>1. CASE Exists(n) /\ docs[n].order = received[n].order
      BY <2>1
    <2>2. ASSUME NEW p \in Busy, docReqs[p].sent, docReqs[p].doc = n, docReqs[p].order = received[n].order
          PROVE  \/ Exists(n)' /\ docs'[n].order = received[n].order
                 \/ \E w \in Busy' : docReqs'[w].sent /\ docReqs'[w].doc = n /\ docReqs'[w].order = received[n].order
      <3>1. CASE p = q
        BY <2>2, <3>1
      <3>2. CASE p # q
        <4>1. p \in Busy' /\ docReqs'[p] = docReqs[p]
          BY <1>3, <3>2
        <4> QED BY <2>2, <4>1
      <3> QED BY <3>1, <3>2
    <2> QED BY <2>1, <2>2 DEF DocsInv, PaperHolds
  <1> QED BY <1>5, <1>6, <1>7, <1>8, <1>9, <1>12, <1>13, <1>14 DEF DocsInv

\* A request that changes no row ends: it had no file, or the order is noted as loose.
LEMMA EndsQuietly ==
    ASSUME DocsInv, NEW q \in Busy, Released(q), UNCHANGED <<docs, disk, received, crowded, numbered, penciled>>,
           NEW o \in Orders, o = docReqs[q].order,
           amount' \in [Orders -> Amounts \cup {Absent, NotComputed}],
           loose' \subseteq Orders, unkept' \subseteq Orders, unkept \subseteq unkept',
           \A x \in Orders \ {o} : amount'[x] = amount[x] /\ (x \in loose' <=> x \in loose),
           o \in loose => o \in loose',
           docReqs[q].file \in Files => o \in loose',
           amount'[o] \in {amount[o], NotComputed},
           (amount'[o] = Absent <=> amount[o] = Absent) \/ docReqs[q].kind = "create",
           docReqs[q].sent => o \in unkept'
    PROVE  DocsInv'
  <1>1. q \in DocRequests /\ docReqs[q] \in DocRequest
    BY DocFacts
  <1>2. Busy' = Busy \ {q} /\ \A p \in Busy' : docReqs'[p] = docReqs[p]
    BY <1>1 DEF Released, Busy, DocsInv, DocTypes
  <1>3. \A n \in Numbers : (Exists(n)' <=> Exists(n)) /\ Exported(n)' = Exported(n) /\ PdfOf(n)' = PdfOf(n)
    BY DEF Exists, Exported, PdfOf
  <1>4. DocsTypeOK'
    BY <1>3 DEF DocsInv, DocTypes, DocsTypeOK
  <1>5. RowsHold'
    <2>1. \A n \in Numbers : Exists(n) => docs[n].order \in Orders /\ amount'[docs[n].order] # Absent
      <3>1. \A n \in Numbers : Exists(n) => docs[n].order \in Orders /\ amount[docs[n].order] # Absent
        BY DocFacts DEF DocsInv, RowsHold, DocRow
      <3>2. NotComputed # Absent
        BY DEF Absent, NotComputed
      <3> QED BY <3>1, <3>2
    <2> QED BY <1>3, <2>1 DEF DocsInv, RowsHold
  <1>6. ASSUME NEW n \in Numbers, Exists(n)', docs'[n].order = o PROVE RowSays(n)'
    <2>1. Exists(n) /\ docs[n].order = o /\ RowSays(n)
      BY <1>3, <1>6 DEF DocsInv, RowsSay
    <2>2. CASE docReqs[q].file \in Files
      BY <1>6, <2>2 DEF RowSays
    <2>3. CASE docReqs[q].file \notin Files
      <3>1. WroteFile(o) => WroteFile(o)'
        BY <1>2, <2>3 DEF WroteFile
      <3>2. amount'[o] # NotComputed => amount'[o] = amount[o]
        OBVIOUS
      <3> QED BY <1>3, <2>1, <3>1, <3>2 DEF RowSays
    <2> QED BY <2>2, <2>3
  <1>7. \A m, n \in Numbers : Exists(m)' /\ Exists(n)' /\ docs'[m].order = o /\ docs'[n].order = o
                              /\ o \notin crowded => m = n
    BY <1>3 DEF DocsInv, OneInvoice
  <1>8. \A n \in Numbers : Exists(n) =>
            Exists(n)' /\ docs'[n].order = docs[n].order /\ (docs[n].state # "draft" => docs'[n].state # "draft")
    BY <1>3
  <1> QED BY <1>4, <1>5, <1>6, <1>7, <1>8, Ends

\* The chat or the mail refuses the document.
LEMMA PostFailsKeeps ==
    ASSUME DocsInv, NEW q \in DocRequests, PostFails(q)
    PROVE  DocsInv'
  <1>1. q \in Busy /\ docReqs[q].step = "post"
    BY DEF PostFails, At, Busy
  <1>2. docReqs[q].order \in Orders /\ docReqs[q].file \notin Files /\ ~docReqs[q].sent
    BY <1>1, DocFacts DEF DocRequest, InShape
  <1>3. amount \in [Orders -> Amounts \cup {Absent, NotComputed}] /\ loose \subseteq Orders /\ unkept \subseteq Orders
    BY DEF DocsInv, DocTypes, DocsTypeOK
  <1> QED BY <1>1, <1>2, <1>3, EndsQuietly DEF PostFails

\* The transaction is rolled back, and the file stays.
LEMMA IssueRollbackKeeps ==
    ASSUME DocsInv, NEW q \in DocRequests, IssueRollback(q)
    PROVE  DocsInv'
  <1>1. PICK o : o = docReqs[q].order
    OBVIOUS
  <1>2. q \in Busy /\ docReqs[q].step = "write"
    BY DEF IssueRollback, At, Busy
  <1>3. o \in Orders
    BY <1>1, <1>2, DocFacts DEF DocRequest
  <1>4. /\ amount \in [Orders -> Amounts \cup {Absent, NotComputed}] /\ loose \subseteq Orders /\ unkept \subseteq Orders
    BY DEF DocsInv, DocTypes, DocsTypeOK
  <1>5. /\ loose' \subseteq Orders /\ (\A x \in Orders \ {o} : x \in loose' <=> x \in loose)
        /\ o \in loose => o \in loose'
        /\ docReqs[q].file \in Files => o \in loose'
    BY <1>1, <1>3, <1>4 DEF IssueRollback
  <1>6. unkept' \subseteq Orders /\ unkept \subseteq unkept' /\ (docReqs[q].sent => o \in unkept')
    BY <1>1, <1>3, <1>4 DEF IssueRollback
  <1>7. Released(q) /\ UNCHANGED <<amount, docs, disk, numbered, received, penciled, crowded>>
    BY DEF IssueRollback
  <1> QED BY <1>1, <1>2, <1>3, <1>4, <1>5, <1>6, <1>7, EndsQuietly

\* An order without an amount is not invoiced.
LEMMA NoAmountKeeps ==
    ASSUME DocsInv, NEW q \in DocRequests, NoAmount(q)
    PROVE  DocsInv'
  <1>1. PICK o : o = docReqs[q].order
    OBVIOUS
  <1>2. q \in Busy /\ docReqs[q].step = "look"
    BY DEF NoAmount, At, Busy
  <1>3. o \in Orders /\ docReqs[q].file \notin Files /\ ~docReqs[q].sent
    BY <1>1, <1>2, DocFacts DEF DocRequest, InShape
  <1>4. /\ amount \in [Orders -> Amounts \cup {Absent, NotComputed}] /\ loose \subseteq Orders /\ unkept \subseteq Orders
    BY DEF DocsInv, DocTypes, DocsTypeOK
  <1>5. amount' = [amount EXCEPT ![o] = IF docReqs[q].kind = "issue" THEN amount[o] ELSE NotComputed]
    BY <1>1 DEF NoAmount
  <1>6. /\ amount' \in [Orders -> Amounts \cup {Absent, NotComputed}]
        /\ \A x \in Orders \ {o} : amount'[x] = amount[x]
        /\ amount'[o] = IF docReqs[q].kind = "issue" THEN amount[o] ELSE NotComputed
    <2>1. PICK v \in Amounts \cup {Absent, NotComputed} : v = IF docReqs[q].kind = "issue" THEN amount[o] ELSE NotComputed
      BY <1>3, <1>4
    <2>2. amount' = [amount EXCEPT ![o] = v]
      BY <1>5, <2>1
    <2> QED BY <1>3, <1>4, <2>1, <2>2
  <1>7. (amount'[o] = Absent <=> amount[o] = Absent) \/ docReqs[q].kind = "create"
    <2>1. docReqs[q].kind # "create" => amount[o] # Absent
      BY <1>1, <1>2 DEF DocsInv, CreationsAlone
    <2> QED BY <1>6, <2>1 DEF Absent, NotComputed
  <1>8. Released(q) /\ UNCHANGED <<docs, disk, numbered, received, loose, penciled, unkept, crowded>>
    BY DEF NoAmount
  <1> QED BY <1>1, <1>2, <1>3, <1>4, <1>6, <1>7, <1>8, EndsQuietly

\* The row is marked: the client has what it says.
LEMMA MarkSentKeeps ==
    ASSUME DocsInv, NEW q \in DocRequests, MarkSent(q)
    PROVE  DocsInv'
  <1>1. PICK o : o = docReqs[q].order
    OBVIOUS
  <1>2. PICK d : d = docReqs[q].doc
    OBVIOUS
  <1>3. PICK row : row = [docs[d] EXCEPT !.state = "sent"]
    OBVIOUS
  <1>4. /\ q \in Busy /\ docReqs[q].step = "mark" /\ docs' = [docs EXCEPT ![d] = row] /\ Released(q)
        /\ UNCHANGED <<amount, disk, numbered, received, loose, penciled, unkept, crowded>>
    BY <1>2, <1>3 DEF MarkSent, At, Busy
  <1>5. o \in Orders /\ d \in Numbers /\ docReqs[q].file \notin Files /\ ~docReqs[q].sent /\ ~docReqs[q].fresh
    BY <1>1, <1>2, <1>4, DocFacts DEF DocRequest, InShape
  <1>6. Exists(d) /\ docs[d] \in DocRow /\ docs[d].order = o /\ docs[d].state # "draft"
    BY <1>1, <1>2, <1>4, <1>5, DocFacts DEF DocsInv, NumbersHeld, NumberOf, Numbers, NoNumber
  <1>7. /\ row \in DocRow /\ row.state = "sent" /\ row.order = o /\ row.amount = docs[d].amount /\ row.file = docs[d].file
        /\ row.file \in Files
    BY <1>3, <1>5, <1>6 DEF DocRow, DocsInv, DocTypes, DocsTypeOK
  <1>8. /\ docs' \in [Numbers -> DocRow \cup {NoDocument}] /\ docs'[d] = row
        /\ \A n \in Numbers \ {d} : docs'[n] = docs[n]
    BY <1>4, <1>5, <1>7 DEF DocsInv, DocTypes, DocsTypeOK
  <1>9. \A n \in Numbers : Exists(n)' <=> Exists(n)
    BY <1>6, <1>7, <1>8, DocIsThere DEF Exists
  <1>10. DocsTypeOK'
    <2>1. \A n \in Numbers : Exists(n)' /\ docs'[n].state # "draft" => docs'[n].file \in Files
      BY <1>7, <1>8, <1>9 DEF DocsInv, DocTypes, DocsTypeOK
    <2> QED BY <1>4, <1>8, <2>1 DEF DocsInv, DocTypes, DocsTypeOK
  <1>11. RowsHold'
    <2>1. ASSUME NEW n \in Numbers, Exists(n)'
          PROVE  /\ n <= numbered' /\ amount'[docs'[n].order] # Absent
                 /\ docs'[n].file \in Files => docs'[n].file.order = docs'[n].order
                 /\ docs'[n].state = "draft" => docs'[n].file = NoPdf
      <3>1. /\ n <= numbered /\ amount[docs[n].order] # Absent
            /\ docs[n].file \in Files => docs[n].file.order = docs[n].order
            /\ docs[n].state = "draft" => docs[n].file = NoPdf
        BY <1>9, <2>1 DEF DocsInv, RowsHold
      <3>2. CASE n = d
        BY <1>4, <1>6, <1>7, <1>8, <3>1, <3>2
      <3>3. CASE n # d
        BY <1>4, <1>8, <3>1, <3>3
      <3> QED BY <3>2, <3>3
    <2> QED BY <1>4, <2>1 DEF DocsInv, RowsHold
  <1>12. ASSUME NEW n \in Numbers, Exists(n)', docs'[n].order = o PROVE RowSays(n)'
    <2>1. CASE o \in loose \cup crowded
      BY <1>4, <1>12, <2>1 DEF RowSays
    <2>2. CASE o \notin loose \cup crowded
      <3>1. n = d
        <4>1. Exists(n) /\ docs[n].order = o
          BY <1>6, <1>8, <1>9, <1>12
        <4> QED BY <1>5, <1>6, <2>2, <4>1 DEF DocsInv, OneInvoice
      <3>2. RowSays(d) /\ WorkOf(q)
        BY <1>1, <1>4, <1>5, <1>6, <2>2 DEF DocsInv, RowsSay, WorkHolds
      <3>3. \A p \in Busy : docReqs[p].order = o => docReqs[p].file \notin Files
        BY <1>1, <1>4, <1>5, <2>2 DEF DocsInv, OneWorker
      <3>4. ~WroteFile(o)
        BY <3>3 DEF WroteFile
      <3>5. Exported(d)' = Exported(d) /\ PdfOf(d)' = PdfOf(d)
        <4>1. docs[d].state \in {"ready", "sent"}
          BY <1>6 DEF DocRow
        <4> QED BY <1>4, <1>6, <1>7, <1>8, <4>1 DEF Exported, PdfOf
      <3>6. received[d] \in {Exported(d), LinkInChat}
        BY <1>1, <1>2, <1>4, <2>2, <3>2 DEF WorkOf
      <3> QED BY <1>4, <1>6, <1>7, <1>8, <2>2, <3>1, <3>2, <3>4, <3>5, <3>6 DEF RowSays
    <2> QED BY <2>1, <2>2
  <1>13. \A m, n \in Numbers : Exists(m)' /\ Exists(n)' /\ docs'[m].order = o /\ docs'[n].order = o
                               /\ o \notin crowded => m = n
    BY <1>6, <1>7, <1>8, <1>9 DEF DocsInv, OneInvoice
  <1>14. \A n \in Numbers : Exists(n) =>
             Exists(n)' /\ docs'[n].order = docs[n].order /\ (docs[n].state # "draft" => docs'[n].state # "draft")
    BY <1>6, <1>7, <1>8, <1>9
  <1>15. \A n \in Numbers : docs'[n] = docs[n] \/ (Exists(n)' /\ docs'[n].order = o)
    BY <1>6, <1>7, <1>8, <1>9
  <1> QED BY <1>1, <1>4, <1>5, <1>10, <1>11, <1>12, <1>13, <1>14, <1>15, Ends

\* The row is written, with the order's amount and the number.
LEMMA IssueCommitKeeps ==
    ASSUME DocsInv, NEW q \in DocRequests, IssueCommit(q)
    PROVE  DocsInv'
  <1>1. PICK r : r = docReqs[q]
    OBVIOUS
  <1>2. PICK row : row = WrittenRow(q)
    OBVIOUS
  <1>3. PICK o : o = r.order
    OBVIOUS
  <1>4. PICK d : d = r.doc
    OBVIOUS
  <1>5. PICK v : v = IF r.kind = "issue" THEN amount[o] ELSE r.amount
    OBVIOUS
  <1>6. /\ q \in Busy /\ r.step = "write" /\ docs' = [docs EXCEPT ![d] = row] /\ Released(q)
        /\ amount' = [amount EXCEPT ![o] = v]
        /\ numbered' = IF r.fresh THEN d ELSE numbered
        /\ loose' = Settled(loose, q) /\ penciled' = Settled(penciled, q)
        /\ UNCHANGED <<disk, received, unkept, crowded>>
    BY <1>1, <1>2, <1>3, <1>4, <1>5 DEF IssueCommit, At, Busy
  <1>7. /\ r \in DocRequest /\ InShape(r) /\ o \in Orders /\ d \in Numbers /\ r.amount \in Amounts
        /\ r.file \in Files \cup {NoPdf}
    BY <1>1, <1>3, <1>4, <1>6, DocFacts DEF DocRequest, InShape
  <1>8. /\ ~r.fresh => Exists(d) /\ docs[d] \in DocRow /\ docs[d].order = o
        /\ r.fresh => ~Exists(d) /\ d = numbered + 1
    BY <1>1, <1>3, <1>4, <1>6, <1>7, FreshIsNew, DocFacts DEF DocsInv, NumbersHeld, NumberOf, Numbers, NoNumber
  <1>9. /\ r.file \in Files => row = [state |-> IF r.sent THEN "sent" ELSE "ready", order |-> r.order, amount |-> r.amount,
                                      name |-> IF r.fresh THEN "" ELSE docs[d].name, file |-> r.file]
        /\ r.file = NoPdf /\ r.fresh => row = [state |-> "draft", order |-> r.order, amount |-> r.amount, name |-> "", file |-> NoPdf]
        /\ r.file = NoPdf /\ ~r.fresh => row = [docs[d] EXCEPT !.amount = r.amount]
    BY <1>1, <1>2, <1>4, <1>7, DocIsThere DEF WrittenRow
  <1>10. /\ row \in DocRow /\ row.order = o
         /\ r.file \in Files => row.state = (IF r.sent THEN "sent" ELSE "ready") /\ row.amount = r.amount /\ row.file = r.file
         /\ r.file = NoPdf /\ r.fresh => row.state = "draft" /\ row.file = NoPdf
         /\ r.file = NoPdf /\ ~r.fresh => row.state = docs[d].state /\ row.file = docs[d].file
    <2>1. CASE r.file \in Files
      <3>1. PICK nm : nm = IF r.fresh THEN "" ELSE docs[d].name
        OBVIOUS
      <3>2. PICK st : st = IF r.sent THEN "sent" ELSE "ready"
        OBVIOUS
      <3>3. nm \in Names \cup {""} /\ st \in {"draft", "ready", "sent"}
        BY <1>8, <3>1, <3>2 DEF DocRow
      <3>4. row = [state |-> st, order |-> o, amount |-> r.amount, name |-> nm, file |-> r.file]
        BY <1>3, <1>9, <2>1, <3>1, <3>2
      <3>5. row \in DocRow
        BY <1>7, <2>1, <3>3, <3>4 DEF DocRow
      <3>6. row.order = o /\ row.state = st /\ row.amount = r.amount /\ row.file = r.file /\ r.file # NoPdf
        BY <2>1, <3>4, DocIsThere
      <3> QED BY <2>1, <3>2, <3>5, <3>6
    <2>2. CASE r.file = NoPdf /\ r.fresh
      <3>1. row = [state |-> "draft", order |-> o, amount |-> r.amount, name |-> "", file |-> NoPdf]
        BY <1>3, <1>9, <2>2
      <3>2. row \in DocRow
        BY <1>7, <3>1 DEF DocRow
      <3>3. row.order = o /\ row.state = "draft" /\ row.file = NoPdf /\ r.file \notin Files
        BY <2>2, <3>1, DocIsThere
      <3> QED BY <2>2, <3>2, <3>3
    <2>3. CASE r.file = NoPdf /\ ~r.fresh
      BY <1>3, <1>7, <1>8, <1>9, <2>3, DocIsThere DEF DocRow
    <2> QED BY <1>7, <2>1, <2>2, <2>3
  <1>11. /\ docs' \in [Numbers -> DocRow \cup {NoDocument}] /\ docs'[d] = row
         /\ \A n \in Numbers \ {d} : docs'[n] = docs[n]
    BY <1>6, <1>7, <1>10 DEF DocsInv, DocTypes, DocsTypeOK
  <1>12. Exists(d)' /\ \A n \in Numbers \ {d} : Exists(n)' <=> Exists(n)
    BY <1>7, <1>10, <1>11, DocIsThere DEF Exists
  <1>13. \A n \in Numbers : Exists(n) =>
             Exists(n)' /\ docs'[n].order = docs[n].order /\ (docs[n].state # "draft" => docs'[n].state # "draft")
    <2>1. Exists(d) => docs'[d].order = docs[d].order /\ (docs[d].state # "draft" => docs'[d].state # "draft")
      BY <1>7, <1>8, <1>10, <1>11
    <2> QED BY <1>11, <1>12, <2>1
  <1>14. amount[o] \in Amounts \cup {Absent, NotComputed} /\ amount \in [Orders -> Amounts \cup {Absent, NotComputed}]
    BY <1>7 DEF DocsInv, DocTypes, DocsTypeOK
  <1>15. r.kind = "issue" => amount[o] # Absent
    BY <1>1, <1>3, <1>6 DEF DocsInv, CreationsAlone
  <1>16. /\ amount' \in [Orders -> Amounts \cup {Absent, NotComputed}] /\ amount'[o] = v /\ v # Absent
         /\ \A x \in Orders \ {o} : amount'[x] = amount[x]
    <2>1. v \in Amounts \cup {Absent, NotComputed}
      BY <1>5, <1>7, <1>14
    <2>2. v # Absent
      BY <1>5, <1>7, <1>15, DocumentsAssumption DEF Absent
    <2> QED BY <1>6, <1>7, <1>14, <2>1, <2>2
  <1>17. numbered' \in 0..MaxDoc /\ numbered' \in Int /\ numbered <= numbered' /\ d <= numbered'
    <2>1. CASE r.fresh
      BY <1>6, <1>7, <1>8, <2>1, DocFacts, DocumentsAssumption DEF Numbers
    <2>2. CASE ~r.fresh
      BY <1>6, <1>7, <1>8, <2>2, DocFacts DEF DocsInv, RowsHold
    <2> QED BY <2>1, <2>2
  <1>18. /\ loose' \subseteq Orders /\ penciled' \subseteq Orders
         /\ \A x \in Orders \ {o} : (x \in loose' <=> x \in loose) /\ (x \in penciled' <=> x \in penciled)
         /\ r.file = NoPdf => loose' = loose
    BY <1>1, <1>3, <1>6, DocFacts, DocIsThere DEF Settled
  <1>19. DocsTypeOK'
    <2>1. \A n \in Numbers : Exists(n)' /\ docs'[n].state # "draft" => docs'[n].file \in Files
      <3>1. docs'[d].state # "draft" => docs'[d].file \in Files
        BY <1>7, <1>8, <1>10, <1>11 DEF DocsInv, DocTypes, DocsTypeOK
      <3> QED BY <1>11, <1>12, <3>1 DEF DocsInv, DocTypes, DocsTypeOK
    <2> QED BY <1>6, <1>11, <1>16, <1>17, <1>18, <2>1 DEF DocsInv, DocTypes, DocsTypeOK
  <1>20. RowsHold'
    <2>1. ASSUME NEW n \in Numbers, Exists(n)'
          PROVE  /\ n <= numbered' /\ amount'[docs'[n].order] # Absent
                 /\ docs'[n].file \in Files => docs'[n].file.order = docs'[n].order
                 /\ docs'[n].state = "draft" => docs'[n].file = NoPdf
      <3>1. CASE n # d
        <4>1. /\ n <= numbered /\ amount[docs[n].order] # Absent /\ docs[n].order \in Orders
              /\ docs[n].file \in Files => docs[n].file.order = docs[n].order
              /\ docs[n].state = "draft" => docs[n].file = NoPdf
          BY <1>12, <2>1, <3>1, DocFacts DEF DocsInv, RowsHold, DocRow
        <4>2. n <= numbered'
          BY <1>17, <4>1, DocFacts DEF Numbers
        <4> QED BY <1>11, <1>16, <3>1, <4>1, <4>2
      <3>2. CASE n = d
        <4>1. r.file \in Files => r.file.order = o
          BY <1>3, <1>7 DEF InShape
        <4>2. ~r.fresh => /\ docs[d].file \in Files => docs[d].file.order = o
                          /\ docs[d].state = "draft" => docs[d].file = NoPdf
          BY <1>7, <1>8 DEF DocsInv, RowsHold
        <4> QED BY <1>7, <1>10, <1>11, <1>16, <1>17, <3>2, <4>1, <4>2, DocIsThere
      <3> QED BY <3>1, <3>2
    <2>2. \A f \in Files : disk'[f] \in Pdf => disk'[f].order = f.order
      BY <1>6 DEF DocsInv, RowsHold
    <2> QED BY <2>1, <2>2 DEF RowsHold
  <1>21. ASSUME o \notin crowded, NEW n \in Numbers, Exists(n)', docs'[n].order = o PROVE n = d
    <2> SUFFICES ASSUME n # d PROVE FALSE
      OBVIOUS
    <2>1. Exists(n) /\ docs[n].order = o
      BY <1>11, <1>12, <1>21
    <2>2. CASE r.fresh
      BY <1>1, <1>3, <1>6, <1>21, <2>1, <2>2 DEF DocsInv, OneInvoice
    <2>3. CASE ~r.fresh
      BY <1>7, <1>8, <1>21, <2>1, <2>3 DEF DocsInv, OneInvoice
    <2> QED BY <2>2, <2>3
  <1>22. ASSUME NEW n \in Numbers, Exists(n)', docs'[n].order = o PROVE RowSays(n)'
    <2>1. CASE o \in crowded
      BY <1>6, <1>22, <2>1 DEF RowSays
    <2>2. CASE o \notin crowded
      <3>1. n = d /\ WorkOf(q)
        BY <1>1, <1>3, <1>6, <1>21, <1>22, <2>2 DEF DocsInv, WorkHolds
      <3>2. CASE r.file = NoPdf
        <4>1. o \in loose'
          BY <1>1, <1>3, <1>6, <1>18, <3>1, <3>2 DEF WorkOf
        <4> QED BY <1>22, <4>1 DEF RowSays
      <3>3. CASE r.file \in Files
        <4>1. docs'[d].amount = amount'[o]
          BY <1>1, <1>3, <1>5, <1>10, <1>11, <1>16, <3>1, <3>3 DEF WorkOf
        <4>2. disk[r.file] = [state |-> "file", order |-> o, number |-> d, amount |-> r.amount]
          BY <1>1, <1>3, <1>4, <3>1, <3>3 DEF WorkOf
        <4>3. PdfOf(d)' = Exported(d)'
          BY <1>6, <1>10, <1>11, <3>3, <4>2 DEF PdfOf, Exported
        <4>4. PdfOf(d)' = disk[r.file]
          BY <1>6, <1>10, <1>11, <3>3 DEF PdfOf
        <4>5. docs'[d].state = "sent" => received'[d] \in {Exported(d)', LinkInChat}
          <5>1. docs'[d].state = "sent" => r.sent
            BY <1>10, <1>11, <3>3
          <5>2. r.sent => received[d] \in {disk[r.file], LinkInChat}
            BY <1>1, <1>4, <3>1 DEF WorkOf
          <5> QED BY <1>6, <4>3, <4>4, <5>1, <5>2
        <4> QED BY <1>22, <3>1, <4>1, <4>3, <4>5 DEF RowSays
      <3> QED BY <1>7, <3>2, <3>3
    <2> QED BY <2>1, <2>2
  <1>23. \A m, n \in Numbers : Exists(m)' /\ Exists(n)' /\ docs'[m].order = o /\ docs'[n].order = o
                               /\ o \notin crowded => m = n
    BY <1>21
  <1>24. \A n \in Numbers : docs'[n] = docs[n] \/ (Exists(n)' /\ docs'[n].order = o)
    BY <1>10, <1>11, <1>12
  <1>25. (amount'[o] = Absent <=> amount[o] = Absent) \/ docReqs[q].kind = "create"
    <2>1. docReqs[q].kind # "create" => amount[o] # Absent
      BY <1>1, <1>3, <1>6 DEF DocsInv, CreationsAlone
    <2> QED BY <1>16, <2>1
  <1>26. docReqs[q].sent => \A n \in Numbers : n = docReqs[q].doc => Exists(n)' /\ docs'[n].order = o
    BY <1>1, <1>4, <1>10, <1>11, <1>12
  <1>27. numbered' = numbered \/ docReqs[q].fresh
    BY <1>1, <1>6
  <1> QED BY <1>1, <1>3, <1>6, <1>7, <1>13, <1>16, <1>18, <1>19, <1>20, <1>22, <1>23, <1>24, <1>25, <1>26, <1>27, Ends

\* A request begins: who works on the order already makes it crowded.
LEMMA Begins ==
    ASSUME DocsInv, NEW q \in DocRequests, docReqs[q] = Free, NEW s \in DocRequest, InShape(s),
           NEW o \in Orders, o = s.order,
           s.file = NoPdf, ~s.fresh, ~s.sent, s.step \in {"look", "post"},
           docReqs' = [docReqs EXCEPT ![q] = s],
           UNCHANGED <<amount, docs, disk, numberLock, numbered, received, loose, penciled, unkept>>,
           crowded' = IF WorkingOn(o) # {} THEN crowded \cup {o} ELSE crowded,
           orderLock' = [orderLock EXCEPT ![o] = @ \/ s.kind \in Holders],
           s.kind \in Holders => ~orderLock[o],
           s.kind = "create" <=> amount[o] = Absent,
           s.kind = "issue" => s.amount = amount[o],
           s.doc # NoNumber => Exists(s.doc) /\ docs[s.doc].order = o,
           s.step = "post" => docs[s.doc].state # "draft"
    PROVE  DocsInv'
  <1>1. s # Free /\ q \notin Busy
    BY DocIsThere DEF Busy
  <1>2. docReqs' \in [DocRequests -> DocRequest \cup {Free}] /\ docReqs'[q] = s
        /\ \A p \in DocRequests \ {q} : docReqs'[p] = docReqs[p]
    BY DEF DocsInv, DocTypes
  <1>3. Busy' = Busy \cup {q} /\ \A p \in Busy : docReqs'[p] = docReqs[p]
    BY <1>1, <1>2 DEF Busy
  <1>4. /\ orderLock' \in [Orders -> BOOLEAN] /\ orderLock'[o] = (orderLock[o] \/ s.kind \in Holders)
        /\ \A x \in Orders \ {o} : orderLock'[x] = orderLock[x]
    <2>1. orderLock' = [orderLock EXCEPT ![o] = orderLock[o] \/ s.kind \in Holders]
      OBVIOUS
    <2>2. orderLock \in [Orders -> BOOLEAN]
      BY DEF DocsInv, DocTypes
    <2> QED BY <2>1, <2>2, Zenon
  <1>5. \A n \in Numbers : (Exists(n)' <=> Exists(n)) /\ Exported(n)' = Exported(n) /\ PdfOf(n)' = PdfOf(n)
    BY DEF Exists, Exported, PdfOf
  <1>6. crowded \subseteq crowded' /\ crowded' \subseteq Orders
        /\ (o \notin crowded' => \A p \in Busy : docReqs[p].order # o)
    BY DocFacts DEF WorkingOn, Busy
  <1>7. DocTypes'
    <2>1. DocsTypeOK'
      BY <1>5, <1>6 DEF DocsInv, DocTypes, DocsTypeOK
    <2>2. \A p \in DocRequests : docReqs'[p] # Free => InShape(docReqs'[p])
      BY <1>2 DEF DocsInv, DocTypes
    <2> QED BY <1>2, <1>4, <2>1, <2>2 DEF DocsInv, DocTypes
  <1>8. RowsHold'
    BY <1>5 DEF DocsInv, RowsHold
  <1>9. NumbersHeld'
    <2>1. PICK S \in SUBSET DocRequests : S = {q}
      OBVIOUS
    <2>2. \A v, w \in S : v = w
      BY <2>1
    <2>3. \A p \in Busy' \ S : p \in Busy /\ docReqs'[p] = docReqs[p]
      BY <1>3, <2>1
    <2>4. \A m \in Numbers : Exists(m) =>
              Exists(m)' /\ docs'[m].order = docs[m].order /\ (docs[m].state # "draft" => docs'[m].state # "draft")
      BY <1>5
    <2>5. \A p \in Busy' \ S : docReqs[p].fresh =>
              numberLock' /\ numbered' = numbered /\ \A w \in Busy' \cap S : ~docReqs'[w].fresh
      <3>1. \A p \in Busy : docReqs[p].fresh => numberLock
        BY DEF DocsInv, NumbersHeld, NumberOf
      <3> QED BY <1>2, <1>3, <2>1, <3>1
    <2>6. NumberOf(q)'
      BY <1>2 DEF NumberOf, Exists
    <2>7. \A w \in Busy' \cap S : NumberOf(w)'
      BY <2>1, <2>6
    <2> QED BY <2>1, <2>2, <2>3, <2>4, <2>5, <2>7, NumbersGoOn
  <1>10. LocksHeld'
    <2>1. ASSUME NEW p \in Busy', docReqs'[p].kind \in Holders PROVE orderLock'[docReqs'[p].order]
      <3>1. CASE p = q
        BY <1>2, <1>4, <2>1, <3>1
      <3>2. CASE p # q
        <4>1. p \in Busy /\ docReqs'[p] = docReqs[p] /\ docReqs[p].order \in Orders /\ orderLock[docReqs[p].order]
          BY <1>3, <2>1, <3>2, DocFacts DEF DocsInv, LocksHeld, DocRequest
        <4> QED BY <1>4, <4>1
      <3> QED BY <3>1, <3>2
    <2>2. \A p \in Busy : docReqs[p].kind \in Holders /\ s.kind \in Holders => docReqs[p].order # o
      BY DEF DocsInv, LocksHeld
    <2>3. \A p, w \in Busy' : docReqs'[p].kind \in Holders /\ docReqs'[w].kind \in Holders
                              /\ docReqs'[p].order = docReqs'[w].order => p = w
      BY <1>2, <1>3, <2>2 DEF DocsInv, LocksHeld
    <2> QED BY <2>1, <2>3 DEF LocksHeld
  <1>11. CreationsAlone'
    BY <1>2, <1>3 DEF DocsInv, CreationsAlone
  <1>12. OneWorker'
    BY <1>2, <1>3, <1>6 DEF DocsInv, OneWorker
  <1>13. OnlyAbout(o)
    <2>1. \A p \in Busy : docReqs[p].order # o => p \in Busy' /\ docReqs'[p] = docReqs[p]
      BY <1>3
    <2>2. \A p \in Busy' : docReqs'[p].order # o => p \in Busy /\ docReqs'[p] = docReqs[p]
      BY <1>2, <1>3
    <2> QED BY <1>5, <1>6, <2>1, <2>2 DEF OnlyAbout
  <1>14. OneInvoice'
    <2>1. \A m, n \in Numbers : Exists(m)' /\ Exists(n)' /\ docs'[m].order = o /\ docs'[n].order = o
                                /\ o \notin crowded' => m = n
      BY <1>5, <1>6 DEF DocsInv, OneInvoice
    <2>2. \A p \in Busy', n \in Numbers : docReqs'[p].fresh /\ docReqs'[p].order = o /\ o \notin crowded' /\ Exists(n)' =>
                                docs'[n].order # o
      BY <1>2, <1>3, <1>6
    <2> QED BY <1>13, <2>1, <2>2, OthersOneInvoice
  <1>15. WorkHolds' /\ RowsSay'
    <2>1. ASSUME NEW p \in Busy', docReqs'[p].order = o, o \notin crowded' PROVE WorkOf(p)'
      <3>1. p = q
        BY <1>3, <1>6, <2>1
      <3>2. s.file \notin Files
        BY DocIsThere
      <3> QED BY <1>2, <3>1, <3>2 DEF WorkOf
    <2>2. ASSUME NEW n \in Numbers, Exists(n)', docs'[n].order = o PROVE RowSays(n)'
      <3>1. RowSays(n)
        BY <1>5, <2>2 DEF DocsInv, RowsSay
      <3>2. WroteFile(o) => WroteFile(o)'
        BY <1>3 DEF WroteFile
      <3> QED BY <1>5, <1>6, <2>2, <3>1, <3>2 DEF RowSays
    <2> QED BY <1>13, <2>1, <2>2, OthersAsBefore
  <1>16. PaperHolds'
    <2>1. \A p \in Busy : docReqs[p].sent => p \in Busy' /\ docReqs'[p].sent /\ docReqs'[p].doc = docReqs[p].doc
                                             /\ docReqs'[p].order = docReqs[p].order
      BY <1>3
    <2> QED BY <2>1, PaperStays
  <1> QED BY <1>7, <1>8, <1>9, <1>10, <1>11, <1>12, <1>14, <1>15, <1>16 DEF DocsInv

\* A creation, an edit, a delivery or a manual issue.
LEMMA IssueBeginKeeps ==
    ASSUME DocsInv, NEW q \in DocRequests, NEW o \in Orders, NEW kind \in Holders \cup {"issue"},
           NEW new \in Amounts \cup {NotComputed}, IssueBegin(q, o, kind, new)
    PROVE  DocsInv'
  <1>1. PICK s : s = Request(kind, o, new, "look", NoNumber)
    OBVIOUS
  <1>2. /\ s.kind = kind /\ s.order = o /\ s.amount = new /\ s.step = "look" /\ s.doc = NoNumber
        /\ ~s.fresh /\ s.file = NoPdf /\ ~s.sent
    BY <1>1 DEF Request
  <1>3. s \in DocRequest
    BY <1>1 DEF DocRequest, Request
  <1>4. InShape(s)
    BY <1>2, DocIsThere DEF InShape
  <1>5. /\ docReqs[q] = Free /\ docReqs' = [docReqs EXCEPT ![q] = s]
        /\ UNCHANGED <<amount, docs, disk, numberLock, numbered, received, loose, penciled, unkept>>
        /\ crowded' = IF WorkingOn(o) # {} THEN crowded \cup {o} ELSE crowded
        /\ orderLock' = [orderLock EXCEPT ![o] = @ \/ s.kind \in Holders]
        /\ s.kind \in Holders => ~orderLock[o]
        /\ s.kind = "create" <=> amount[o] = Absent
        /\ s.kind = "issue" => s.amount = amount[o]
    BY <1>1, <1>2 DEF IssueBegin, Crowd
  <1> QED BY <1>2, <1>3, <1>4, <1>5, Begins

\* A document that is not a draft is to be sent.
LEMMA SendBeginKeeps ==
    ASSUME DocsInv, NEW q \in DocRequests, NEW n \in Numbers, NEW way \in {"mail", "chat"}, SendBegin(q, n, way)
    PROVE  DocsInv'
  <1>1. PICK o : o = docs[n].order
    OBVIOUS
  <1>2. Exists(n) /\ docs[n].state # "draft" /\ docs[n] \in DocRow /\ o \in Orders /\ amount[o] # Absent
    BY <1>1, DocFacts DEF SendBegin, DocRow, DocsInv, RowsHold
  <1>3. PICK s : s = Request(way, o, docs[n].amount, "post", n)
    OBVIOUS
  <1>4. /\ s.kind = way /\ s.order = o /\ s.step = "post" /\ s.doc = n /\ ~s.fresh /\ s.file = NoPdf /\ ~s.sent
    BY <1>3 DEF Request
  <1>5. s \in DocRequest
    <2>1. docs[n].amount \in Amounts
      BY <1>2 DEF DocRow
    <2> QED BY <1>2, <1>3, <2>1 DEF DocRequest, Request
  <1>6. InShape(s)
    BY <1>4, DocIsThere DEF InShape
  <1>7. s.kind \notin Holders /\ s.kind # "create" /\ s.kind # "issue"
    BY <1>4 DEF Holders
  <1>8. /\ docReqs[q] = Free /\ docReqs' = [docReqs EXCEPT ![q] = s]
        /\ UNCHANGED <<amount, docs, disk, numberLock, numbered, received, loose, penciled, unkept, orderLock>>
        /\ crowded' = IF WorkingOn(o) # {} THEN crowded \cup {o} ELSE crowded
    BY <1>1, <1>3 DEF SendBegin, Crowd
  <1>9. orderLock' = [orderLock EXCEPT ![o] = @ \/ s.kind \in Holders]
    <2>1. orderLock \in [Orders -> BOOLEAN]
      BY DEF DocsInv, DocTypes
    <2>2. (orderLock[o] \/ s.kind \in Holders) = orderLock[o]
      BY <1>2, <1>7, <2>1
    <2>3. orderLock = [orderLock EXCEPT ![o] = orderLock[o]]
      BY <1>2, <2>1
    <2> QED BY <1>8, <2>2, <2>3
  <1> QED BY <1>1, <1>2, <1>4, <1>5, <1>6, <1>7, <1>8, <1>9, Begins

\* An order, or its invoice, is changed while no request works on it.
LEMMA Idle ==
    ASSUME DocsInv, NEW o \in Orders, WorkingOn(o) = {},
           UNCHANGED <<disk, orderLock, numberLock, numbered, docReqs, received, loose, unkept, crowded>>,
           DocsTypeOK', RowsHold',
           \A x \in Orders \ {o} : amount'[x] = amount[x] /\ (x \in penciled' <=> x \in penciled),
           \A n \in Numbers : /\ Exists(n)' <=> Exists(n)
                              /\ Exists(n) => docs'[n].order = docs[n].order /\ docs'[n].state = docs[n].state
                              /\ docs'[n] = docs[n] \/ docs[n].order = o,
           \A n \in Numbers : Exists(n)' /\ docs'[n].order = o => RowSays(n)'
    PROVE  DocsInv'
  <1>1. Busy' = Busy /\ \A p \in Busy : docReqs'[p] = docReqs[p] /\ docReqs[p].order # o /\ docReqs[p].order \in Orders
    BY DocFacts DEF Busy, WorkingOn, DocRequest
  <1>2. DocTypes'
    BY DEF DocsInv, DocTypes, InShape
  <1>3. NumbersHeld'
    <2>1. PICK S \in SUBSET DocRequests : S = {}
      OBVIOUS
    <2>2. /\ \A v, w \in S : v = w
          /\ \A p \in Busy' \ S : p \in Busy /\ docReqs'[p] = docReqs[p]
      BY <1>1, <2>1
    <2>3. \A n \in Numbers : Exists(n) =>
              Exists(n)' /\ docs'[n].order = docs[n].order /\ (docs[n].state # "draft" => docs'[n].state # "draft")
      OBVIOUS
    <2>4. \A p \in Busy' \ S : docReqs[p].fresh =>
              numberLock' /\ numbered' = numbered /\ \A w \in Busy' \cap S : ~docReqs'[w].fresh
      BY <1>1, <2>1 DEF DocsInv, NumbersHeld, NumberOf
    <2>5. \A w \in Busy' \cap S : NumberOf(w)'
      BY <2>1
    <2> QED BY <2>1, <2>2, <2>3, <2>4, <2>5, NumbersGoOn
  <1>4. LocksHeld' /\ CreationsAlone' /\ OneWorker'
    BY <1>1 DEF DocsInv, LocksHeld, CreationsAlone, OneWorker
  <1>5. OneInvoice'
    <2>1. \A m, n \in Numbers : Exists(m)' /\ Exists(n)' /\ docs'[m].order = docs'[n].order
                                /\ docs'[n].order \notin crowded' => m = n
      BY DEF DocsInv, OneInvoice
    <2>2. \A p \in Busy', n \in Numbers : docReqs'[p].fresh /\ docReqs'[p].order \notin crowded' /\ Exists(n)' =>
              docs'[n].order # docReqs'[p].order
      BY <1>1 DEF DocsInv, OneInvoice
    <2> QED BY <2>1, <2>2 DEF OneInvoice
  <1>6. OnlyAbout(o)
    BY <1>1 DEF OnlyAbout
  <1>7. WorkHolds' /\ RowsSay'
    <2>1. \A p \in Busy' : docReqs'[p].order = o /\ o \notin crowded' => WorkOf(p)'
      BY <1>1
    <2> QED BY <1>6, <2>1, OthersAsBefore
  <1>8. PaperHolds'
    <2> SUFFICES ASSUME NEW n \in Numbers, received[n] \in Pdf, received[n].order \notin unkept,
                        ~(Exists(n) /\ docs[n].order = received[n].order)
                 PROVE  \E p \in Busy' : docReqs'[p].sent /\ docReqs'[p].doc = n /\ docReqs'[p].order = received[n].order
      BY DEF PaperHolds
    <2>1. PICK p \in Busy : docReqs[p].sent /\ docReqs[p].doc = n /\ docReqs[p].order = received[n].order
      BY DEF DocsInv, PaperHolds
    <2> QED BY <1>1, <2>1
  <1> QED BY <1>2, <1>3, <1>4, <1>5, <1>7, <1>8 DEF DocsInv

\* An order without an invoice comes to be.
LEMMA CreateWithoutKeeps ==
    ASSUME DocsInv, NEW o \in Orders, NEW new \in Amounts \cup {NotComputed}, CreateWithout(o, new)
    PROVE  DocsInv'
  <1>1. /\ amount[o] = Absent /\ WorkingOn(o) = {} /\ amount' = [amount EXCEPT ![o] = new]
        /\ UNCHANGED <<docs, disk, orderLock, numberLock, numbered, docReqs, received, loose, penciled, unkept, crowded>>
    BY DEF CreateWithout
  <1>2. /\ amount' \in [Orders -> Amounts \cup {Absent, NotComputed}]
        /\ \A x \in Orders \ {o} : amount'[x] = amount[x]
    BY <1>1 DEF DocsInv, DocTypes, DocsTypeOK
  <1>3. \A n \in Numbers : (Exists(n)' <=> Exists(n)) /\ docs'[n] = docs[n]
    BY <1>1 DEF Exists
  <1>4. \A n \in Numbers : Exists(n) => docs[n].order \in Orders \ {o}
    BY <1>1, DocFacts DEF DocsInv, RowsHold, DocRow
  <1>5. DocsTypeOK'
    BY <1>1, <1>2, <1>3 DEF DocsInv, DocTypes, DocsTypeOK
  <1>6. RowsHold'
    BY <1>1, <1>2, <1>3, <1>4 DEF DocsInv, RowsHold
  <1> QED BY <1>1, <1>2, <1>3, <1>4, <1>5, <1>6, Idle

\* A client changes the order: its invoice waits for the next issue.
LEMMA PencilEditKeeps ==
    ASSUME DocsInv, NEW o \in Orders, NEW new \in Amounts \cup {NotComputed}, PencilEdit(o, new)
    PROVE  DocsInv'
  <1>1. /\ amount[o] # Absent /\ WorkingOn(o) = {} /\ amount' = [amount EXCEPT ![o] = new] /\ penciled' = penciled \cup {o}
        /\ UNCHANGED <<docs, disk, orderLock, numberLock, numbered, docReqs, received, loose, unkept, crowded>>
    BY DEF PencilEdit
  <1>2. /\ amount' \in [Orders -> Amounts \cup {Absent, NotComputed}] /\ amount'[o] = new
        /\ \A x \in Orders \ {o} : amount'[x] = amount[x]
    BY <1>1 DEF DocsInv, DocTypes, DocsTypeOK
  <1>3. \A n \in Numbers : (Exists(n)' <=> Exists(n)) /\ docs'[n] = docs[n]
    BY <1>1 DEF Exists
  <1>4. new # Absent
    BY DocumentsAssumption DEF Absent, NotComputed
  <1>5. DocsTypeOK'
    BY <1>1, <1>2, <1>3 DEF DocsInv, DocTypes, DocsTypeOK
  <1>6. RowsHold'
    <2>1. \A n \in Numbers : Exists(n) => docs[n].order \in Orders /\ amount[docs[n].order] # Absent
      BY DocFacts DEF DocsInv, RowsHold, DocRow
    <2>2. \A n \in Numbers : Exists(n) => amount'[docs[n].order] # Absent
      BY <1>2, <1>4, <2>1
    <2> QED BY <1>1, <1>3, <2>2 DEF DocsInv, RowsHold
  <1>7. ASSUME NEW n \in Numbers, Exists(n)', docs'[n].order = o PROVE RowSays(n)'
    <2>1. RowSays(n) /\ docs[n].order = o
      BY <1>3, <1>7 DEF DocsInv, RowsSay
    <2>2. PdfOf(n)' = PdfOf(n) /\ Exported(n)' = Exported(n)
      BY <1>1 DEF PdfOf, Exported
    <2>3. WroteFile(o)' <=> WroteFile(o)
      BY <1>1 DEF WroteFile, Busy
    <2> QED BY <1>1, <1>3, <2>1, <2>2, <2>3 DEF RowSays
  <1> QED BY <1>1, <1>2, <1>3, <1>5, <1>6, <1>7, Idle

\* A document is given another name: its file keeps its own.
LEMMA RenameDocumentKeeps ==
    ASSUME DocsInv, NEW d \in Numbers, NEW name \in Names \cup {""}, RenameDocument(d, name)
    PROVE  DocsInv'
  <1>1. PICK o : o = docs[d].order
    OBVIOUS
  <1>2. PICK row : row = [docs[d] EXCEPT !.name = name]
    OBVIOUS
  <1>3. /\ Exists(d) /\ WorkingOn(o) = {} /\ docs' = [docs EXCEPT ![d] = row]
        /\ UNCHANGED <<amount, disk, orderLock, numberLock, numbered, docReqs, received, loose, penciled, unkept, crowded>>
    BY <1>1, <1>2 DEF RenameDocument
  <1>4. docs[d] \in DocRow /\ o \in Orders
    BY <1>1, <1>3, DocFacts DEF DocRow
  <1>5. /\ row \in DocRow /\ row.state = docs[d].state /\ row.order = o /\ row.amount = docs[d].amount /\ row.file = docs[d].file
    BY <1>1, <1>2, <1>4 DEF DocRow
  <1>6. /\ docs' \in [Numbers -> DocRow \cup {NoDocument}] /\ docs'[d] = row
        /\ \A n \in Numbers \ {d} : docs'[n] = docs[n]
    BY <1>3, <1>5 DEF DocsInv, DocTypes, DocsTypeOK
  <1>7. \A n \in Numbers : /\ Exists(n)' <=> Exists(n)
                           /\ docs'[n].order = docs[n].order /\ docs'[n].state = docs[n].state
                           /\ docs'[n].amount = docs[n].amount /\ docs'[n].file = docs[n].file
                           /\ docs'[n] = docs[n] \/ docs[n].order = o
    BY <1>1, <1>3, <1>5, <1>6, DocIsThere DEF Exists
  <1>8. DocsTypeOK'
    BY <1>3, <1>6, <1>7 DEF DocsInv, DocTypes, DocsTypeOK
  <1>9. RowsHold'
    BY <1>3, <1>7 DEF DocsInv, RowsHold
  <1>10. ASSUME NEW n \in Numbers, Exists(n)', docs'[n].order = o PROVE RowSays(n)'
    <2>1. RowSays(n) /\ docs[n].order = o
      BY <1>7, <1>10 DEF DocsInv, RowsSay
    <2>2. /\ docs'[n].order = docs[n].order /\ docs'[n].state = docs[n].state
          /\ docs'[n].amount = docs[n].amount /\ docs'[n].file = docs[n].file
      BY <1>7
    <2>3. UNCHANGED <<amount, disk, received, loose, penciled, crowded>>
      BY <1>3
    <2>4. PdfOf(n)' = PdfOf(n)
      BY <2>2, <2>3 DEF PdfOf
    <2>5. Exported(n)' = Exported(n)
      BY <2>2 DEF Exported
    <2>6. WroteFile(o)' <=> WroteFile(o)
      BY <1>3 DEF WroteFile, Busy
    <2> QED BY <2>1, <2>2, <2>4, <2>5, <2>6, <2>3 DEF RowSays
  <1> QED BY <1>3, <1>4, <1>7, <1>8, <1>9, <1>10, Idle

\* Every step keeps the invariant of the invoices.
LEMMA DocsStep ==
    ASSUME DocsInv, [DocsNext]_docVars
    PROVE  DocsInv'
  <1>1. ASSUME NEW o \in Orders, NEW new \in Amounts \cup {NotComputed}, CreateWithout(o, new) PROVE DocsInv'
    BY <1>1, CreateWithoutKeeps
  <1>2. ASSUME NEW q \in DocRequests, NEW o \in Orders, NEW kind \in Holders \cup {"issue"},
               NEW new \in Amounts \cup {NotComputed}, IssueBegin(q, o, kind, new)
        PROVE  DocsInv'
    BY <1>2, IssueBeginKeeps
  <1>3. ASSUME NEW o \in Orders, NEW new \in Amounts \cup {NotComputed}, PencilEdit(o, new) PROVE DocsInv'
    BY <1>3, PencilEditKeeps
  <1>4. ASSUME NEW q \in DocRequests,
               LookNone(q) \/ NoAmount(q) \/ Render(q) \/ RenderFails(q) \/ IssueCommit(q)
        PROVE  DocsInv'
    BY <1>4, LookNoneKeeps, NoAmountKeeps, RenderKeeps, RenderFailsKeeps, IssueCommitKeeps
  <1>5. ASSUME NEW q \in DocRequests, IssueRollback(q) \/ Post(q) \/ PostFails(q) \/ MarkSent(q)
        PROVE  DocsInv'
    BY <1>5, IssueRollbackKeeps, PostKeeps, PostFailsKeeps, MarkSentKeeps
  <1>6. ASSUME NEW q \in DocRequests, NEW n \in Numbers, LookFound(q, n) PROVE DocsInv'
    BY <1>6, LookFoundKeeps
  <1>7. ASSUME NEW q \in DocRequests, NEW way \in {"mail", "chat"}, SendAtCreation(q, way) PROVE DocsInv'
    BY <1>7, SendAtCreationKeeps
  <1>8. ASSUME NEW q \in DocRequests, NEW way \in {"mail", "chat"}, NEW n \in Numbers, SendBegin(q, n, way) PROVE DocsInv'
    BY <1>8, SendBeginKeeps
  <1>9. ASSUME NEW n \in Numbers, NEW name \in Names \cup {""}, RenameDocument(n, name) PROVE DocsInv'
    BY <1>9, RenameDocumentKeeps
  <1>10. CASE UNCHANGED docVars
    BY <1>10 DEF docVars, DocsInv, DocTypes, DocsTypeOK, RowsHold, NumbersHeld, NumberOf, LocksHeld, CreationsAlone, OneWorker,
                 OneInvoice, WorkHolds, WorkOf, RowsSay, RowSays, PaperHolds, Busy, WroteFile, PdfOf, Exported, Exists, InShape
  <1> QED BY <1>1, <1>2, <1>3, <1>4, <1>5, <1>6, <1>7, <1>8, <1>9, <1>10 DEF DocsNext

-----------------------------------------------------------------------------
(* Sums: rounding *)

\* What leaves no remainder is a multiple.
LEMMA NoRemainder ==
    ASSUME NEW a \in Int, NEW b \in Nat \ {0}, a % b = 0
    PROVE  \E k \in Int : a = b * k
  <1>1. a \div b \in Int /\ a = b * (a \div b)
    OBVIOUS
  <1> QED BY <1>1

\* A rounded quotient is within half of the exact one.
LEMMA HalfUpBounds ==
    ASSUME NEW a \in Int, NEW b \in Nat \ {0}, NEW r, r = HalfUp(a, b)
    PROVE  r \in Int /\ 2 * (b * r) <= 2 * a + b /\ 2 * a - b <= 2 * (b * r)
  BY DEF HalfUp

\* Both roundings leave a quotient without a remainder alone.
LEMMA RoundingExact ==
    ASSUME NEW k \in Int, NEW b \in Nat \ {0}
    PROVE  HalfUp(b * k, b) = k /\ HalfEven(b * k, b) = k
  BY DEF HalfUp, HalfEven
\* A number nearer than half to the quotient is what it is rounded to.
LEMMA HalfUpNear ==
    ASSUME NEW k \in Int, NEW a \in Int, NEW b \in Nat \ {0}, 2 * a - b < 2 * (b * k), 2 * (b * k) < 2 * a + b
    PROVE  HalfUp(a, b) = k
  BY DEF HalfUp

\* Rounding the price of a litre moves a total by half a kopeck a litre and half a kopeck more.
LEMMA PriceFirstNear ==
    ASSUME NEW t \in Int, NEW v \in Nat \ {0}, VolScale \in Nat \ {0}
    PROVE  /\ PriceFirst(t, v) \in Int
           /\ 2 * (VolScale * PriceFirst(t, v)) <= 2 * (VolScale * t) + v + VolScale
           /\ 2 * (VolScale * t) <= 2 * (VolScale * PriceFirst(t, v)) + v + VolScale
  <1>1. t * VolScale \in Int /\ t * VolScale = VolScale * t
    OBVIOUS
  <1>2. PICK u \in Int : u = UnitGross(t, v)
    BY <1>1, HalfUpBounds DEF UnitGross
  <1>3. 2 * (v * u) <= 2 * (VolScale * t) + v /\ 2 * (VolScale * t) - v <= 2 * (v * u)
    BY <1>1, <1>2, HalfUpBounds DEF UnitGross
  <1>4. u * v \in Int /\ u * v = v * u
    OBVIOUS
  <1>5. PICK p \in Int : p = PriceFirst(t, v)
    BY <1>2, <1>4, HalfUpBounds DEF PriceFirst
  <1>6. 2 * (VolScale * p) <= 2 * (v * u) + VolScale /\ 2 * (v * u) - VolScale <= 2 * (VolScale * p)
    BY <1>2, <1>4, <1>5, HalfUpBounds DEF PriceFirst
  <1> QED BY <1>3, <1>5, <1>6

\* A total taken from the rounded price of a litre gives that price and that total again.
LEMMA PriceFirstAgain ==
    ASSUME NEW t \in Int, NEW v \in Nat \ {0}, VolScale \in Nat \ {0}
    PROVE  PriceFirst(PriceFirst(t, v), v) = PriceFirst(t, v)
  <1>1. t * VolScale \in Int /\ t * VolScale = VolScale * t
    OBVIOUS
  <1>2. PICK u \in Int : u = UnitGross(t, v)
    BY <1>1, HalfUpBounds DEF UnitGross
  <1>3. u * v \in Int /\ u * v = v * u
    OBVIOUS
  <1>4. PICK p \in Int : p = PriceFirst(t, v)
    BY <1>2, <1>3, HalfUpBounds DEF PriceFirst
  <1>5. 2 * (VolScale * p) <= 2 * (v * u) + VolScale /\ 2 * (v * u) - VolScale <= 2 * (VolScale * p)
    BY <1>2, <1>3, <1>4, HalfUpBounds DEF PriceFirst
  <1>6. p * VolScale \in Int /\ p * VolScale = VolScale * p
    OBVIOUS
  <1>7. PICK w \in Int : w = UnitGross(p, v)
    BY <1>6, HalfUpBounds DEF UnitGross
  <1>8. 2 * (v * w) <= 2 * (VolScale * p) + v /\ 2 * (VolScale * p) - v <= 2 * (v * w)
    BY <1>6, <1>7, HalfUpBounds DEF UnitGross
  <1>9. CASE VolScale < v
    <2>1. HalfUp(VolScale * p, v) = u
      BY <1>5, <1>9, HalfUpNear
    <2> QED BY <1>2, <1>4, <1>6, <2>1 DEF PriceFirst, UnitGross
  <1>10. CASE v < VolScale
    <2>1. w * v \in Int /\ w * v = v * w
      OBVIOUS
    <2>2. HalfUp(v * w, VolScale) = p
      BY <1>8, <1>10, <2>1, HalfUpNear
    <2> QED BY <1>4, <1>7, <2>1, <2>2 DEF PriceFirst
  <1>11. CASE v = VolScale
    <2>1. u = t
      BY <1>1, <1>2, <1>11, RoundingExact DEF UnitGross
    <2>2. p = u
      BY <1>2, <1>3, <1>4, <1>11, RoundingExact DEF PriceFirst
    <2> QED BY <1>4, <2>1, <2>2
  <1> QED BY <1>9, <1>10, <1>11

\* A rounded sum is a sum.
LEMMA RoundedIsInt ==
    ASSUME NEW a \in Int, NEW b \in Nat \ {0}
    PROVE  HalfUp(a, b) \in Int /\ HalfEven(a, b) \in Int
  <1>1. HalfUp(a, b) \in Int
    BY HalfUpBounds
  <1>2. HalfEven(a, b) \in Int
    BY DEF HalfEven
  <1> QED BY <1>1, <1>2

-----------------------------------------------------------------------------
(* Sums: the inductive invariant *)

Sums == Int \cup {NoSum}

QuoteRow ==
    [state: {"awaiting", "open", "delivered"}, company: BOOLEAN, volume: Volumes, delivered: Volumes \cup {0},
     delivery: Nat \cup {NoSum}, deliveryTyped: BOOLEAN, manualPrice: ManualPrices \cup {NoPriceToday},
     expected: Sums, final: Sums, fuel: Sums, edits: Nat, lapses: SUBSET {"typed", "away", "switched", "late"}]

Untouched(q) == "typed" \notin q.lapses /\ "away" \notin q.lapses

Exact(q) == q.manualPrice # NoPriceToday

Whole(vol) == vol % VolScale = 0

\* What a litre by hand comes to, with the delivery; or a total that the price of a litre gives again.
ComesTo(q, sum, vol) ==
    IF Exact(q) THEN VolScale * sum = q.manualPrice * vol + VolScale * OrZero(q.delivery)
    ELSE PriceFirst(sum, vol) = sum

\* What is due, once delivered: the sum of the volume delivered, on the terms of the order.
DueOK(q) ==
    /\ q.state = "delivered" <=> q.delivered # 0
    /\ q.delivered = 0 /\ q.final # NoSum => "typed" \in q.lapses
    /\ q.delivered # 0 /\ "late" \notin q.lapses => q.final # NoSum
    /\ q.delivered # 0 /\ "late" \notin q.lapses /\ "switched" \notin q.lapses => q.expected # NoSum
    /\ q.final # NoSum /\ Untouched(q) /\ "late" \notin q.lapses
       /\ (Exact(q) => "switched" \notin q.lapses /\ Whole(q.volume) /\ Whole(q.delivered)) => ComesTo(q, q.final, q.delivered)
    /\ q.delivered = q.volume /\ "typed" \notin q.lapses /\ "switched" \notin q.lapses /\ "late" \notin q.lapses =>
            q.final = q.expected

\* What is expected: the sum of the volume ordered, near to its fuel and its delivery.
ExpectedOK(q) ==
    q.expected # NoSum /\ Untouched(q) =>
        /\ (Exact(q) => Whole(q.volume)) => ComesTo(q, q.expected, q.volume)
        /\ q.fuel # NoSum
        /\ LET apart == 2 * (VolScale * q.expected) - 2 * (VolScale * (q.fuel + OrZero(q.delivery))) IN
           /\ apart <= (q.edits + 1) * (q.volume + VolScale)
           /\ -apart <= (q.edits + 1) * (q.volume + VolScale)

MoneyInv ==
    /\ quote \in QuoteRow \cup {NoQuote} /\ (Quoted => DueOK(quote) /\ ExpectedOK(quote))
    /\ litrePrice \in LitrePrices \cup {NoPriceToday} /\ zonePrice \in ZonePrices \cup {NoSum}

\* The constants are numbers.
LEMMA MoneyConstants ==
    /\ \A v \in Volumes : v \in Nat \ {0} /\ v \in Int
    /\ VolScale \in Nat \ {0} /\ VolScale \in Int
    /\ NoSum \notin Int /\ NoSum \notin Nat
    /\ \A p \in LitrePrices \cup ManualPrices \cup {NoPriceToday} : p \in Nat
    /\ \A d \in ZonePrices \cup Deliveries \cup TypedSums : d \in Nat
    /\ \A v \in Volumes : Discount(v) \in 0..100
  BY MoneyAssumption DEF NoPriceToday, Discount

\* No cost of a delivery counts as none.
LEMMA OrZeroIsNat == \A d \in Nat \cup {NoSum} : OrZero(d) \in Nat
  BY MoneyConstants DEF OrZero

\* The total of an order of a part num / den: exact, or from the rounded price of a litre.
LEMMA OrderTotals ==
    ASSUME NEW num \in Int, NEW den \in Nat \ {0}, NEW delivery \in Nat \cup {NoSum}, NEW vol \in Volumes,
           NEW exact \in BOOLEAN
    PROVE  LET sum == OrderTotal(num, den, delivery, vol, exact) IN
           /\ sum \in Int
           /\ exact => sum = HalfUp(num + den * OrZero(delivery), den)
           /\ ~exact => PriceFirst(sum, vol) = sum
  <1>1. PICK d \in Nat : d = OrZero(delivery)
    BY OrZeroIsNat
  <1>2. num + den * d \in Int
    OBVIOUS
  <1>3. PICK raw \in Int : raw = HalfUp(num + den * d, den)
    BY <1>2, RoundedIsInt
  <1>4. vol \in Nat \ {0} /\ VolScale \in Nat \ {0}
    BY MoneyConstants
  <1>5. PriceFirst(raw, vol) \in Int /\ PriceFirst(PriceFirst(raw, vol), vol) = PriceFirst(raw, vol)
    BY <1>4, PriceFirstNear, PriceFirstAgain
  <1>6. OrderTotal(num, den, delivery, vol, exact) = IF exact THEN raw ELSE PriceFirst(raw, vol)
    BY <1>1, <1>3 DEF OrderTotal
  <1> QED BY <1>1, <1>3, <1>5, <1>6

\* The total of an order of a whole part.
LEMMA OrderTotalOfSum ==
    ASSUME NEW num \in Int, NEW delivery \in Nat \cup {NoSum}, NEW vol \in Volumes, NEW exact \in BOOLEAN
    PROVE  LET sum == OrderTotal(num, 1, delivery, vol, exact) IN
           /\ sum \in Int
           /\ exact => sum = num + OrZero(delivery)
           /\ ~exact => sum = PriceFirst(num + OrZero(delivery), vol) /\ PriceFirst(sum, vol) = sum
  <1>1. PICK d \in Nat : d = OrZero(delivery)
    BY OrZeroIsNat
  <1>2. num + 1 * d = num + d /\ 1 * (num + d) = num + d /\ num + d \in Int /\ 1 \in Nat \ {0}
    OBVIOUS
  <1>3. HalfUp(num + d, 1) = num + d
    BY <1>2, RoundingExact
  <1>4. OrderTotal(num, 1, delivery, vol, exact) = IF exact THEN num + d ELSE PriceFirst(num + d, vol)
    BY <1>1, <1>2, <1>3 DEF OrderTotal
  <1> QED BY <1>1, <1>2, <1>4, OrderTotals

\* The fuel part is a sum, or none without a tariff; by hand it is one.
LEMMA FuelIsSum ==
    ASSUME NEW vol \in Volumes
    PROVE  /\ \A p \in LitrePrices \cup {NoPriceToday} : TariffFuel(p, vol) \in Sums
           /\ \A p \in ManualPrices \cup {NoPriceToday} :
                  /\ ManualFuel(p, vol) \in Int
                  /\ Whole(vol) => VolScale * ManualFuel(p, vol) = p * vol
  <1>1. ASSUME NEW p \in LitrePrices \cup {NoPriceToday} PROVE TariffFuel(p, vol) \in Sums
    <2>1. PICK d \in 0..100 : d = Discount(vol)
      BY MoneyConstants
    <2>2. p * (100 - d) * vol \in Int /\ 100 * VolScale \in Nat \ {0}
      BY MoneyConstants
    <2> QED BY <2>1, <2>2, RoundedIsInt DEF TariffFuel, Sums
  <1>2. ASSUME NEW p \in ManualPrices \cup {NoPriceToday}
        PROVE  ManualFuel(p, vol) \in Int /\ (Whole(vol) => VolScale * ManualFuel(p, vol) = p * vol)
    <2>1. p \in Int /\ vol \in Int /\ VolScale \in Nat \ {0} /\ p * vol \in Int
      BY MoneyConstants
    <2>2. ManualFuel(p, vol) \in Int
      BY <2>1, RoundedIsInt DEF ManualFuel
    <2>3. ASSUME Whole(vol) PROVE VolScale * ManualFuel(p, vol) = p * vol
      <3>1. PICK k \in Int : vol = VolScale * k
        BY <2>1, <2>3, NoRemainder DEF Whole
      <3>2. p * k \in Int /\ p * vol = VolScale * (p * k)
        BY <2>1, <3>1
      <3>3. ManualFuel(p, vol) = p * k
        BY <2>1, <3>2, RoundingExact DEF ManualFuel
      <3> QED BY <3>2, <3>3
    <2> QED BY <2>2, <2>3
  <1> QED BY <1>1, <1>2

\* What the zone costs is no less than nothing.
LEMMA ZoneCostIsNat ==
    ASSUME NEW p \in ZonePrices \cup {NoSum}, NEW company \in BOOLEAN
    PROVE  ZoneCost(p, company) \in Nat \cup {NoSum}
  <1>1. CASE p = NoSum
    BY <1>1 DEF ZoneCost
  <1>2. CASE p \in ZonePrices
    <2>1. p \in Nat /\ Vat \in Nat
      BY <1>2, MoneyAssumption
    <2>2. p * (100 + Vat) \in Int /\ p * (100 + Vat) >= 0
      BY <2>1
    <2>3. PICK a \in Int : a = p * (100 + Vat) /\ a >= 0
      BY <2>2
    <2>4. HalfUp(a, 100) \in Nat
      <3>1. PICK r \in Int : r = HalfUp(a, 100)
        BY RoundedIsInt
      <3>2. 2 * a - 100 <= 2 * (100 * r)
        BY <3>1, HalfUpBounds
      <3> QED BY <2>3, <3>1, <3>2
    <2> QED BY <1>2, <2>1, <2>3, <2>4, MoneyConstants DEF ZoneCost
  <1> QED BY <1>1, <1>2

\* A sum computed from the fuel and the delivery is what they come to, and near to them.
LEMMA ComputedSum ==
    ASSUME NEW q \in QuoteRow, NEW fuel \in Int, NEW exact \in BOOLEAN, exact <=> Exact(q),
           exact /\ Whole(q.volume) => VolScale * fuel = q.manualPrice * q.volume,
           NEW d \in Nat, d = OrZero(q.delivery),
           NEW sum \in Int, sum = OrderTotal(fuel, 1, q.delivery, q.volume, exact)
    PROVE  /\ (exact => Whole(q.volume)) => ComesTo(q, sum, q.volume)
           /\ 2 * (VolScale * sum) - 2 * (VolScale * (fuel + d)) <= q.volume + VolScale
           /\ 2 * (VolScale * (fuel + d)) - 2 * (VolScale * sum) <= q.volume + VolScale
  <1>1. q.volume \in Volumes /\ q.volume \in Nat \ {0} /\ VolScale \in Nat \ {0} /\ 1 \in Nat \ {0}
        /\ q.manualPrice \in Nat /\ q.delivery \in Nat \cup {NoSum}
    BY MoneyConstants DEF QuoteRow
  <1>5. sum = IF exact THEN fuel + d ELSE PriceFirst(fuel + d, q.volume)
    BY <1>1, OrderTotalOfSum
  <1>6. CASE exact
    <2>1. sum = fuel + d
      BY <1>5, <1>6
    <2>2. VolScale * sum = VolScale * fuel + VolScale * d
      BY <1>1, <2>1
    <2>3. (exact => Whole(q.volume)) => ComesTo(q, sum, q.volume)
      BY <1>6, <2>2 DEF ComesTo
    <2> QED BY <1>1, <2>1, <2>3
  <1>7. CASE ~exact
    <2>1. sum = PriceFirst(fuel + d, q.volume) /\ fuel + d \in Int
      BY <1>5, <1>7
    <2>2. PriceFirst(sum, q.volume) = sum
      BY <1>1, <2>1, PriceFirstNear, PriceFirstAgain
    <2>3. /\ 2 * (VolScale * sum) <= 2 * (VolScale * (fuel + d)) + q.volume + VolScale
          /\ 2 * (VolScale * (fuel + d)) <= 2 * (VolScale * sum) + q.volume + VolScale
      BY <1>1, <2>1, PriceFirstNear
    <2>4. VolScale * sum \in Int /\ VolScale * (fuel + d) \in Int
      BY <1>1, <2>1, <2>2
    <2>5. ComesTo(q, sum, q.volume)
      BY <1>7, <2>2 DEF ComesTo
    <2> QED BY <1>1, <2>2, <2>3, <2>4, <2>5
  <1> QED BY <1>6, <1>7

\* The fuel part of an order, by hand or by today's tariff.
LEMMA SubtotalIsSum ==
    ASSUME NEW q \in QuoteRow, litrePrice \in LitrePrices \cup {NoPriceToday}
    PROVE  /\ FuelSubtotal(q, q.volume) \in Sums
           /\ Exact(q) /\ Whole(q.volume) => VolScale * FuelSubtotal(q, q.volume) = q.manualPrice * q.volume
  <1>1. q.volume \in Volumes /\ q.manualPrice \in ManualPrices \cup {NoPriceToday}
    BY DEF QuoteRow
  <1>2. CASE Exact(q)
    <2>1. FuelSubtotal(q, q.volume) = ManualFuel(q.manualPrice, q.volume)
      BY <1>2 DEF FuelSubtotal, Exact
    <2> QED BY <1>1, <2>1, FuelIsSum DEF Sums
  <1>3. CASE ~Exact(q)
    <2>1. FuelSubtotal(q, q.volume) = TariffFuel(litrePrice, q.volume)
      BY <1>3 DEF FuelSubtotal, Exact
    <2> QED BY <1>1, <1>3, <2>1, FuelIsSum
  <1> QED BY <1>2, <1>3

\* Replacing the cost of the delivery, before the order is delivered or after: what is expected and
\* what is due stay what they come to, and the row stays near to its fuel by one edit more.
LEMMA WithDeliveryOK ==
    ASSUME NEW q \in QuoteRow, DueOK(q), NEW cost \in Deliveries, NEW away \in BOOLEAN,
           litrePrice \in LitrePrices \cup {NoPriceToday}, NEW r, r = WithDelivery(q, cost, away)
    PROVE  /\ r \in QuoteRow /\ DueOK(r) /\ (ExpectedOK(q) => ExpectedOK(r))
           /\ r.state = q.state /\ r.delivered = q.delivered /\ r.volume = q.volume /\ r.lapses = q.lapses
  <1>1. /\ q.volume \in Volumes /\ q.expected \in Sums /\ q.final \in Sums /\ q.fuel \in Sums
        /\ q.edits \in Nat /\ q.delivery \in Nat \cup {NoSum} /\ q.delivered \in Volumes \cup {0}
        /\ cost \in Nat \cup {NoSum} /\ q.manualPrice \in Nat
        /\ VolScale \in Nat \ {0} /\ NoSum \notin Int /\ 1 \in Nat \ {0} /\ \A v \in Volumes : v \in Nat \ {0}
    BY MoneyConstants DEF QuoteRow
  <1>2. PICK exact \in BOOLEAN : exact = Exact(q)
    BY DEF Exact
  <1>3. PICK d \in Nat : d = OrZero(q.delivery)
    BY <1>1, OrZeroIsNat
  <1>4. PICK fuel \in Sums : fuel = IF q.expected # NoSum THEN q.expected - d
                                    ELSE IF away THEN NoSum ELSE FuelSubtotal(q, q.volume)
    <2>1. FuelSubtotal(q, q.volume) \in Sums
      BY SubtotalIsSum
    <2>2. q.expected # NoSum => q.expected - d \in Int
      BY <1>1 DEF Sums
    <2> QED BY <2>1, <2>2 DEF Sums
  <1>5. PICK iv \in Volumes : iv = InvoiceVolume(q)
    BY <1>1 DEF InvoiceVolume
  <1>6. PICK sum \in Sums : sum = IF fuel = NoSum THEN q.expected ELSE OrderTotal(fuel, 1, cost, q.volume, exact)
    <2>1. fuel # NoSum => fuel \in Int
      BY DEF Sums
    <2>2. fuel # NoSum => OrderTotal(fuel, 1, cost, q.volume, exact) \in Int
      BY <1>1, <2>1, OrderTotalOfSum
    <2> QED BY <1>1, <2>2 DEF Sums
  <1>7. PICK due \in Sums : due = IF q.final = NoSum THEN q.final ELSE OrderTotal(q.final - d, 1, cost, iv, exact)
    <2>1. q.final # NoSum => q.final - d \in Int
      BY <1>1 DEF Sums
    <2>2. q.final # NoSum => OrderTotal(q.final - d, 1, cost, iv, exact) \in Int
      BY <1>1, <2>1, OrderTotalOfSum
    <2> QED BY <1>1, <2>2 DEF Sums
  <1>8. PICK part \in Sums : part = IF q.expected # NoSum THEN q.fuel ELSE fuel
    BY <1>1
  <1>9. PICK edits1 \in Nat : edits1 = q.edits + 1
    BY <1>1
  <1>10. r = [q EXCEPT !.delivery = cost, !.deliveryTyped = TRUE, !.expected = sum, !.final = due, !.fuel = part, !.edits = edits1]
    BY <1>2, <1>3, <1>4, <1>5, <1>6, <1>7, <1>8, <1>9 DEF WithDelivery, Exact
  <1>11. /\ r.state = q.state /\ r.delivered = q.delivered /\ r.volume = q.volume /\ r.lapses = q.lapses
         /\ r.manualPrice = q.manualPrice /\ r.delivery = cost /\ r.expected = sum /\ r.final = due
         /\ r.fuel = part /\ r.edits = edits1
    BY <1>10 DEF QuoteRow
  <1>12. r \in QuoteRow
    <2>1. cost \in Nat \cup {NoSum}
      BY <1>1
    <2> QED BY <1>10, <2>1 DEF QuoteRow
  <1>13. (Exact(r) <=> exact) /\ (Untouched(r) <=> Untouched(q))
    BY <1>2, <1>11 DEF Exact, Untouched
  <1>14. (q.final = NoSum <=> due = NoSum) /\ (q.expected # NoSum => sum # NoSum)
    <2>1. q.final # NoSum => q.final - d \in Int
      BY <1>1 DEF Sums
    <2>2. q.final # NoSum => OrderTotal(q.final - d, 1, cost, iv, exact) \in Int
      BY <1>1, <2>1, OrderTotalOfSum
    <2>3. q.expected # NoSum => fuel \in Int
      BY <1>1, <1>4 DEF Sums
    <2>4. fuel \in Int => OrderTotal(fuel, 1, cost, q.volume, exact) \in Int
      BY <1>1, OrderTotalOfSum
    <2> QED BY <1>1, <1>6, <1>7, <2>2, <2>3, <2>4
  <1>15. ASSUME due # NoSum, Untouched(q), "late" \notin q.lapses,
                exact => "switched" \notin q.lapses /\ Whole(q.volume) /\ Whole(q.delivered)
         PROVE  ComesTo(r, due, q.delivered)
    <2>1. q.delivered # 0 /\ iv = q.delivered /\ q.final # NoSum
      BY <1>5, <1>14, <1>15 DEF DueOK, Untouched, InvoiceVolume
    <2>2. ComesTo(q, q.final, iv)
      BY <1>2, <1>15, <2>1 DEF DueOK
    <2>3. q.final \in Int /\ q.final - d \in Int /\ due = OrderTotal(q.final - d, 1, cost, iv, exact)
      BY <1>1, <1>7, <2>1 DEF Sums
    <2>4. PICK e \in Nat : e = OrZero(cost)
      BY <1>1, OrZeroIsNat
    <2>5. CASE exact
      <3>1. due = q.final - d + e
        <4>1. PICK f \in Int : f = q.final - d
          BY <2>3
        <4>2. OrderTotal(f, 1, cost, iv, exact) = f + OrZero(cost)
          BY <1>1, <2>5, OrderTotalOfSum
        <4> QED BY <2>3, <2>4, <4>1, <4>2
      <3>2. VolScale * q.final = q.manualPrice * iv + VolScale * d
        BY <1>2, <1>3, <2>2, <2>5 DEF ComesTo
      <3>3. VolScale * due = VolScale * q.final - VolScale * d + VolScale * e /\ iv \in Nat /\ q.manualPrice * iv \in Int
        BY <1>1, <2>3, <3>1
      <3>4. VolScale * due = q.manualPrice * iv + VolScale * e
        BY <1>1, <2>3, <3>2, <3>3
      <3> QED BY <1>11, <1>13, <2>1, <2>4, <2>5, <3>4 DEF ComesTo
    <2>6. CASE ~exact
      <3>1. PriceFirst(due, iv) = due
        BY <1>1, <2>3, <2>6, OrderTotalOfSum
      <3> QED BY <1>13, <2>1, <2>6, <3>1 DEF ComesTo
    <2> QED BY <2>5, <2>6
  <1>16. ASSUME q.delivered = q.volume, "typed" \notin q.lapses, "switched" \notin q.lapses, "late" \notin q.lapses
         PROVE  due = sum
    <2>1. q.delivered # 0 /\ iv = q.volume /\ q.final = q.expected /\ q.expected # NoSum
      BY <1>1, <1>5, <1>16 DEF DueOK, InvoiceVolume
    <2>2. fuel = q.final - d /\ fuel \in Int
      BY <1>1, <1>4, <2>1 DEF Sums
    <2> QED BY <1>1, <1>6, <1>7, <2>1, <2>2
  <1>17. DueOK(r)
    BY <1>11, <1>13, <1>14, <1>15, <1>16 DEF DueOK
  <1>18. ASSUME ExpectedOK(q), sum # NoSum, Untouched(q) PROVE ExpectedOK(r)
    <2>1. fuel \in Int /\ sum = OrderTotal(fuel, 1, cost, q.volume, exact)
      BY <1>1, <1>4, <1>6, <1>18 DEF Sums
    <2>2. PICK e \in Nat : e = OrZero(cost)
      BY <1>1, OrZeroIsNat
    <2>3. exact /\ Whole(q.volume) => VolScale * fuel = q.manualPrice * q.volume
      <3>1. CASE q.expected = NoSum
        BY <1>1, <1>2, <1>4, <2>1, <3>1, SubtotalIsSum
      <3>2. CASE q.expected # NoSum /\ exact /\ Whole(q.volume)
        <4>1. VolScale * q.expected = q.manualPrice * q.volume + VolScale * d /\ q.expected \in Int /\ fuel = q.expected - d
          BY <1>1, <1>2, <1>3, <1>4, <1>18, <3>2 DEF ExpectedOK, ComesTo, Sums
        <4>2. VolScale * fuel = VolScale * q.expected - VolScale * d /\ q.manualPrice * q.volume \in Int
          BY <1>1, <4>1
        <4> QED BY <1>1, <4>1, <4>2
      <3> QED BY <3>1, <3>2
    <2>4. /\ (exact => Whole(q.volume)) => ComesTo(r, sum, r.volume)
          /\ 2 * (VolScale * sum) - 2 * (VolScale * (fuel + e)) <= q.volume + VolScale
          /\ 2 * (VolScale * (fuel + e)) - 2 * (VolScale * sum) <= q.volume + VolScale
          /\ sum \in Int
      <3>1. /\ r \in QuoteRow /\ (exact <=> Exact(r)) /\ e = OrZero(r.delivery)
            /\ sum = OrderTotal(fuel, 1, r.delivery, r.volume, exact)
        BY <1>11, <1>12, <1>13, <2>1, <2>2
      <3>2. exact /\ Whole(r.volume) => VolScale * fuel = r.manualPrice * r.volume
        BY <1>11, <2>3
      <3>3. sum \in Int /\ fuel \in Int
        BY <1>1, <1>18, <2>1 DEF Sums
      <3>4. /\ (exact => Whole(r.volume)) => ComesTo(r, sum, r.volume)
            /\ 2 * (VolScale * sum) - 2 * (VolScale * (fuel + e)) <= r.volume + VolScale
            /\ 2 * (VolScale * (fuel + e)) - 2 * (VolScale * sum) <= r.volume + VolScale
        BY <3>1, <3>2, <3>3, ComputedSum
      <3> QED BY <1>11, <3>3, <3>4
    <2>5. /\ part \in Int
          /\ 2 * (VolScale * sum) - 2 * (VolScale * (part + e)) <= (edits1 + 1) * (q.volume + VolScale)
          /\ 2 * (VolScale * (part + e)) - 2 * (VolScale * sum) <= (edits1 + 1) * (q.volume + VolScale)
      <3>1. CASE q.expected = NoSum
        <4>1. part = fuel
          BY <1>8, <3>1
        <4>2. q.volume + VolScale <= (edits1 + 1) * (q.volume + VolScale)
          BY <1>1
        <4> QED BY <1>1, <2>1, <2>4, <4>1, <4>2
      <3>2. CASE q.expected # NoSum
        <4>1. part = q.fuel /\ part \in Int /\ q.expected \in Int /\ fuel = q.expected - d
          BY <1>1, <1>4, <1>8, <1>18, <3>2 DEF ExpectedOK, Sums
        <4>2. /\ 2 * (VolScale * q.expected) - 2 * (VolScale * (part + d)) <= (q.edits + 1) * (q.volume + VolScale)
              /\ -(2 * (VolScale * q.expected) - 2 * (VolScale * (part + d))) <= (q.edits + 1) * (q.volume + VolScale)
          BY <1>3, <1>18, <3>2, <4>1 DEF ExpectedOK
        <4>3. (edits1 + 1) * (q.volume + VolScale) = (q.edits + 1) * (q.volume + VolScale) + q.volume + VolScale
          BY <1>1, <1>9
        <4>4. /\ VolScale * (fuel + e) = VolScale * q.expected - VolScale * d + VolScale * e
              /\ VolScale * (part + d) = VolScale * part + VolScale * d
              /\ VolScale * (part + e) = VolScale * part + VolScale * e
          BY <1>1, <4>1
        <4> QED BY <1>1, <2>4, <4>1, <4>2, <4>3, <4>4
      <3> QED BY <3>1, <3>2
    <2>6. part # NoSum
      BY <1>1, <2>5
    <2> QED BY <1>1, <1>11, <1>13, <2>2, <2>4, <2>5, <2>6 DEF ExpectedOK
  <1>19. ExpectedOK(q) => ExpectedOK(r)
    BY <1>11, <1>13, <1>18 DEF ExpectedOK
  <1> QED BY <1>11, <1>12, <1>17, <1>19

\* Computing the sum again, or leaving it when a service is away: what was due stays due, and what is
\* expected is what the fuel and the delivery come to.
LEMMA RecomputedOK ==
    ASSUME NEW q \in QuoteRow, DueOK(q), NEW away \in BOOLEAN,
           litrePrice \in LitrePrices \cup {NoPriceToday}, zonePrice \in ZonePrices \cup {NoSum},
           NEW r, r = Recomputed(q, away)
    PROVE  r \in QuoteRow /\ DueOK(r) /\ ExpectedOK(r) /\ r.state = q.state /\ r.delivered = q.delivered
  <1>1. /\ q.volume \in Volumes /\ q.volume \in Nat \ {0} /\ q.final \in Sums /\ q.delivered \in Volumes \cup {0}
        /\ q.delivery \in Nat \cup {NoSum} /\ q.manualPrice \in Nat
        /\ q.lapses \in SUBSET {"typed", "away", "switched", "late"}
        /\ VolScale \in Nat \ {0} /\ NoSum \notin Int
    BY MoneyConstants DEF QuoteRow
  <1>2. CASE away
    <2>1. PICK gone \in SUBSET {"typed", "away", "switched", "late"} : gone = q.lapses \cup {"away"}
      BY <1>1
    <2>2. r = [q EXCEPT !.lapses = gone]
      BY <1>2, <2>1 DEF Recomputed
    <2>3. /\ r.state = q.state /\ r.delivered = q.delivered /\ r.volume = q.volume /\ r.lapses = gone
          /\ r.expected = q.expected /\ r.final = q.final
      BY <2>2 DEF QuoteRow
    <2>4. r \in QuoteRow
      BY <2>2 DEF QuoteRow
    <2>5. ~Untouched(r) /\ ("typed" \in q.lapses <=> "typed" \in r.lapses) /\ ("late" \in q.lapses <=> "late" \in r.lapses)
          /\ ("switched" \in q.lapses <=> "switched" \in r.lapses)
      BY <2>1, <2>3 DEF Untouched
    <2>6. DueOK(r) /\ ExpectedOK(r)
      BY <2>3, <2>5 DEF DueOK, ExpectedOK
    <2> QED BY <2>3, <2>4, <2>6
  <1>3. CASE ~away
    <2>1. PICK zone \in Nat \cup {NoSum} : zone = ZoneCost(zonePrice, q.company)
      BY ZoneCostIsNat DEF QuoteRow
    <2>2. PICK cost \in Nat \cup {NoSum} : cost = IF q.deliveryTyped \/ zone = NoSum THEN q.delivery ELSE zone
      BY <1>1
    <2>3. PICK fuel \in Sums : /\ fuel = FuelSubtotal(q, q.volume)
                               /\ Exact(q) /\ Whole(q.volume) => VolScale * fuel = q.manualPrice * q.volume
      BY SubtotalIsSum
    <2>4. PICK exact \in BOOLEAN : exact = Exact(q)
      BY DEF Exact
    <2>5. PICK sum \in Sums : /\ sum = Total(fuel, cost, q.volume, exact)
                              /\ sum # NoSum => fuel \in Int /\ sum \in Int /\ sum = OrderTotal(fuel, 1, cost, q.volume, exact)
      <3>1. CASE fuel = NoSum
        BY <3>1 DEF Total, Sums
      <3>2. CASE fuel # NoSum
        <4>1. fuel \in Int
          BY <3>2 DEF Sums
        <4>2. OrderTotal(fuel, 1, cost, q.volume, exact) \in Int
          BY <1>1, <4>1, OrderTotalOfSum
        <4> QED BY <3>2, <4>1, <4>2 DEF Total, Sums
      <3> QED BY <3>1, <3>2
    <2>6. PICK laps \in SUBSET {"typed", "away", "switched", "late"} :
              laps = IF q.final = NoSum /\ q.delivered = 0 THEN {} ELSE q.lapses \cup {"switched"}
      BY <1>1
    <2>7. PICK s : s = [q EXCEPT !.delivery = cost, !.fuel = fuel, !.edits = 0, !.expected = sum, !.lapses = laps]
      OBVIOUS
    <2>8. r = s
      <3>1. r = [q EXCEPT !.delivery = IF q.deliveryTyped \/ zone = NoSum THEN q.delivery ELSE zone,
                          !.fuel = FuelSubtotal(q, q.volume), !.edits = 0,
                          !.expected = Total(fuel, cost, q.volume, Exact(q)),
                          !.lapses = IF q.final = NoSum /\ q.delivered = 0 THEN {} ELSE @ \cup {"switched"}]
        BY <1>3, <2>1, <2>2, <2>3 DEF Recomputed, Exact
      <3> QED BY <2>2, <2>3, <2>4, <2>5, <2>6, <2>7, <3>1
    <2>9. /\ r.state = q.state /\ r.delivered = q.delivered /\ r.volume = q.volume /\ r.manualPrice = q.manualPrice
          /\ r.final = q.final /\ r.lapses = laps /\ r.delivery = cost /\ r.fuel = fuel /\ r.edits = 0 /\ r.expected = sum
      BY <2>7, <2>8 DEF QuoteRow
    <2>10. r \in QuoteRow
      <3>1. PICK z \in Nat : z = 0
        OBVIOUS
      <3>2. s = [q EXCEPT !.delivery = cost, !.fuel = fuel, !.edits = z, !.expected = sum, !.lapses = laps]
        BY <2>7, <3>1
      <3>3. s \in QuoteRow
        BY <3>2 DEF QuoteRow
      <3> QED BY <2>8, <3>3
    <2>11. Exact(r) <=> exact
      BY <2>4, <2>9 DEF Exact
    <2>12. DueOK(r)
      <3>1. CASE q.final = NoSum /\ q.delivered = 0
        BY <1>1, <2>9, <3>1 DEF DueOK
      <3>2. CASE ~(q.final = NoSum /\ q.delivered = 0)
        <4>1. laps = q.lapses \cup {"switched"}
          BY <2>6, <3>2
        <4>2. /\ "switched" \in r.lapses /\ ("typed" \in r.lapses <=> "typed" \in q.lapses)
              /\ ("late" \in r.lapses <=> "late" \in q.lapses) /\ (Untouched(r) <=> Untouched(q))
          BY <2>9, <4>1 DEF Untouched
        <4>3. ~exact => (ComesTo(r, r.final, r.delivered) <=> ComesTo(q, q.final, q.delivered))
          BY <2>4, <2>9, <2>11 DEF ComesTo
        <4> QED BY <2>4, <2>9, <2>11, <4>2, <4>3 DEF DueOK
      <3> QED BY <3>1, <3>2
    <2>13. ASSUME sum # NoSum PROVE ExpectedOK(r)
      <3>1. PICK d \in Nat : d = OrZero(cost)
        BY OrZeroIsNat
      <3>2. /\ fuel \in Int /\ sum \in Int /\ (exact <=> Exact(r)) /\ d = OrZero(r.delivery)
            /\ sum = OrderTotal(fuel, 1, r.delivery, r.volume, exact)
        BY <2>5, <2>9, <2>11, <2>13, <3>1
      <3>3. exact /\ Whole(r.volume) => VolScale * fuel = r.manualPrice * r.volume
        BY <2>3, <2>4, <2>9
      <3>4. /\ (exact => Whole(r.volume)) => ComesTo(r, sum, r.volume)
            /\ 2 * (VolScale * sum) - 2 * (VolScale * (fuel + d)) <= r.volume + VolScale
            /\ 2 * (VolScale * (fuel + d)) - 2 * (VolScale * sum) <= r.volume + VolScale
        BY <2>10, <3>2, <3>3, ComputedSum
      <3>5. fuel # NoSum /\ r.volume + VolScale = (0 + 1) * (r.volume + VolScale)
        BY <1>1, <2>9, <3>2
      <3>6. /\ 2 * (VolScale * sum) - 2 * (VolScale * (fuel + d)) <= (0 + 1) * (r.volume + VolScale)
            /\ -(2 * (VolScale * sum) - 2 * (VolScale * (fuel + d))) <= (0 + 1) * (r.volume + VolScale)
        <4>1. PICK a \in Int : a = 2 * (VolScale * sum)
          BY <1>1, <3>2
        <4>2. PICK b \in Int : b = 2 * (VolScale * (fuel + d))
          BY <1>1, <3>2
        <4>3. a - b <= r.volume + VolScale /\ -(a - b) <= r.volume + VolScale
          BY <1>1, <2>9, <3>4, <4>1, <4>2
        <4> QED BY <3>5, <4>1, <4>2, <4>3
      <3> QED BY <2>9, <3>2, <3>4, <3>5, <3>6 DEF ExpectedOK
    <2>14. sum = NoSum => ExpectedOK(r)
      BY <2>9 DEF ExpectedOK
    <2> QED BY <2>9, <2>10, <2>12, <2>13, <2>14
  <1> QED BY <1>2, <1>3

\* set_default_tariff, update_tariff, update_zone write no order.
LEMMA PricesChangeKeeps ==
    ASSUME MoneyInv, NEW p \in LitrePrices \cup {NoPriceToday}, NEW z \in ZonePrices \cup {NoSum}, PricesChange(p, z)
    PROVE  MoneyInv'
  <1>1. UNCHANGED quote /\ litrePrice' = p /\ zonePrice' = z
    BY DEF PricesChange
  <1> QED BY <1>1 DEF MoneyInv, Quoted, DueOK, ExpectedOK

\* A new order costs what its fuel and its delivery come to, and nothing is due.
LEMMA CreateKeeps ==
    ASSUME MoneyInv, NEW i \in Inputs, Create(i)
    PROVE  MoneyInv'
  <1>1. /\ i.company \in BOOLEAN /\ i.staff \in BOOLEAN /\ i.volume \in Volumes /\ i.volume \in Nat \ {0}
        /\ i.manualPrice \in ManualPrices \cup {NoPriceToday} /\ i.manualDelivery \in Deliveries \cup {NoSum}
        /\ VolScale \in Nat \ {0} /\ NoSum \notin Int
    BY MoneyConstants DEF Inputs
  <1>2. ZoneCost(zonePrice, i.company) \in Nat \cup {NoSum}
    BY <1>1, ZoneCostIsNat DEF MoneyInv
  <1>3. PICK cost \in Nat \cup {NoSum} : cost = Delivery(i)
    BY <1>1, <1>2, MoneyConstants DEF Delivery
  <1>4. litrePrice \in LitrePrices \cup {NoPriceToday}
    BY DEF MoneyInv
  <1>5. PICK exact \in BOOLEAN : exact = ByHand(i)
    BY DEF ByHand
  <1>6. PICK fuel \in Sums :
            /\ fuel = IF exact THEN ManualFuel(i.manualPrice, i.volume) ELSE TariffFuel(litrePrice, i.volume)
            /\ exact /\ Whole(i.volume) => VolScale * fuel = i.manualPrice * i.volume
    <2>1. CASE exact
      BY <1>1, <2>1, FuelIsSum DEF Sums
    <2>2. CASE ~exact
      BY <1>1, <1>4, <2>2, FuelIsSum
    <2> QED BY <2>1, <2>2
  <1>7. PICK sum \in Sums : /\ sum = Total(fuel, cost, i.volume, exact)
                            /\ sum # NoSum => fuel \in Int /\ sum \in Int /\ sum = OrderTotal(fuel, 1, cost, i.volume, exact)
    <2>1. CASE fuel = NoSum
      BY <2>1 DEF Total, Sums
    <2>2. CASE fuel # NoSum
      <3>1. fuel \in Int
        BY <2>2 DEF Sums
      <3>2. OrderTotal(fuel, 1, cost, i.volume, exact) \in Int
        BY <1>1, <3>1, OrderTotalOfSum
      <3> QED BY <2>2, <3>1, <3>2 DEF Total, Sums
    <2> QED BY <2>1, <2>2
  <1>8. PICK st \in {"awaiting", "open"} : st = IF ~i.staff /\ (~i.company \/ cost = NoSum) THEN "awaiting" ELSE "open"
    OBVIOUS
  <1>9. PICK typed \in BOOLEAN : typed = (i.manualDelivery # NoSum)
    OBVIOUS
  <1>10. PICK r : r = [state |-> st, company |-> i.company, volume |-> i.volume, delivered |-> 0,
                       delivery |-> cost, deliveryTyped |-> typed, manualPrice |-> i.manualPrice,
                       expected |-> sum, final |-> NoSum, fuel |-> fuel, edits |-> 0, lapses |-> {}]
    OBVIOUS
  <1>11. quote' = r
    BY <1>3, <1>5, <1>6, <1>7, <1>8, <1>9, <1>10 DEF Create
  <1>12. /\ r.state # "delivered" /\ r.volume = i.volume /\ r.delivered = 0 /\ r.delivery = cost
         /\ r.manualPrice = i.manualPrice /\ r.expected = sum /\ r.final = NoSum /\ r.fuel = fuel /\ r.edits = 0
    BY <1>10
  <1>13. r \in QuoteRow
    <2>1. NoSum \in Sums /\ 0 \in Nat
      BY DEF Sums
    <2> QED BY <1>1, <1>10, <2>1 DEF QuoteRow
  <1>14. DueOK(r)
    BY <1>1, <1>12 DEF DueOK
  <1>15. ASSUME sum # NoSum PROVE ExpectedOK(r)
    <2>1. PICK d \in Nat : d = OrZero(cost)
      BY OrZeroIsNat
    <2>2. /\ fuel \in Int /\ sum \in Int /\ (exact <=> Exact(r)) /\ d = OrZero(r.delivery)
          /\ sum = OrderTotal(fuel, 1, r.delivery, r.volume, exact)
      BY <1>5, <1>7, <1>12, <1>15, <2>1 DEF Exact, ByHand
    <2>3. exact /\ Whole(r.volume) => VolScale * fuel = r.manualPrice * r.volume
      BY <1>6, <1>12
    <2>4. /\ (exact => Whole(r.volume)) => ComesTo(r, sum, r.volume)
          /\ 2 * (VolScale * sum) - 2 * (VolScale * (fuel + d)) <= r.volume + VolScale
          /\ 2 * (VolScale * (fuel + d)) - 2 * (VolScale * sum) <= r.volume + VolScale
      BY <1>13, <2>2, <2>3, ComputedSum
    <2>5. fuel # NoSum /\ r.volume + VolScale = (0 + 1) * (r.volume + VolScale)
      BY <1>1, <1>12, <2>2
    <2>6. /\ 2 * (VolScale * sum) - 2 * (VolScale * (fuel + d)) <= (0 + 1) * (r.volume + VolScale)
          /\ -(2 * (VolScale * sum) - 2 * (VolScale * (fuel + d))) <= (0 + 1) * (r.volume + VolScale)
      <3>1. PICK a \in Int : a = 2 * (VolScale * sum)
        BY <1>1, <2>2
      <3>2. PICK b \in Int : b = 2 * (VolScale * (fuel + d))
        BY <1>1, <2>2
      <3>3. a - b <= r.volume + VolScale /\ -(a - b) <= r.volume + VolScale
        BY <1>1, <1>12, <2>4, <3>1, <3>2
      <3> QED BY <2>5, <3>1, <3>2, <3>3
    <2> QED BY <1>12, <2>2, <2>4, <2>5, <2>6 DEF ExpectedOK
  <1>16. sum = NoSum => ExpectedOK(r)
    BY <1>12 DEF ExpectedOK
  <1>17. UNCHANGED <<litrePrice, zonePrice>>
    BY DEF Create
  <1> QED BY <1>11, <1>13, <1>14, <1>15, <1>16, <1>17 DEF MoneyInv, DueOK, ExpectedOK

\* Of an order whose sum somebody typed little is promised.
LEMMA TypedIsFree ==
    ASSUME NEW r, "typed" \in r.lapses, r.state = "delivered" <=> r.delivered # 0,
           r.delivered # 0 /\ "late" \notin r.lapses => r.final # NoSum,
           r.delivered # 0 /\ "late" \notin r.lapses /\ "switched" \notin r.lapses => r.expected # NoSum
    PROVE  DueOK(r) /\ ExpectedOK(r)
  BY DEF DueOK, ExpectedOK, Untouched

\* Another volume is given only until the delivery, another buyer at any time.
LEMMA AnotherVolume ==
    ASSUME NEW q \in QuoteRow, DueOK(q), NEW r, r.volume \in Volumes, q.delivered # 0 => r.volume = q.volume,
           r.state = q.state, r.delivered = q.delivered, r.manualPrice = q.manualPrice, r.delivery = q.delivery,
           r.final = q.final, r.lapses = q.lapses, r.expected = q.expected
    PROVE  DueOK(r)
  <1>1. r.volume # 0
    BY MoneyConstants
  <1> QED BY <1>1 DEF DueOK, Untouched, Exact, ComesTo

\* update_order keeps what is due and what is expected, through each of the columns it writes in turn.
LEMMA UpdateKeeps ==
    ASSUME MoneyInv, NEW vol \in Volumes, NEW company \in BOOLEAN, NEW sum \in TypedSums \cup {NoSum},
           NEW cost \in Deliveries \cup {NoSum}, NEW last \in TypedSums \cup {NoSum}, NEW away \in BOOLEAN,
           Update(vol, company, sum, cost, last, away)
    PROVE  MoneyInv'
  <1> DEFINE Good(q) == q \in QuoteRow /\ DueOK(q) /\ q.state = quote.state /\ q.delivered = quote.delivered
             Same    == sum = NoSum /\ vol = quote.volume /\ company = quote.company
  <1>1. /\ Good(quote) /\ ExpectedOK(quote) /\ (quote.delivered # 0 => vol = quote.volume)
        /\ sum \in Sums /\ last \in Sums
        /\ litrePrice \in LitrePrices \cup {NoPriceToday} /\ zonePrice \in ZonePrices \cup {NoSum}
    BY MoneyConstants DEF Update, MoneyInv, Quoted, DueOK, Sums
  <1>2. PICK q1 : q1 = IF sum = NoSum THEN quote
                       ELSE [quote EXCEPT !.expected = sum, !.manualPrice = NoPriceToday, !.lapses = @ \cup {"typed"}]
    OBVIOUS
  <1>3. /\ Good(q1) /\ q1.volume = quote.volume /\ q1.company = quote.company
        /\ sum # NoSum => "typed" \in q1.lapses /\ q1.expected # NoSum
        /\ sum = NoSum => q1 = quote
    <2>1. CASE sum = NoSum
      BY <1>1, <1>2, <2>1
    <2>2. CASE sum # NoSum
      <3>1. PICK laps \in SUBSET {"typed", "away", "switched", "late"} : laps = quote.lapses \cup {"typed"}
        BY <1>1 DEF QuoteRow
      <3>2. q1 = [quote EXCEPT !.expected = sum, !.manualPrice = NoPriceToday, !.lapses = laps]
        BY <1>2, <2>2, <3>1
      <3>3. q1 \in QuoteRow
        BY <1>1, <3>2 DEF QuoteRow
      <3>4. /\ q1.state = quote.state /\ q1.delivered = quote.delivered /\ q1.final = quote.final /\ q1.expected = sum
            /\ q1.lapses = laps /\ q1.volume = quote.volume /\ q1.company = quote.company
        BY <1>1, <3>2 DEF QuoteRow
      <3>5. "typed" \in laps /\ ("late" \in laps <=> "late" \in quote.lapses)
        BY <3>1
      <3>6. /\ quote.state = "delivered" <=> quote.delivered # 0
            /\ quote.delivered # 0 /\ "late" \notin quote.lapses => quote.final # NoSum
        BY <1>1 DEF DueOK
      <3>7. DueOK(q1)
        BY <2>2, <3>4, <3>5, <3>6, TypedIsFree
      <3> QED BY <2>2, <3>3, <3>4, <3>5, <3>7
    <2> QED BY <2>1, <2>2
  <1>4. PICK q2 : q2 = [q1 EXCEPT !.volume = vol, !.company = company]
    OBVIOUS
  <1>5. /\ Good(q2) /\ q2.lapses = q1.lapses /\ q2.expected = q1.expected
        /\ Same => q2 = quote
    <2>1. q1 \in QuoteRow /\ DueOK(q1) /\ (q1.delivered # 0 => vol = q1.volume)
      BY <1>1, <1>3
    <2>2. /\ q2.state = q1.state /\ q2.delivered = q1.delivered /\ q2.volume = vol /\ q2.manualPrice = q1.manualPrice
          /\ q2.delivery = q1.delivery /\ q2.final = q1.final /\ q2.lapses = q1.lapses /\ q2.expected = q1.expected
      BY <1>4, <2>1 DEF QuoteRow
    <2>3. q2 \in QuoteRow
      BY <1>4, <2>1 DEF QuoteRow
    <2>4. DueOK(q2)
      BY <2>1, <2>2, AnotherVolume
    <2>5. ASSUME Same PROVE q2 = quote
      <3>1. q2 = [quote EXCEPT !.volume = quote.volume, !.company = quote.company]
        BY <1>3, <1>4, <2>5
      <3> QED BY <1>1, <3>1 DEF QuoteRow
    <2> QED BY <1>3, <2>2, <2>3, <2>4, <2>5
  <1>6. PICK q3 : q3 = IF cost = NoSum THEN q2 ELSE WithDelivery(q2, cost, away)
    OBVIOUS
  <1>7. /\ Good(q3) /\ q3.lapses = q2.lapses
        /\ Same => ExpectedOK(q3)
    <2>1. CASE cost = NoSum
      BY <1>1, <1>5, <1>6, <2>1
    <2>2. CASE cost # NoSum
      <3>1. q2 \in QuoteRow /\ DueOK(q2) /\ cost \in Deliveries /\ q3 = WithDelivery(q2, cost, away)
        BY <1>5, <1>6, <2>2
      <3>2. /\ q3 \in QuoteRow /\ DueOK(q3) /\ (ExpectedOK(q2) => ExpectedOK(q3))
            /\ q3.state = q2.state /\ q3.delivered = q2.delivered /\ q3.lapses = q2.lapses
        BY <1>1, <3>1, WithDeliveryOK
      <3> QED BY <1>1, <1>5, <3>2
    <2> QED BY <2>1, <2>2
  <1>8. PICK q4 : q4 = IF cost # NoSum /\ sum # NoSum THEN [q3 EXCEPT !.expected = sum] ELSE q3
    OBVIOUS
  <1>9. Good(q4) /\ (sum # NoSum => ExpectedOK(q4)) /\ (sum = NoSum => q4 = q3)
    <2>1. CASE sum = NoSum
      BY <1>7, <1>8, <2>1
    <2>2. CASE sum # NoSum
      <3>1. PICK q : q = [q3 EXCEPT !.expected = sum]
        OBVIOUS
      <3>2. q \in QuoteRow
        BY <1>1, <1>7, <3>1 DEF QuoteRow
      <3>3. /\ q.state = q3.state /\ q.delivered = q3.delivered /\ q.final = q3.final /\ q.lapses = q3.lapses
            /\ q.expected = sum
        BY <1>1, <1>7, <3>1 DEF QuoteRow
      <3>4. /\ q3.state = "delivered" <=> q3.delivered # 0
            /\ q3.delivered # 0 /\ "late" \notin q3.lapses => q3.final # NoSum
            /\ q3.delivered # 0 /\ "late" \notin q3.lapses /\ "switched" \notin q3.lapses => q3.expected # NoSum
            /\ "typed" \in q3.lapses
        BY <1>3, <1>5, <1>7, <2>2 DEF DueOK
      <3>5. DueOK(q) /\ ExpectedOK(q)
        BY <2>2, <3>3, <3>4, TypedIsFree
      <3>6. ExpectedOK(q3)
        BY <3>4, TypedIsFree
      <3>7. q4 = q \/ q4 = q3
        BY <1>8, <3>1
      <3> QED BY <1>7, <2>2, <3>2, <3>3, <3>5, <3>6, <3>7
    <2> QED BY <2>1, <2>2
  <1>10. PICK q5 : q5 = IF sum = NoSum /\ (vol # quote.volume \/ company # quote.company) THEN Recomputed(q4, away) ELSE q4
    OBVIOUS
  <1>11. Good(q5) /\ ExpectedOK(q5)
    <2>1. CASE sum = NoSum /\ (vol # quote.volume \/ company # quote.company)
      <3>1. q4 \in QuoteRow /\ DueOK(q4) /\ q5 = Recomputed(q4, away)
        BY <1>9, <1>10, <2>1
      <3>2. q5 \in QuoteRow /\ DueOK(q5) /\ ExpectedOK(q5) /\ q5.state = q4.state /\ q5.delivered = q4.delivered
        BY <1>1, <3>1, RecomputedOK
      <3> QED BY <1>9, <3>2
    <2>2. CASE ~(sum = NoSum /\ (vol # quote.volume \/ company # quote.company))
      BY <1>7, <1>9, <1>10, <2>2
    <2> QED BY <2>1, <2>2
  <1>12. PICK q6 : q6 = IF last = NoSum THEN q5 ELSE [q5 EXCEPT !.final = last, !.lapses = @ \cup {"typed"}]
    OBVIOUS
  <1>13. Good(q6) /\ ExpectedOK(q6)
    <2>1. CASE last = NoSum
      BY <1>11, <1>12, <2>1
    <2>2. CASE last # NoSum
      <3>1. PICK laps \in SUBSET {"typed", "away", "switched", "late"} : laps = q5.lapses \cup {"typed"}
        BY <1>11 DEF QuoteRow
      <3>2. q6 = [q5 EXCEPT !.final = last, !.lapses = laps]
        BY <1>12, <2>2, <3>1
      <3>3. q6 \in QuoteRow
        BY <1>1, <1>11, <3>2 DEF QuoteRow
      <3>4. /\ q6.state = q5.state /\ q6.delivered = q5.delivered /\ q6.final = last /\ q6.expected = q5.expected
            /\ q6.lapses = laps
        BY <1>11, <3>2 DEF QuoteRow
      <3>5. "typed" \in laps /\ ("late" \in laps <=> "late" \in q5.lapses) /\ ("switched" \in laps <=> "switched" \in q5.lapses)
        BY <3>1
      <3>6. /\ q5.state = "delivered" <=> q5.delivered # 0
            /\ q5.delivered # 0 /\ "late" \notin q5.lapses /\ "switched" \notin q5.lapses => q5.expected # NoSum
        BY <1>11 DEF DueOK
      <3>7. DueOK(q6) /\ ExpectedOK(q6)
        BY <2>2, <3>4, <3>5, <3>6, TypedIsFree
      <3> QED BY <1>11, <3>3, <3>4, <3>7
    <2> QED BY <2>1, <2>2
  <1>14. quote' = q6 /\ UNCHANGED <<litrePrice, zonePrice>>
    BY <1>2, <1>4, <1>6, <1>8, <1>10, <1>12 DEF Update
  <1>15. q6 \in QuoteRow /\ DueOK(q6) /\ ExpectedOK(q6)
    BY <1>13
  <1> QED BY <1>1, <1>14, <1>15 DEF MoneyInv, DueOK, ExpectedOK

\* AWAITING_MANAGER -> NEW computes a sum that was not, of an order that nothing is due for.
LEMMA ApproveKeeps ==
    ASSUME MoneyInv, NEW away \in BOOLEAN, Approve(away)
    PROVE  MoneyInv'
  <1>1. /\ quote \in QuoteRow /\ DueOK(quote) /\ ExpectedOK(quote) /\ quote.state = "awaiting"
        /\ litrePrice \in LitrePrices \cup {NoPriceToday} /\ zonePrice \in ZonePrices \cup {NoSum}
    BY DEF Approve, MoneyInv, Quoted
  <1>2. PICK q : q = IF quote.expected = NoSum THEN Recomputed(quote, away) ELSE quote
    OBVIOUS
  <1>3. q \in QuoteRow /\ DueOK(q) /\ ExpectedOK(q) /\ q.state = quote.state
    <2>1. CASE quote.expected = NoSum
      BY <1>1, <1>2, <2>1, RecomputedOK
    <2>2. CASE quote.expected # NoSum
      BY <1>1, <1>2, <2>2
    <2> QED BY <2>1, <2>2
  <1>4. PICK r : r = [q EXCEPT !.state = "open"]
    OBVIOUS
  <1>5. quote' = r /\ UNCHANGED <<litrePrice, zonePrice>>
    BY <1>2, <1>4 DEF Approve
  <1>6. /\ r \in QuoteRow /\ r.state = "open" /\ r.volume = q.volume /\ r.delivered = q.delivered /\ r.delivery = q.delivery
        /\ r.manualPrice = q.manualPrice /\ r.expected = q.expected /\ r.final = q.final /\ r.fuel = q.fuel
        /\ r.edits = q.edits /\ r.lapses = q.lapses
    BY <1>3, <1>4 DEF QuoteRow
  <1>7. DueOK(r)
    BY <1>1, <1>3, <1>6 DEF DueOK, Untouched, Exact, ComesTo
  <1>8. ExpectedOK(r)
    BY <1>3, <1>6 DEF ExpectedOK, Untouched, Exact, ComesTo
  <1> QED BY <1>1, <1>5, <1>6, <1>7, <1>8 DEF MoneyInv, DueOK, ExpectedOK

\* ACCEPTED -> DELIVERED: the volume as ordered costs what was expected, another volume what a litre
\* of that sum costs; without a sum, today's tariff, which is noted.
LEMMA DeliverKeeps ==
    ASSUME MoneyInv, NEW vol \in Volumes, Deliver(vol)
    PROVE  MoneyInv'
  <1>1. quote \in QuoteRow /\ DueOK(quote) /\ ExpectedOK(quote) /\ quote.state = "open"
    BY DEF Deliver, MoneyInv, Quoted
  <1>2. /\ quote.expected \in Sums /\ quote.final \in Sums /\ quote.delivery \in Nat \cup {NoSum}
        /\ quote.volume \in Volumes /\ quote.volume \in Nat \ {0} /\ vol \in Nat \ {0} /\ VolScale \in Nat \ {0}
        /\ quote.manualPrice \in Nat /\ NoSum \notin Int
        /\ quote.lapses \in SUBSET {"typed", "away", "switched", "late"}
        /\ litrePrice \in LitrePrices \cup {NoPriceToday}
    BY <1>1, MoneyConstants DEF QuoteRow, MoneyInv
  <1>3. PICK exact \in BOOLEAN : exact = Exact(quote)
    BY DEF Exact
  <1>4. PICK d \in Nat : d = OrZero(quote.delivery)
    BY <1>2, OrZeroIsNat
  <1>5. PICK part \in Int : part = IF quote.expected # NoSum THEN (quote.expected - d) * vol ELSE 0
    <2>1. quote.expected # NoSum => quote.expected \in Int
      BY <1>2 DEF Sums
    <2>2. quote.expected \in Int => (quote.expected - d) * vol \in Int
      BY <1>2
    <2> QED BY <2>1, <2>2
  <1>6. OrderTotal(part, quote.volume, quote.delivery, vol, exact) \in Int
    BY <1>2, OrderTotals
  <1>7. Total(TariffFuel(litrePrice, vol), quote.delivery, vol, exact) \in Sums
    <2>1. PICK fuel \in Sums : fuel = TariffFuel(litrePrice, vol)
      BY <1>2, FuelIsSum
    <2>2. fuel # NoSum => OrderTotal(fuel, 1, quote.delivery, vol, exact) \in Int
      <3>1. fuel # NoSum => fuel \in Int
        BY DEF Sums
      <3> QED BY <1>2, <3>1, OrderTotalOfSum
    <2> QED BY <2>1, <2>2 DEF Total, Sums
  <1>8. PICK sum \in Sums : sum = IF quote.expected = NoSum THEN Total(TariffFuel(litrePrice, vol), quote.delivery, vol, exact)
                                  ELSE IF vol = quote.volume THEN quote.expected
                                  ELSE OrderTotal(part, quote.volume, quote.delivery, vol, exact)
    BY <1>2, <1>6, <1>7 DEF Sums
  <1>9. sum = FinalAmount(quote, vol)
    BY <1>3, <1>4, <1>5, <1>8 DEF FinalAmount, Exact
  <1>10. PICK final \in Sums : final = IF sum = NoSum THEN quote.final ELSE sum
    BY <1>2
  <1>11. PICK laps \in SUBSET {"typed", "away", "switched", "late"} :
             laps = IF quote.expected = NoSum THEN quote.lapses \cup {"late"} ELSE quote.lapses
    BY <1>2
  <1>12. PICK r : r = [quote EXCEPT !.state = "delivered", !.delivered = vol, !.final = final, !.lapses = laps]
    OBVIOUS
  <1>13. quote' = r /\ UNCHANGED <<litrePrice, zonePrice>>
    BY <1>9, <1>10, <1>11, <1>12 DEF Deliver
  <1>14. /\ r.state = "delivered" /\ r.delivered = vol /\ r.final = final /\ r.lapses = laps
         /\ r.volume = quote.volume /\ r.delivery = quote.delivery /\ r.manualPrice = quote.manualPrice
         /\ r.expected = quote.expected /\ r.fuel = quote.fuel /\ r.edits = quote.edits
    BY <1>1, <1>12 DEF QuoteRow
  <1>15. r \in QuoteRow
    BY <1>1, <1>12 DEF QuoteRow
  <1>16. /\ "late" \notin laps => quote.expected # NoSum /\ laps = quote.lapses /\ final = sum /\ sum # NoSum
         /\ Untouched(r) => Untouched(quote)
         /\ quote.expected # NoSum => laps = quote.lapses
    BY <1>2, <1>6, <1>8, <1>10, <1>11, <1>14 DEF Untouched
  <1>17. ExpectedOK(r)
    BY <1>1, <1>14, <1>16 DEF ExpectedOK, Exact, ComesTo
  <1>18. ASSUME "late" \notin laps, Untouched(r), exact => Whole(quote.volume) /\ Whole(vol) PROVE ComesTo(r, final, vol)
    <2>1. ComesTo(quote, quote.expected, quote.volume) /\ quote.expected \in Int /\ final = sum
      BY <1>1, <1>2, <1>3, <1>16, <1>18 DEF ExpectedOK, Sums
    <2>2. CASE vol = quote.volume
      BY <1>8, <1>14, <1>16, <1>18, <2>1, <2>2 DEF ComesTo, Exact
    <2>3. CASE vol # quote.volume
      <3>1. final = OrderTotal(part, quote.volume, quote.delivery, vol, exact)
        BY <1>8, <1>16, <1>18, <2>1, <2>3
      <3>2. CASE ~exact
        <4>1. LET total == OrderTotal(part, quote.volume, quote.delivery, vol, exact) IN PriceFirst(total, vol) = total
          BY <1>2, <3>2, OrderTotals
        <4> QED BY <1>3, <1>14, <3>1, <3>2, <4>1 DEF ComesTo, Exact
      <3>3. CASE exact
        <4>1. final = HalfUp(part + quote.volume * d, quote.volume)
          <5>1. OrderTotal(part, quote.volume, quote.delivery, vol, exact)
                    = HalfUp(part + quote.volume * OrZero(quote.delivery), quote.volume)
            BY <3>3 DEF OrderTotal
          <5> QED BY <1>4, <3>1, <5>1
        <4>2. PICK j \in Int : vol = VolScale * j
          <5>1. vol % VolScale = 0 /\ vol \in Int /\ VolScale \in Nat \ {0}
            BY <1>2, <1>18, <3>3 DEF Whole
          <5> QED BY <5>1, NoRemainder
        <4>3. VolScale * quote.expected = quote.manualPrice * quote.volume + VolScale * d
          BY <1>3, <1>4, <2>1, <3>3 DEF ComesTo
        <4>4. part = (quote.expected - d) * vol
          BY <1>5, <1>16, <1>18
        <4>5. part = (quote.manualPrice * quote.volume) * j
          <5>1. part = (VolScale * quote.expected - VolScale * d) * j
            BY <1>2, <2>1, <4>2, <4>4
          <5>2. VolScale * quote.expected - VolScale * d = quote.manualPrice * quote.volume
            BY <1>2, <2>1, <4>3
          <5> QED BY <5>1, <5>2
        <4>6. PICK f \in Int : f = quote.manualPrice * j + d
          BY <1>2
        <4>7. part + quote.volume * d = quote.volume * f
          BY <1>2, <4>5, <4>6
        <4>8. final = f
          BY <1>2, <4>1, <4>6, <4>7, RoundingExact
        <4>9. VolScale * f = quote.manualPrice * vol + VolScale * d
          BY <1>2, <4>2, <4>6
        <4> QED BY <1>3, <1>4, <1>14, <3>3, <4>8, <4>9 DEF ComesTo, Exact
      <3> QED BY <3>2, <3>3
    <2> QED BY <2>2, <2>3
  <1>19. vol = quote.volume /\ "late" \notin laps => final = quote.expected
    BY <1>8, <1>16
  <1>20. DueOK(r)
    <2>1. Exact(r) <=> exact
      BY <1>3, <1>14 DEF Exact
    <2>2. vol # 0
      BY <1>2
    <2>3. Untouched(r) /\ r.final # NoSum /\ "late" \notin r.lapses
          /\ (Exact(r) => "switched" \notin r.lapses /\ Whole(r.volume) /\ Whole(r.delivered)) => ComesTo(r, r.final, r.delivered)
      BY <1>14, <1>18, <2>1
    <2>4. /\ "late" \notin r.lapses => r.final # NoSum /\ r.expected # NoSum
          /\ r.delivered = r.volume /\ "late" \notin r.lapses => r.final = r.expected
      BY <1>14, <1>16, <1>19
    <2> QED BY <1>14, <2>2, <2>3, <2>4 DEF DueOK
  <1> QED BY <1>2, <1>13, <1>15, <1>17, <1>20 DEF MoneyInv, DueOK, ExpectedOK

\* Money: what is due and expected is kept from the start by every step.
LEMMA MoneyStart == MoneyInit => MoneyInv
  BY DEF MoneyInit, MoneyInv, Quoted

\* Every step keeps the invariant of the sums.
LEMMA MoneyStep == MoneyInv /\ [MoneyNext]_moneyVars => MoneyInv'
  <1> SUFFICES ASSUME MoneyInv, [MoneyNext]_moneyVars PROVE MoneyInv'
    OBVIOUS
  <1>1. ASSUME UNCHANGED <<quote, litrePrice, zonePrice>> PROVE MoneyInv'
    BY <1>1 DEF MoneyInv, Quoted, DueOK, ExpectedOK
  <1>2. ASSUME NEW i \in Inputs, Preview(i) PROVE MoneyInv'
    BY <1>1, <1>2 DEF Preview
  <1>3. CASE UNCHANGED moneyVars
    BY <1>1, <1>3 DEF moneyVars
  <1>4. ASSUME NEW p \in LitrePrices \cup {NoPriceToday}, NEW z \in ZonePrices \cup {NoSum}, PricesChange(p, z) PROVE MoneyInv'
    BY <1>4, PricesChangeKeeps
  <1>5. ASSUME NEW i \in Inputs, Create(i) PROVE MoneyInv'
    BY <1>5, CreateKeeps
  <1>6. ASSUME NEW vol \in Volumes, NEW company \in BOOLEAN, NEW sum \in TypedSums \cup {NoSum},
               NEW last \in TypedSums \cup {NoSum}, NEW cost \in Deliveries \cup {NoSum}, NEW away \in BOOLEAN,
               Update(vol, company, sum, cost, last, away)
        PROVE  MoneyInv'
    BY <1>6, UpdateKeeps
  <1>7. ASSUME NEW away \in BOOLEAN, Approve(away) PROVE MoneyInv'
    BY <1>7, ApproveKeeps
  <1>8. ASSUME NEW vol \in Volumes, Deliver(vol) PROVE MoneyInv'
    BY <1>8, DeliverKeeps
  <1> QED BY <1>2, <1>3, <1>4, <1>5, <1>6, <1>7, <1>8 DEF MoneyNext

\* What is kept of a row says what the invoice asks for, how far the sum drifts, and that the terms hold.
LEMMA SumsAreOK == MoneyInv => MoneyTypeOK /\ InvoiceAgrees /\ DriftBounded /\ FinalKeepsTerms
  <1> SUFFICES ASSUME MoneyInv, Quoted PROVE MoneyTypeOK /\ InvoiceAgrees /\ DriftBounded /\ FinalKeepsTerms
    BY DEF MoneyTypeOK, InvoiceAgrees, DriftBounded, FinalKeepsTerms
  <1>1. quote \in QuoteRow /\ DueOK(quote) /\ ExpectedOK(quote)
    BY DEF MoneyInv, Quoted
  <1>2. /\ quote.expected \in Sums /\ quote.final \in Sums /\ quote.delivery \in Nat \cup {NoSum} /\ quote.fuel \in Sums
        /\ quote.volume \in Volumes /\ quote.volume \in Nat \ {0} /\ quote.delivered \in Volumes \cup {0}
        /\ VolScale \in Nat \ {0} /\ quote.edits \in Nat
        /\ quote.manualPrice \in Nat /\ NoSum \notin Int /\ \A v \in Volumes : v \in Nat \ {0}
    BY <1>1, MoneyConstants DEF QuoteRow
  <1>3. MoneyTypeOK
    BY <1>1, <1>2 DEF MoneyTypeOK, DueOK, Sums
  <1>4. /\ ~Lapsed({"typed", "away", "late"}) => Untouched(quote) /\ "late" \notin quote.lapses
        /\ ~Lapsed({"switched"}) => "switched" \notin quote.lapses
        /\ ~Lapsed({"typed", "away"}) => Untouched(quote)
        /\ ~Lapsed({"typed", "switched", "late"}) =>
               "typed" \notin quote.lapses /\ "switched" \notin quote.lapses /\ "late" \notin quote.lapses
    BY DEF Lapsed, Untouched
  <1>5. FinalKeepsTerms
    BY <1>1, <1>4 DEF FinalKeepsTerms, DueOK
  <1>6. ASSUME quote.expected # NoSum, ~Lapsed({"typed", "away"})
        PROVE  2 * VolScale * Distance(quote.expected, quote.fuel + OrZero(quote.delivery))
                   <= (quote.edits + 1) * (quote.volume + VolScale)
    <2>1. PICK d \in Nat : d = OrZero(quote.delivery)
      BY <1>2, OrZeroIsNat
    <2>2. quote.expected \in Int /\ quote.fuel \in Int
      BY <1>1, <1>2, <1>4, <1>6 DEF ExpectedOK, Sums
    <2>3. PICK b \in Int : b = quote.fuel + d
      BY <2>2
    <2>4. PICK bound \in Int : bound = (quote.edits + 1) * (quote.volume + VolScale)
      BY <1>2
    <2>5. /\ 2 * (VolScale * quote.expected) - 2 * (VolScale * b) <= bound
          /\ -(2 * (VolScale * quote.expected) - 2 * (VolScale * b)) <= bound
      BY <1>1, <1>4, <1>6, <2>1, <2>3, <2>4 DEF ExpectedOK
    <2>6. /\ 2 * VolScale * (quote.expected - b) = 2 * (VolScale * quote.expected) - 2 * (VolScale * b)
          /\ 2 * VolScale * (b - quote.expected) = -(2 * (VolScale * quote.expected) - 2 * (VolScale * b))
      BY <1>2, <2>2
    <2>7. 2 * VolScale * Distance(quote.expected, b) <= bound
      BY <2>5, <2>6 DEF Distance
    <2> QED BY <2>1, <2>3, <2>4, <2>7
  <1>7. DriftBounded
    BY <1>6 DEF DriftBounded
  <1>8. ASSUME OrderAmount(quote) # NoSum, ~Lapsed({"typed", "away", "late"}),
               Exact(quote) => ~Lapsed({"switched"}) /\ Whole(quote.volume) /\ Whole(InvoiceVolume(quote))
        PROVE  InvoiceTotal(quote) = OrderAmount(quote)
    <2>1. PICK iv \in Volumes : iv = InvoiceVolume(quote)
      BY <1>2 DEF InvoiceVolume
    <2>2. PICK sum \in Int : sum = OrderAmount(quote)
      BY <1>2, <1>8 DEF OrderAmount, Sums
    <2>3. ComesTo(quote, sum, iv)
      <3>1. CASE quote.final # NoSum
        <4>1. quote.delivered # 0 /\ iv = quote.delivered /\ sum = quote.final
          BY <1>1, <1>4, <1>8, <2>1, <2>2, <3>1 DEF DueOK, Untouched, InvoiceVolume, OrderAmount
        <4>2. Exact(quote) => "switched" \notin quote.lapses /\ Whole(quote.volume) /\ Whole(quote.delivered)
          BY <1>4, <1>8, <2>1, <4>1
        <4> QED BY <1>1, <1>4, <1>8, <3>1, <4>1, <4>2 DEF DueOK
      <3>2. CASE quote.final = NoSum
        <4>1. quote.delivered = 0 /\ iv = quote.volume /\ sum = quote.expected /\ quote.expected # NoSum
          BY <1>1, <1>4, <1>8, <2>1, <2>2, <3>2 DEF DueOK, InvoiceVolume, OrderAmount
        <4> QED BY <1>1, <1>4, <1>8, <4>1 DEF ExpectedOK
      <3> QED BY <3>1, <3>2
    <2>4. CASE Exact(quote)
      <3>1. PICK d \in Nat : d = OrZero(quote.delivery)
        BY <1>2, OrZeroIsNat
      <3>2. iv \in Nat \ {0} /\ iv % VolScale = 0
        BY <1>2, <1>8, <2>1, <2>4 DEF Whole
      <3>3. PICK k \in Int : iv = VolScale * k
        <4>1. iv \in Int /\ VolScale \in Nat \ {0}
          BY <1>2, <3>2
        <4> QED BY <3>2, <4>1, NoRemainder
      <3>4. VolScale * sum = quote.manualPrice * iv + VolScale * d
        BY <2>3, <2>4, <3>1 DEF ComesTo
      <3>5. PICK f \in Int : f = quote.manualPrice * k
        BY <1>2
      <3>6. quote.manualPrice * iv = VolScale * f
        BY <1>2, <3>3, <3>5
      <3>7. HalfUp(quote.manualPrice * iv, VolScale) = f
        BY <1>2, <3>6, RoundingExact
      <3>8. sum = f + d
        <4>1. PICK x \in Int : x = f + d
          OBVIOUS
        <4>2. VolScale * sum = VolScale * x
          BY <1>2, <3>4, <3>6, <4>1
        <4>3. HalfUp(VolScale * sum, VolScale) = sum /\ HalfUp(VolScale * x, VolScale) = x
          BY <1>2, RoundingExact
        <4> QED BY <4>1, <4>2, <4>3
      <3> QED BY <2>1, <2>2, <2>4, <3>1, <3>7, <3>8 DEF InvoiceTotal, ManualLinesAgree, Exact
    <2>5. CASE ~Exact(quote)
      BY <2>1, <2>2, <2>3, <2>5 DEF InvoiceTotal, ManualLinesAgree, Exact, ComesTo
    <2> QED BY <2>4, <2>5
  <1>9. InvoiceAgrees
    BY <1>8 DEF InvoiceAgrees, Exact, Whole
  <1> QED BY <1>3, <1>5, <1>7, <1>9

-----------------------------------------------------------------------------
(* The office: a step of it is a step of each part, or leaves it as it is *)

officeVars == <<officeFocus, paperVars, priceVars>>

\* Every step of the office is one that the proofs of its parts know.
LEMMA OfficeSteps ==
    ASSUME [PaperworkNext]_officeVars
    PROVE  /\ [DocsNext]_docVars /\ [ConNext]_contractVars /\ [ObjectsNext]_objectVars /\ [SellersNext]_sellerVars
           /\ [CatalogueNext]_catalogueVars /\ [TariffsNext]_tariffVars /\ [MoneyNext]_moneyVars
  <1>1. CASE PaperworkNext
    BY <1>1 DEF PaperworkNext, priceVars, paperVars
  <1>2. CASE UNCHANGED officeVars
    BY <1>2 DEF officeVars, priceVars, paperVars
  <1> QED BY <1>1, <1>2

\* The contracts of the office are those that the theorems above are about.
LEMMA OfficeKeepsContracts == PaperworkSpec => ConSpec
  <1>1. PaperworkInit => ConInit
    BY DEF PaperworkInit
  <1>2. [PaperworkNext]_officeVars => [ConNext]_contractVars
    BY OfficeSteps
  <1> QED BY <1>1, <1>2, PTL DEF PaperworkSpec, ConSpec, officeVars

\* contract_service: whatever requests of the staff, orders and regenerations cross, there is one
\* active contract for a client and an organization, and its PDF says what the contract says.
THEOREM ContractsAreOK == PaperworkSpec => []ContractsOK
  <1>1. OneActivePerPair /\ FileSaysContract => ContractsOK
    BY DEF ContractsOK
  <1> QED BY <1>1, OfficeKeepsContracts, OneContractPerPair, FilesSayContracts, PTL

\* client_object_service, legal_entity_service, fuel_type_service: a client has no more addresses than
\* the cap and each keeps the contact that an order gave last; the seller's history has no gap and
\* one open version; the names of fuels are those of the catalogue between edits.
THEOREM DirectoriesAreOK == PaperworkSpec => []DirectoriesOK
  <1> DEFINE Inv == ObjectsInv /\ SellersInv /\ CatalogueInv
  <1>1. PaperworkInit => Inv
    BY ObjectsStart, SellersStart, CatalogueStart DEF PaperworkInit
  <1>2. Inv /\ [PaperworkNext]_officeVars => Inv'
    BY OfficeSteps, ObjectsStep, SellersStep, CatalogueStep
  <1>3. Inv => DirectoriesOK
    BY OneIsOpen, NamesAreFresh DEF DirectoriesOK, ObjectsInv, SellersInv
  <1> QED BY <1>1, <1>2, <1>3, PTL DEF PaperworkSpec, officeVars

\* tariff_service: a type of client has one default tariff at most, which can be used; a tariff with
\* prices of its own prices some fuel; and the journal of the prices replays to those that hold.
THEOREM TariffsStayOK == PaperworkSpec => []TariffsOK
  <1>1. PaperworkInit => TariffsInv
    BY TariffsStart DEF PaperworkInit
  <1>2. TariffsInv /\ [PaperworkNext]_officeVars => TariffsInv'
    BY OfficeSteps, TariffsStep
  <1>3. TariffsInv => TariffsOK
    BY TariffsAreOK DEF TariffsOK
  <1> QED BY <1>1, <1>2, <1>3, PTL DEF PaperworkSpec, officeVars

\* preview_price and create_order, which compute apart: an order costs what the form has shown.
THEOREM FormIsCharged == PaperworkSpec => PreviewIsCharged
  <1> DEFINE Agrees == ~Quoted /\ preview # NoQuote /\ quote' # NoQuote => quote'.expected = preview.total
  <1>1. PaperworkInit => FormInv
    BY DEF PaperworkInit, MoneyInit, FormInv
  <1>2. FormInv /\ [PaperworkNext]_officeVars => FormInv' /\ [Agrees]_moneyVars
    BY OfficeSteps, FormStep
  <1> QED BY <1>1, <1>2, PTL DEF PaperworkSpec, officeVars, PreviewIsCharged

\* document_service: whatever requests for an order cross, it has one invoice, which says what the
\* order came to when it was last written.
THEOREM InvoicesStayOK == PaperworkSpec => []InvoicesOK
  <1>1. PaperworkInit => DocsInv
    BY DocsStart DEF PaperworkInit
  <1>2. DocsInv /\ [PaperworkNext]_officeVars => DocsInv'
    BY OfficeSteps, DocsStep
  <1>3. DocsInv => InvoicesOK
    BY DocsAreOK DEF InvoicesOK
  <1> QED BY <1>1, <1>2, <1>3, PTL DEF PaperworkSpec, officeVars

\* document_service: an invoice marked as sent was received, and what a client receives is its own.
THEOREM DispatchStaysOK == PaperworkSpec => []DispatchOK
  <1>1. PaperworkInit => DocsInv
    BY DocsStart DEF PaperworkInit
  <1>2. DocsInv /\ [PaperworkNext]_officeVars => DocsInv'
    BY OfficeSteps, DocsStep
  <1>3. DocsInv => DispatchOK
    BY DocsAreOK DEF DispatchOK
  <1> QED BY <1>1, <1>2, <1>3, PTL DEF PaperworkSpec, officeVars

\* money, pricing_service and where order_service uses them: the invoice asks for the sum of the order to
\* the kopeck, the sum stays near to its parts, and the delivery keeps the terms, at any prices and volumes.
THEOREM SumsStayOK == PaperworkSpec => []SumsKept
  <1>1. PaperworkInit => MoneyInv
    BY MoneyStart DEF PaperworkInit
  <1>2. MoneyInv /\ [PaperworkNext]_officeVars => MoneyInv'
    BY OfficeSteps, MoneyStep
  <1>3. MoneyInv => SumsKept
    BY SumsAreOK DEF SumsKept
  <1> QED BY <1>1, <1>2, <1>3, PTL DEF PaperworkSpec, officeVars

\* The rows of the office keep their types.
THEOREM PapersAreTyped == PaperworkSpec => []PaperworkTypeOK
  <1> DEFINE Inv == DocsInv /\ ObjectsInv /\ SellersInv /\ CatalogueInv /\ TariffsInv /\ MoneyInv
  <1>1. PaperworkInit => Inv
    BY DocsStart, ObjectsStart, SellersStart, CatalogueStart, TariffsStart, MoneyStart DEF PaperworkInit
  <1>2. Inv /\ [PaperworkNext]_officeVars => Inv'
    BY OfficeSteps, DocsStep, ObjectsStep, SellersStep, CatalogueStep, TariffsStep, MoneyStep
  <1>3. Inv /\ ConTypeOK => PaperworkTypeOK
    BY SumsAreOK DEF PaperworkTypeOK, DocsInv, DocTypes, ObjectsInv, SellersInv, CatalogueInv, TariffsInv, TariffTypes
  <1>4. PaperworkSpec => []ConTypeOK
    BY OfficeKeepsContracts, ContractsAreTyped, PTL
  <1> QED BY <1>1, <1>2, <1>3, <1>4, PTL DEF PaperworkSpec, officeVars
=============================================================================
