------------------------------- MODULE MCPaperwork -------------------------------
(* The office of order_service: its papers, the directories they are written from,
   the tariffs, and the sums of an order at whatever prices they give.  The parts
   share no row, so a behaviour is about one of them at a time.                    *)
EXTENDS Documents, Contracts, ClientObjects, Sellers, Catalogue, Tariffs, Money, TLC

VARIABLE officeFocus   \* the part that a behaviour is about

paperVars == <<docVars, contractVars, objectVars, sellerVars, catalogueVars>>
priceVars == <<tariffVars, moneyVars>>

\* The parts share their model values, so that two permutations serve them all.
PaperworkSymmetry == Permutations(Orders) \cup Permutations(DocRequests)

PaperworkInit ==
    /\ officeFocus \in {"documents", "contracts", "objects", "sellers", "catalogue",
                        "tariffs", "sums"}
    /\ DocsInit /\ ConInit /\ ObjectsInit /\ SellersInit /\ CatalogueInit
    /\ TariffsInit /\ MoneyInit

PaperworkNext ==
    /\ UNCHANGED officeFocus
    /\ \/ /\ officeFocus = "documents" /\ DocsNext
          /\ UNCHANGED <<contractVars, objectVars, sellerVars, catalogueVars, priceVars>>
       \/ /\ officeFocus = "contracts" /\ ConNext
          /\ UNCHANGED <<docVars, objectVars, sellerVars, catalogueVars, priceVars>>
       \/ /\ officeFocus = "objects" /\ ObjectsNext
          /\ UNCHANGED <<docVars, contractVars, sellerVars, catalogueVars, priceVars>>
       \/ /\ officeFocus = "sellers" /\ SellersNext
          /\ UNCHANGED <<docVars, contractVars, objectVars, catalogueVars, priceVars>>
       \/ /\ officeFocus = "catalogue" /\ CatalogueNext
          /\ UNCHANGED <<docVars, contractVars, objectVars, sellerVars, priceVars>>
       \/ /\ officeFocus = "tariffs" /\ TariffsNext
          /\ UNCHANGED <<paperVars, moneyVars>>
       \/ /\ officeFocus = "sums" /\ MoneyNext
          /\ UNCHANGED <<paperVars, tariffVars>>

PaperworkSpec == PaperworkInit /\ [][PaperworkNext]_<<officeFocus, paperVars, priceVars>>

(* Every row of the seven parts is of its type. *)
PaperworkTypeOK ==
    /\ DocsTypeOK /\ ConTypeOK /\ ObjectsTypeOK /\ SellersTypeOK /\ CatalogueTypeOK
    /\ TariffsTypeOK /\ MoneyTypeOK

(* document_service: there is one invoice for an order, and it says what the order
   costs; what was sent of it was received, and is the client's own.               *)
InvoicesOK == InvoiceOnce /\ InvoiceFollowsOrder
DispatchOK == SentWasReceived /\ PaperIsOwn

(* contract_service: one active contract for a client and an organization, and its
   file says what the contract says.                                               *)
ContractsOK == OneActivePerPair /\ FileSaysContract

(* client_object_service, legal_entity_service, fuel_type_service: what documents
   and orders are filled in from: addresses, the seller, the names of fuels.       *)
DirectoriesOK == CapHolds /\ ContactKept /\ HistoryIsWhole /\ OneOpenVersion /\ LabelsFresh

(* tariff_service: which tariff prices an order, that it has a price, and that the
   journal of its prices replays to what is asked now.                             *)
TariffsOK == OneDefaultPerType /\ DefaultIsUsable /\ PlainTariffPrices /\ JournalReplays

(* order_service: the sum of an order through edits of the delivery's cost and
   through the delivery itself, and the invoice written of it.                     *)
SumsKept == InvoiceAgrees /\ DriftBounded /\ FinalKeepsTerms
=============================================================================
