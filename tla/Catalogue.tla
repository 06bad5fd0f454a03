------------------------------- MODULE Catalogue -------------------------------
(***************************************************************************)
(* The catalogue of fuels (fuel_type_service, routers/fuel_types) and the  *)
(* copy of its names that the process keeps for the documents, which are   *)
(* rendered without a database: it is read again after each edit and at    *)
(* the start of the service, of which there is one process.                *)
(***************************************************************************)
EXTENDS Naturals

CONSTANTS
    FuelCodes,      \* codes of fuels
    Labels,
    CatalogueReqs,
    MaxEdits        \* bound: edits and restarts

ASSUME CatalogueAssumption == MaxEdits \in Nat

NoEntry  == [state |-> "none"]
NoLabel  == "code"
AtRest   == [step |-> "rest"]

VARIABLES
    entries,       \* code -> the row
    labels,        \* _catalog_labels
    catalogueReqs, \* request -> what it works on
    edits,         \* how many edits have begun
    astray         \* history: two reloads crossed, or one was cut, since the last restart

catalogueVars == <<entries, labels, catalogueReqs, edits, astray>>

Entry == [label: Labels, active: BOOLEAN]

\* Mutant: what is hidden is not read.
ActiveNames(rows) == [c \in FuelCodes |-> IF rows[c] = NoEntry \/ ~rows[c].active THEN NoLabel ELSE rows[c].label]

\* list_all: the names, of what is hidden too.
NamesOf(rows) == [c \in FuelCodes |-> IF rows[c] = NoEntry THEN NoLabel ELSE rows[c].label]

CatalogueInit ==
    /\ entries = [c \in FuelCodes |-> NoEntry]
    /\ labels = [c \in FuelCodes |-> NoLabel]
    /\ catalogueReqs = [q \in CatalogueReqs |-> AtRest]
    /\ edits = 0 /\ astray = FALSE

Reloading == {q \in CatalogueReqs : catalogueReqs[q] # AtRest}

\* create_fuel_type, update_fuel_type, soft_delete, to the commit.
EditEntry(q, c, row) ==
    /\ catalogueReqs[q] = AtRest /\ edits < MaxEdits
    /\ entries[c] = NoEntry => row.active
    /\ entries' = [entries EXCEPT ![c] = row]
    /\ edits' = edits + 1
    /\ catalogueReqs' = [catalogueReqs EXCEPT ![q] = [step |-> "read"]]
    /\ astray' = (astray \/ Reloading # {})
    /\ UNCHANGED labels

\* refresh_labels: the rows are read ...
ReloadRead(q) ==
    /\ catalogueReqs[q].step = "read"
    /\ catalogueReqs' = [catalogueReqs EXCEPT ![q] = [step |-> "assign", names |-> NamesOf(entries)]]
    /\ UNCHANGED <<entries, labels, edits, astray>>

\* ... and the names replaced.
ReloadAssign(q) ==
    /\ catalogueReqs[q].step = "assign"
    /\ labels' = catalogueReqs[q].names
    /\ catalogueReqs' = [catalogueReqs EXCEPT ![q] = AtRest]
    /\ UNCHANGED <<entries, edits, astray>>

\* The request is cut, or the database does not answer, after the commit.
ReloadCut(q) ==
    /\ catalogueReqs[q] # AtRest
    /\ catalogueReqs' = [catalogueReqs EXCEPT ![q] = AtRest]
    /\ astray' = TRUE
    /\ UNCHANGED <<entries, labels, edits>>

\* lifespan of main.py: a catalogue that cannot be read does not stop the service.
RestartCatalogue(ok) ==
    /\ edits < MaxEdits
    /\ labels' = IF ok THEN NamesOf(entries) ELSE [c \in FuelCodes |-> NoLabel]
    /\ catalogueReqs' = [q \in CatalogueReqs |-> AtRest]
    /\ edits' = edits + 1 /\ astray' = ~ok
    /\ UNCHANGED entries

CatalogueNext ==
    \/ \E q \in CatalogueReqs :
            \/ ReloadRead(q) \/ ReloadAssign(q) \/ ReloadCut(q)
            \/ \E c \in FuelCodes, row \in Entry : EditEntry(q, c, row)
    \/ \E ok \in BOOLEAN : RestartCatalogue(ok)

CatalogueSpec == CatalogueInit /\ [][CatalogueNext]_catalogueVars

-----------------------------------------------------------------------------
\* The rows keep the shape of models/fuel_type_catalog.py.
CatalogueTypeOK == entries \in [FuelCodes -> Entry \cup {NoEntry}] /\ edits \in 0..MaxEdits

\* refresh_labels: between edits the documents use the names of the catalogue, of hidden fuels
\* too, unless two reloads crossed or one was cut since the service was started.
LabelsFresh ==
    Reloading = {} /\ ~astray => \A c \in FuelCodes : entries[c] # NoEntry => labels[c] = entries[c].label
=============================================================================
