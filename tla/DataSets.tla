-------------------------------- MODULE DataSets --------------------------------
(***************************************************************************)
(* Provisioning and importing of datasets (datasetRoutes.ts,               *)
(* dataSetService.ts, ddbDataSetMetadataPlugin.ts): a prefix of a bucket   *)
(* becomes a dataset with a name.  The name is looked up in one call and   *)
(* the row is stored by another.  Endpoints have a module of their own     *)
(* (DataSetEndpoints).                                                     *)
(***************************************************************************)
EXTENDS Catalog

CONSTANTS
    DataSetCall,   \* POST /datasets and POST /datasets/import
    DataSetName,
    Path           \* prefixes of the bucket

ASSUME DataSetAssumption == DataSetName \subseteq Nat /\ Undefined \notin Path

VARIABLES
    folders,       \* paths of the bucket that exist
    dataSetCalls,  \* progress of every call
    overlapped     \* names that were looked up while a call held them unstored

dataSetVars == <<folders, dataSetCalls, overlapped>>

NewCall == [pc |-> "new", op |-> "none", name |-> 0, path |-> Undefined]

DataSetCallGoes(c, pc) == dataSetCalls' = [dataSetCalls EXCEPT ![c].pc = pc]

\* S3DataSetStoragePlugin.createStorage: an empty object, put again if it is there
CreateStorage(path) == folders' = folders \cup {path}

ProvisionDataSet(c, name, path) ==
    /\ dataSetCalls[c].pc = "new"
    /\ CreateStorage(path)
    /\ dataSetCalls' = [dataSetCalls EXCEPT ![c] =
         [pc |-> "validating", op |-> "provision", name |-> name, path |-> path]]
    /\ UNCHANGED <<catalogVars, overlapped>>

\* importStorage asks nothing of S3: the path is taken to exist
ImportDataSet(c, name, path) ==
    /\ dataSetCalls[c].pc = "new"
    /\ dataSetCalls' = [dataSetCalls EXCEPT ![c] =
         [pc |-> "validating", op |-> "import", name |-> name, path |-> path]]
    /\ UNCHANGED <<catalogVars, folders, overlapped>>

DataSetsByName(name) ==
    [QueryParams("getResourceByName", "kind", "dataset") EXCEPT
        !.sortKey = "name", !.condition = Eq(name)]

Named(name) == Page(table, DataSetsByName(name)).items # {}

\* a call that has looked the name up and has not stored it
Held(name) == \E c \in DataSetCall : dataSetCalls[c].pc = "storing" /\ dataSetCalls[c].name = name

\* Mutant of ValidateCreateDataSet: names are looked up in the list by path.
ValidatePathOnly(c) ==
    /\ dataSetCalls[c].pc = "validating"
    /\ DataSetCallGoes(c, IF \E row \in OfKind("dataset") : row.path = dataSetCalls[c].path
                          THEN "refused" ELSE "storing")
    /\ overlapped' = overlapped \cup {n \in {dataSetCalls[c].name} : Held(n)}
    /\ UNCHANGED <<catalogVars, folders>>

\* _validateCreateDataSet
ValidateCreateDataSet(c) ==
    /\ dataSetCalls[c].pc = "validating"
    /\ DataSetCallGoes(c, IF Named(dataSetCalls[c].name) THEN "refused" ELSE "storing")
    /\ overlapped' = overlapped \cup {n \in {dataSetCalls[c].name} : Held(n)}
    /\ UNCHANGED <<catalogVars, folders>>

\* _storeDataSetToDdb, under a new id
StoreDataSet(c, id) ==
    /\ dataSetCalls[c].pc = "storing"
    /\ IsFree(id)
    /\ Write(Key("dataset", id),
             [createdAt |-> now, name |-> dataSetCalls[c].name, path |-> dataSetCalls[c].path])
    /\ DataSetCallGoes(c, "stored")
    /\ UNCHANGED <<now, writer, lister, faults, focus, folders, overlapped>>

\* a call fails, or the lambda that runs it is stopped
DataSetCallFails(c) ==
    /\ dataSetCalls[c].pc \in {"validating", "storing"}
    /\ faults < MaxFaults
    /\ faults' = faults + 1
    /\ DataSetCallGoes(c, "failed")
    /\ UNCHANGED <<table, now, writer, lister, focus, folders, overlapped>>

DataSetInit ==
    /\ folders = {} /\ overlapped = {}
    /\ dataSetCalls = [c \in DataSetCall |-> NewCall]

DataSetStep ==
    \/ \E c \in DataSetCall, name \in DataSetName, path \in Path :
          ProvisionDataSet(c, name, path) \/ ImportDataSet(c, name, path)
    \/ \E c \in DataSetCall : ValidateCreateDataSet(c) \/ DataSetCallFails(c)
    \/ \E c \in DataSetCall, id \in Id : StoreDataSet(c, id)

(***************************************************************************)
(* Properties                                                              *)
(***************************************************************************)
DataSetTypeOK ==
    /\ folders \subseteq Path /\ overlapped \subseteq DataSetName
    /\ DOMAIN dataSetCalls = DataSetCall
    /\ \A c \in DataSetCall :
         /\ DOMAIN dataSetCalls[c] = {"pc", "op", "name", "path"}
         /\ dataSetCalls[c].pc \in {"new", "validating", "storing", "stored", "refused", "failed"}
         /\ dataSetCalls[c].pc # "new" =>
               dataSetCalls[c].name \in DataSetName /\ dataSetCalls[c].path \in Path
         /\ dataSetCalls[c].op = "provision" => dataSetCalls[c].path \in folders

\* A call that holds a name for itself finds it free when it stores its row.
NamesHeld ==
    \A c \in DataSetCall :
        dataSetCalls[c].pc = "storing" /\ dataSetCalls[c].name \notin overlapped =>
            /\ \A row \in OfKind("dataset") : row.name # dataSetCalls[c].name
            /\ \A other \in DataSetCall :
                  /\ dataSetCalls[other].pc = "storing"
                  /\ dataSetCalls[other].name = dataSetCalls[c].name
                  => other = c

\* A dataset's name is its own, whichever calls fail half way, unless it was looked
\* up while another call of that name was between its look-up and its row: the
\* table itself enforces nothing.
OneDataSetPerName ==
    \A r, s \in OfKind("dataset") : r.name = s.name => r = s \/ r.name \in overlapped
================================================================================
