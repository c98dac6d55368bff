----------------------------- MODULE Workspaces -----------------------------
(***************************************************************************)
(* What the previews work on besides the economy itself: the directory of  *)
(* the whole economy's months (MonthWorkspace), the catalog of the         *)
(* regional months (MonthCatalog), each used by processes of its own, the  *)
(* boots that show pending operations (PendingOperations), and the census  *)
(* of the live sources (CensusAcquisition).  They share no state; which of *)
(* them a behaviour is about is chosen in the first state.                 *)
(***************************************************************************)
EXTENDS PendingOperations, CensusAcquisition

CONSTANTS Processes, Inputs,
          MaxMonth,  \* bound: months that are run
          MaxMade    \* bound: database files ever created

VARIABLES kind,                                              \* the one in use
          workspace, months, stray, died, reported, command, \* MonthWorkspace
          database, made, artifacts, committed, faulty, job  \* MonthCatalog

Directory == INSTANCE MonthWorkspace
Catalog == INSTANCE MonthCatalog WITH MaxPeriod <- MaxMonth

\* No workspace is not one that some input was sealed in.
ASSUME InputAssumption == Directory!Absent \notin Inputs

workspaceVars == <<workspace, months, stray, died, reported, command>>
catalogVars == <<database, made, artifacts, committed, faulty, job>>

\* Before any attempt; one collection and one method are enough.
CensusUnused == CensusInit /\ method = "counted" /\ live = {}

PreviewInit ==
  /\ kind \in {"directory", "catalog", "campaign", "census"}
  /\ Directory!Init /\ Catalog!Init /\ Init
  /\ IF kind = "census" THEN CensusInit ELSE CensusUnused

PreviewNext ==
  /\ UNCHANGED kind
  /\ \/ /\ kind = "directory" /\ Directory!Next
        /\ UNCHANGED <<catalogVars, operationVars, censusVars>>
     \/ /\ kind = "catalog" /\ Catalog!Next
        /\ UNCHANGED <<workspaceVars, operationVars, censusVars>>
     \/ /\ kind = "campaign" /\ Next
        /\ UNCHANGED <<workspaceVars, catalogVars, censusVars>>
     \/ /\ kind = "census" /\ CensusNext
        /\ UNCHANGED <<workspaceVars, catalogVars, operationVars>>

PreviewSpec ==
  PreviewInit
    /\ [][PreviewNext]_<<kind, workspaceVars, catalogVars, operationVars, censusVars>>
-----------------------------------------------------------------------------
(* The directory shows a complete history of one input, whoever races,      *)
(* fails or dies (MonthWorkspace).                                          *)
SealedHistory == Directory!SealedHistory

(* The directory opens unless a month is being committed or a process died  *)
(* (MonthWorkspace).                                                        *)
OpensUnlessDeath == Directory!OpensUnlessDeath

(* A month reported as committed keeps its rows in the catalog, and one     *)
(* whose commands only raced passes verify (MonthCatalog).                  *)
CatalogSound == Catalog!CatalogSound
=============================================================================
