--------------------------- MODULE PlacementMode ---------------------------
(***************************************************************************)
(* The placement mode of the AR screen (lib/screens/ar.dart).              *)
(*                                                                         *)
(* _ARWidgetState keeps three flags about the model the user is placing,   *)
(* and the AR session keeps the view configuration that goes with them.    *)
(* The handlers below are the only code that moves several of the four     *)
(* together; they are fragments of actions of the modules that extend this *)
(* one, which say what happens to every other variable.                    *)
(***************************************************************************)
VARIABLES
  placingModel,       \* the screen is in placement mode
  didPlaceModel,      \* a tap has been handled since the flag was reset
  modelChoiceActive,  \* the ModelSelectionWidget is on screen
  showPlanes          \* what the AR view was last told by onInitialize

placementVars == <<placingModel, didPlaceModel, modelChoiceActive, showPlanes>>

PlacementTypeOK ==
  /\ placingModel \in BOOLEAN
  /\ didPlaceModel \in BOOLEAN
  /\ modelChoiceActive \in BOOLEAN
  /\ showPlanes \in BOOLEAN

PlacementInit ==
  /\ placingModel = FALSE
  /\ didPlaceModel = FALSE
  /\ modelChoiceActive = FALSE
  /\ showPlanes = FALSE

-----------------------------------------------------------------------------
(***************************************************************************)
(* session tells whether arSessionManager drives the AR view that is on    *)
(* screen.  When it does not (the view is still being created) setState    *)
(* has already run, and the call of onInitialize behind it reaches nothing.*)
(***************************************************************************)

\* Fault: the flag of the previous placement survives.
EnterWithoutReset(session) ==
  /\ placingModel' = TRUE
  /\ modelChoiceActive' = TRUE
  /\ showPlanes' = (session \/ showPlanes)
  /\ UNCHANGED didPlaceModel

enterPlacementMode(session) ==
  /\ placingModel' = TRUE
  /\ didPlaceModel' = FALSE
  /\ modelChoiceActive' = TRUE
  /\ showPlanes' = (session \/ showPlanes)

\* Fault: the view keeps the configuration of placement mode.
ExitKeepsPlanes(session) ==
  /\ placingModel' = FALSE
  /\ didPlaceModel' = FALSE
  /\ modelChoiceActive' = FALSE
  /\ UNCHANGED showPlanes

exitPlacementMode(session) ==
  /\ placingModel' = FALSE
  /\ didPlaceModel' = FALSE
  /\ modelChoiceActive' = FALSE
  /\ showPlanes' = (~session /\ showPlanes)

onModelSelected ==
  /\ modelChoiceActive' = FALSE
  /\ UNCHANGED <<placingModel, didPlaceModel, showPlanes>>

\* The setState that ends onPlaneOrPointTapped, inside placement mode or not.
tapHandled ==
  /\ didPlaceModel' = TRUE
  /\ UNCHANGED <<placingModel, modelChoiceActive, showPlanes>>
=============================================================================
