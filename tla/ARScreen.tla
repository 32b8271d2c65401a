------------------------------ MODULE ARScreen ------------------------------
(***************************************************************************)
(* The life of the AR screen (_ARWidgetState, lib/screens/ar.dart): it is  *)
(* mounted and disposed of by navigation, initialises Firebase, creates    *)
(* the AR view, asks for the location, and shows its buttons.  ARAnchors   *)
(* takes over once the view is up; here its taps are one action.           *)
(*                                                                         *)
(* The buttons are on screen as soon as the ARView widget is built, while  *)
(* the platform is still creating the view and the managers are null: a    *)
(* handler then runs to its first use of a manager and throws.             *)
(*                                                                         *)
(* Answers that reach a disposed state throw in setState or on its context *)
(* and change nothing, so unmounting forgets the outstanding calls.        *)
(***************************************************************************)
EXTENDS Navigation, PlacementMode

CONSTANT MaxInits   \* bound: outstanding initializeFlutterFire calls

ASSUME MaxInitsAssumption == MaxInits \in Nat \ {0}

VARIABLES
  initCalls,        \* outstanding initializeFlutterFire calls
  initialized,      \* _initialized
  error,            \* _error
  firestore,        \* firebaseManager.firestore, geo and collections are set
  arView,           \* the platform's AR view; the managers are set when "up"
  liveSession,      \* an AR session runs
  starting,         \* outstanding startLocationUpdates: with an error handler or not
  updates,          \* location updates run
  currentLocation,  \* arLocationManager.currentLocation is not null
  dialog,           \* the alert dialog on screen
  listening,        \* downloadAnchorsByLocation has been called
  models            \* the model chooser on screen: none, or what it has of its models

initVars == <<initCalls, initialized, error, firestore>>
viewVars == <<arView, liveSession>>
locationVars == <<starting, updates, currentLocation, dialog>>
placingVars == <<placementVars, models>>
vars == <<selectedPageIndex, placingVars, initVars, viewVars, locationVars, listening>>

\* What startLocationUpdates can fail with; the first three have a dialog.
Dialogs == {"services", "denied", "forever"}
LocationErrors == Dialogs \cup {"other"}

Mounted == selectedPageIndex = ARWidget

\* Everything has its type.
TypeOK ==
  /\ selectedPageIndex \in Pages
  /\ PlacementTypeOK
  /\ initCalls \in 0..MaxInits
  /\ initialized \in BOOLEAN
  /\ error \in BOOLEAN
  /\ firestore \in BOOLEAN
  /\ arView \in {"none", "creating", "up"}
  /\ liveSession \in BOOLEAN
  /\ starting \in {"none", "handled", "unhandled"}
  /\ updates \in BOOLEAN
  /\ currentLocation \in BOOLEAN
  /\ dialog \in Dialogs \cup {"none"}
  /\ listening \in BOOLEAN
  /\ models \in {"none", "asked", "shown"}

Init ==
  /\ NavInit
  /\ PlacementInit
  /\ initCalls = 0
  /\ initialized = FALSE
  /\ error = FALSE
  /\ firestore = FALSE
  /\ arView = "none"
  /\ liveSession = FALSE
  /\ starting = "none"
  /\ updates = FALSE
  /\ currentLocation = FALSE
  /\ dialog = "none"
  /\ listening = FALSE
  /\ models = "none"

-----------------------------------------------------------------------------
(* Mounting and unmounting.                                                *)

\* initState of a new state.  Its downloadAnchors throws on arLocationManager!.
initState ==
  /\ initCalls' = 1
  /\ UNCHANGED <<placingVars, initialized, error, firestore, viewVars, locationVars, listening>>

\* Nothing is left of a state that was unmounted ...
Forgotten ==
  /\ placingModel' = FALSE /\ didPlaceModel' = FALSE
  /\ modelChoiceActive' = FALSE /\ showPlanes' = FALSE
  /\ initCalls' = 0 /\ initialized' = FALSE /\ error' = FALSE /\ firestore' = FALSE
  /\ arView' = "none"
  /\ starting' = "none" /\ updates' = FALSE /\ currentLocation' = FALSE /\ dialog' = "none"
  /\ listening' = FALSE /\ models' = "none"

\* Fault: the session is not disposed of.
DisposeKeepsSession == Forgotten /\ UNCHANGED liveSession

\* ... and its AR session ends, unless there was no view yet: then
\* arSessionManager! throws, with nothing to dispose of.
dispose ==
  /\ Forgotten
  /\ liveSession' = (arView # "up" /\ liveSession)

\* A dialog covers the navbar until it is answered.
Navigate(index) ==
  /\ dialog = "none"
  /\ handleNavSelection(index)
  /\ \/ ~Mounted /\ index = ARWidget /\ initState
     \/ Mounted /\ index # ARWidget /\ dispose
     \/ /\ Mounted <=> index = ARWidget
        /\ UNCHANGED <<placingVars, initVars, viewVars, locationVars, listening>>

-----------------------------------------------------------------------------
(* Initialisation.                                                         *)

\* The error page's Retry calls initState again; the page stays until an
\* answer comes, so it can be pressed again.
Retry ==
  /\ Mounted /\ error
  /\ initCalls < MaxInits
  /\ initCalls' = initCalls + 1
  /\ UNCHANGED <<selectedPageIndex, placingVars, initialized, error, firestore,
                 viewVars, locationVars, listening>>

\* The screen is built: the AR view belongs to it when there is no error and
\* initialisation is done.
ViewAfter(init, err) ==
  IF err \/ ~init THEN "none" ELSE IF arView = "none" THEN "creating" ELSE arView

\* Fault: the result of initializeFlutterFire is not looked at.
InitUnchecked(ok) ==
  /\ firestore' = (ok \/ firestore)
  /\ initialized' = TRUE
  /\ error' = FALSE

\* Fault: success does not reach setState.
InitSilent(ok) ==
  /\ firestore' = (ok \/ firestore)
  /\ error' = ~ok
  /\ UNCHANGED initialized

initializeFlutterFire(ok) ==
  /\ firestore' = (ok \/ firestore)
  /\ initialized' = ok
  /\ error' = ~ok

\* Firebase.initializeApp does not fail any more once it has succeeded.
InitReply(ok) ==
  /\ initCalls > 0
  /\ ok \/ ~firestore
  /\ initCalls' = initCalls - 1
  /\ initializeFlutterFire(ok)
  /\ arView' = ViewAfter(initialized', error')
  /\ UNCHANGED <<selectedPageIndex, placingVars, liveSession, locationVars, listening>>

-----------------------------------------------------------------------------
(* The view comes up.  Location updates are started and not waited for, so *)
(* refreshAnchors finds no location and starts no listener.                *)

downloadAnchors == listening' = (listening \/ currentLocation)

onARViewCreated ==
  /\ arView = "creating"
  /\ arView' = "up"
  /\ liveSession' = TRUE
  /\ showPlanes' = FALSE
  /\ starting' = "handled"
  /\ downloadAnchors
  /\ UNCHANGED <<selectedPageIndex, placingModel, didPlaceModel, modelChoiceActive, models,
                 initVars, updates, currentLocation, dialog>>

\* startLocationUpdates answers: an error becomes a dialog, except for the
\* call behind the dialog's own Retry, which has no handler.
LocationStarted ==
  /\ starting # "none"
  /\ starting' = "none"
  /\ updates' = TRUE
  /\ UNCHANGED <<selectedPageIndex, placingVars, initVars, viewVars, currentLocation, dialog, listening>>

\* Fault: the default case falls into the dialog.
RefusedWithDialog(e) ==
  /\ starting # "none"
  /\ starting' = "none"
  /\ dialog' = IF starting = "handled" THEN e ELSE dialog
  /\ UNCHANGED <<selectedPageIndex, placingVars, initVars, viewVars, updates, currentLocation, listening>>

LocationRefused(e) ==
  /\ starting # "none"
  /\ starting' = "none"
  /\ dialog' = IF starting = "handled" /\ e \in Dialogs THEN e ELSE dialog
  /\ UNCHANGED <<selectedPageIndex, placingVars, initVars, viewVars, updates, currentLocation, listening>>

LocationFix ==
  /\ updates
  /\ ~currentLocation
  /\ currentLocation' = TRUE
  /\ UNCHANGED <<selectedPageIndex, placingVars, initVars, viewVars, starting, updates, dialog, listening>>

\* The action button of the dialog: Retry asks again, Settings leaves the app
\* to the system's settings and starts nothing.  Cancel only closes.
DialogAction ==
  /\ dialog # "none"
  /\ starting' = IF dialog = "denied" THEN "unhandled" ELSE starting
  /\ dialog' = "none"
  /\ UNCHANGED <<selectedPageIndex, placingVars, initVars, viewVars, updates, currentLocation, listening>>

DialogCancel ==
  /\ dialog # "none"
  /\ dialog' = "none"
  /\ UNCHANGED <<selectedPageIndex, placingVars, initVars, viewVars, starting, updates,
                 currentLocation, listening>>

-----------------------------------------------------------------------------
(* The buttons.                                                            *)

HasSession == arView = "up"

ButtonsShown == Mounted /\ initialized /\ ~error /\ dialog = "none"

\* The chooser that comes on screen asks for the models in its initState.
PlusButton ==
  /\ ButtonsShown /\ ~placingModel
  /\ enterPlacementMode(HasSession)
  /\ models' = "asked"
  /\ UNCHANGED <<selectedPageIndex, initVars, viewVars, locationVars, listening>>

\* downloadAvailableModels answers.  When it fails the chooser stays empty, and
\* what comes for a chooser that is gone throws into catchError.
ModelsArrive ==
  /\ models = "asked" /\ models' = "shown"
  /\ UNCHANGED <<selectedPageIndex, placementVars, initVars, viewVars, locationVars, listening>>

ModelTapped ==
  /\ ButtonsShown /\ models = "shown" /\ models' = "none"
  /\ onModelSelected
  /\ UNCHANGED <<selectedPageIndex, initVars, viewVars, locationVars, listening>>

CheckButton ==
  /\ ButtonsShown /\ placingModel
  /\ exitPlacementMode(HasSession) /\ models' = "none"
  /\ UNCHANGED <<selectedPageIndex, initVars, viewVars, locationVars, listening>>

\* Once a tap was handled the anchors are refreshed first, which throws when
\* there is no session.
TrashButton ==
  /\ ButtonsShown /\ placingModel
  /\ didPlaceModel => HasSession
  /\ IF didPlaceModel THEN downloadAnchors ELSE UNCHANGED listening
  /\ exitPlacementMode(HasSession) /\ models' = "none"
  /\ UNCHANGED <<selectedPageIndex, initVars, viewVars, locationVars>>

RefreshButton ==
  /\ ButtonsShown
  /\ IF HasSession THEN downloadAnchors ELSE UNCHANGED listening
  /\ UNCHANGED <<selectedPageIndex, placingVars, initVars, viewVars, locationVars>>

\* A tap on the view has been handled, at once or when its anchor is placed.
TapHandled ==
  /\ Mounted /\ HasSession
  /\ tapHandled
  /\ UNCHANGED <<selectedPageIndex, models, initVars, viewVars, locationVars, listening>>

-----------------------------------------------------------------------------
Next ==
  \/ \E index \in Pages : Navigate(index)
  \/ Retry
  \/ \E ok \in BOOLEAN : InitReply(ok)
  \/ onARViewCreated
  \/ LocationStarted
  \/ \E e \in LocationErrors : LocationRefused(e)
  \/ LocationFix
  \/ DialogAction \/ DialogCancel
  \/ PlusButton \/ ModelsArrive \/ ModelTapped \/ CheckButton \/ TrashButton \/ RefreshButton
  \/ TapHandled

Spec == Init /\ [][Next]_vars

\* The platform answers; users owe nothing.
Fairness ==
  /\ WF_vars(\E ok \in BOOLEAN : InitReply(ok))
  /\ WF_vars(onARViewCreated)
  /\ WF_vars(LocationStarted \/ \E e \in LocationErrors : LocationRefused(e))
  /\ WF_vars(LocationFix)

FairSpec == Spec /\ Fairness

-----------------------------------------------------------------------------
(* Properties.                                                             *)

\* Every use of geo!, anchorCollection!, objectCollection! and
\* modelCollection! is behind the AR view, a button next to it or the model
\* chooser: when the view is being created the collections exist, after any
\* number of failed initialisations and retries.
CollectionsBeforeView ==
  (arView # "none" \/ ButtonsShown \/ models # "none") => firestore

\* An AR session runs only while the screen that owns it is mounted, however
\* early the user leaves ("Essential to avoid memory leakage").
SessionOnlyWhileMounted == liveSession => Mounted /\ HasSession

\* The view shows planes to tap on only in placement mode.
PlanesOnlyWhilePlacing == showPlanes => placingModel /\ HasSession

\* A screen that waits for Firebase ends with the view or the error page, or
\* is left.
ScreenComesUp ==
  (Mounted /\ initCalls > 0) ~> (arView = "up" \/ error \/ ~Mounted)

-----------------------------------------------------------------------------
(* What the documentation says of the screen and the code does not do.     *)

\* onARViewCreated downloads anchors "within a radius of 100m of the current
\* device's location": with a location, the screen listens for them.
ListensOnceLocated ==
  (HasSession /\ currentLocation) ~> (listening \/ ~Mounted)
=============================================================================
