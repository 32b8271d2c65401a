--------------------------- MODULE ARScreenProofs ---------------------------
(***************************************************************************)
(* Proofs about ARScreen, for any number of outstanding initialisations.   *)
(***************************************************************************)
EXTENDS ARScreen, TLAPS

LEMMA PageTypes == 0 \in Pages /\ 0 # ARWidget
BY DEF Pages, Welcome1, MapPage, ARWidget

\* The handlers of placement mode keep the types of its flags.
LEMMA FlagTypes ==
  ASSUME PlacementTypeOK, NEW s \in BOOLEAN, enterPlacementMode(s) \/ exitPlacementMode(s)
  PROVE  PlacementTypeOK'
<1>1. (s \/ showPlanes) \in BOOLEAN /\ (~s /\ showPlanes) \in BOOLEAN
  OBVIOUS
<1>2. QED BY <1>1 DEF PlacementTypeOK, enterPlacementMode, exitPlacementMode

\* Every step keeps the types.
LEMMA TypeStep == TypeOK /\ [Next]_vars => TypeOK'
<1> SUFFICES ASSUME TypeOK, [Next]_vars PROVE TypeOK'
  OBVIOUS
<1> USE MaxInitsAssumption
    DEF TypeOK, PlacementTypeOK, placementVars, placingVars, initVars, viewVars, locationVars, Dialogs, LocationErrors
<1>1. ASSUME NEW index \in Pages, Navigate(index) PROVE TypeOK'
  <2>1. selectedPageIndex' \in Pages
    BY <1>1 DEF Navigate, handleNavSelection
  <2>2. CASE initState
    <3>1. 1 \in 0..MaxInits
      OBVIOUS
    <3>2. QED BY <2>1, <2>2, <3>1 DEF initState
  <2>3. CASE dispose
    <3>1. liveSession' \in BOOLEAN
      BY <2>3 DEF dispose
    <3>2. 0 \in 0..MaxInits
      OBVIOUS
    <3>3. QED BY <2>1, <2>3, <3>1, <3>2 DEF dispose, Forgotten
  <2>4. CASE UNCHANGED <<placingVars, initVars, viewVars, locationVars, listening>>
    BY <2>1, <2>4
  <2>5. QED BY <1>1, <2>2, <2>3, <2>4 DEF Navigate
<1>2. CASE Retry
  BY <1>2 DEF Retry
<1>3. ASSUME NEW ok \in BOOLEAN, InitReply(ok) PROVE TypeOK'
  <2>1. firestore' \in BOOLEAN /\ initialized' \in BOOLEAN /\ error' \in BOOLEAN
    BY <1>3 DEF InitReply, initializeFlutterFire
  <2>2. arView' \in {"none", "creating", "up"}
    BY <1>3 DEF InitReply, ViewAfter
  <2>3. initCalls' \in 0..MaxInits
    BY <1>3 DEF InitReply
  <2>4. QED BY <1>3, <2>1, <2>2, <2>3 DEF InitReply
<1>4. CASE onARViewCreated
  BY <1>4 DEF onARViewCreated, downloadAnchors
<1>5. CASE LocationStarted
  BY <1>5 DEF LocationStarted
<1>6. ASSUME NEW e \in LocationErrors, LocationRefused(e) PROVE TypeOK'
  BY <1>6 DEF LocationRefused
<1>7. CASE LocationFix
  BY <1>7 DEF LocationFix
<1>8. CASE DialogAction \/ DialogCancel
  BY <1>8 DEF DialogAction, DialogCancel
<1>9. CASE PlusButton
  <2>1. PlacementTypeOK'
    BY <1>9, FlagTypes DEF PlusButton, HasSession
  <2>2. QED BY <1>9, <2>1 DEF PlusButton
<1>10. CASE ModelTapped
  <2>1. PlacementTypeOK'
    BY <1>10 DEF ModelTapped, onModelSelected
  <2>2. QED BY <1>10, <2>1 DEF ModelTapped
<1>11. CASE CheckButton
  <2>1. PlacementTypeOK'
    BY <1>11, FlagTypes DEF CheckButton, HasSession
  <2>2. QED BY <1>11, <2>1 DEF CheckButton
<1>12. CASE TrashButton
  <2>1. PlacementTypeOK'
    BY <1>12, FlagTypes DEF TrashButton, HasSession
  <2>2. QED BY <1>12, <2>1 DEF TrashButton, downloadAnchors
<1>13. CASE RefreshButton
  BY <1>13 DEF RefreshButton, downloadAnchors
<1>14. CASE TapHandled
  BY <1>14 DEF TapHandled, tapHandled
<1>15. CASE ModelsArrive
  BY <1>15 DEF ModelsArrive
<1>16. CASE UNCHANGED vars
  BY <1>16 DEF vars
<1>17. QED BY <1>1, <1>2, <1>3, <1>4, <1>5, <1>6, <1>7, <1>8, <1>9, <1>10, <1>11, <1>12, <1>13,
          <1>14, <1>15, <1>16 DEF Next

(***************************************************************************)
(* What ties the flags to the view: the collections exist when _initialized *)
(* was set, the view exists only on a mounted, initialised screen without  *)
(* error, and an error excludes the collections, so a late failure cannot  *)
(* take them away behind a view.                                           *)
(***************************************************************************)
LifeInv ==
  /\ initialized => firestore
  /\ arView # "none" => initialized /\ ~error
  /\ initialized => Mounted
  /\ liveSession <=> arView = "up"
  /\ showPlanes => placingModel /\ arView = "up"
  /\ starting # "none" \/ dialog # "none" \/ updates => arView = "up"
  /\ initCalls > 0 => Mounted
  /\ models # "none" => initialized

LEMMA LifeInvStep == TypeOK /\ LifeInv /\ [Next]_vars => LifeInv'
<1> SUFFICES ASSUME TypeOK, LifeInv, [Next]_vars PROVE LifeInv'
  OBVIOUS
<1> USE DEF TypeOK, PlacementTypeOK, LifeInv, Mounted, HasSession, placementVars, placingVars, initVars,
        viewVars, locationVars
<1>1. ASSUME NEW index \in Pages, Navigate(index) PROVE LifeInv'
  <2>1. CASE ~Mounted /\ index = ARWidget /\ initState
    BY <1>1, <2>1 DEF initState, Navigate, handleNavSelection
  <2>2. CASE Mounted /\ index # ARWidget /\ dispose
    BY <1>1, <2>2 DEF dispose, Forgotten
  <2>3. CASE (Mounted <=> index = ARWidget)
             /\ UNCHANGED <<placingVars, initVars, viewVars, locationVars, listening>>
    BY <1>1, <2>3 DEF Navigate, handleNavSelection
  <2>4. QED BY <1>1, <2>1, <2>2, <2>3 DEF Navigate
<1>2. CASE Retry
  BY <1>2 DEF Retry
<1>3. ASSUME NEW ok \in BOOLEAN, InitReply(ok) PROVE LifeInv'
  <2>1. CASE ok
    BY <1>3, <2>1 DEF InitReply, initializeFlutterFire, ViewAfter
  <2>2. CASE ~ok
    <3>1. ~firestore /\ ~initialized /\ arView = "none"
      BY <1>3, <2>2 DEF InitReply
    <3>2. QED BY <1>3, <2>2, <3>1 DEF InitReply, initializeFlutterFire, ViewAfter
  <2>3. QED BY <2>1, <2>2
<1>4. CASE onARViewCreated
  BY <1>4 DEF onARViewCreated
<1>5. CASE LocationStarted
  BY <1>5 DEF LocationStarted
<1>6. ASSUME NEW e \in LocationErrors, LocationRefused(e) PROVE LifeInv'
  BY <1>6 DEF LocationRefused
<1>7. CASE LocationFix
  BY <1>7 DEF LocationFix
<1>8. CASE DialogAction \/ DialogCancel
  BY <1>8 DEF DialogAction, DialogCancel
<1>9. CASE PlusButton
  BY <1>9 DEF PlusButton, enterPlacementMode, ButtonsShown
<1>10. CASE ModelTapped
  BY <1>10 DEF ModelTapped, onModelSelected
<1>11. CASE CheckButton
  BY <1>11 DEF CheckButton, exitPlacementMode
<1>12. CASE TrashButton
  BY <1>12 DEF TrashButton, exitPlacementMode
<1>13. CASE RefreshButton
  BY <1>13 DEF RefreshButton
<1>14. CASE TapHandled
  BY <1>14 DEF TapHandled, tapHandled
<1>15. CASE ModelsArrive
  BY <1>15 DEF ModelsArrive
<1>16. CASE UNCHANGED vars
  BY <1>16 DEF vars
<1>17. QED BY <1>1, <1>2, <1>3, <1>4, <1>5, <1>6, <1>7, <1>8, <1>9, <1>10, <1>11, <1>12, <1>13,
          <1>14, <1>15, <1>16 DEF Next

LEMMA LifeAlways == Spec => [](TypeOK /\ LifeInv)
<1>1. Init => TypeOK /\ LifeInv
  <2> SUFFICES ASSUME Init PROVE TypeOK /\ LifeInv
    OBVIOUS
  <2>1. PlacementTypeOK
    BY DEF Init, PlacementInit, PlacementTypeOK
  <2>2. 0 \in 0..MaxInits /\ ~(0 > 0)
    BY MaxInitsAssumption
  <2>3. TypeOK
    BY PageTypes, <2>1, <2>2 DEF Init, NavInit, Welcome1, TypeOK
  <2>4. LifeInv
    BY <2>2 DEF Init, PlacementInit, LifeInv
  <2>5. QED BY <2>3, <2>4
<1>2. (TypeOK /\ LifeInv) /\ [Next]_vars => (TypeOK /\ LifeInv)'
  BY TypeStep, LifeInvStep
<1>3. QED BY <1>1, <1>2, PTL DEF Spec

\* Everything keeps its type.
THEOREM TypeSafe == Spec => []TypeOK
BY LifeAlways, PTL

\* No handler meets a null collection, after any failures and retries.
THEOREM CollectionsSafe == Spec => []CollectionsBeforeView
<1>1. TypeOK /\ LifeInv => CollectionsBeforeView
  BY DEF LifeInv, CollectionsBeforeView, ButtonsShown
<1>2. QED BY <1>1, LifeAlways, PTL

\* No AR session outlives the screen.
THEOREM SessionSafe == Spec => []SessionOnlyWhileMounted
<1>1. TypeOK /\ LifeInv => SessionOnlyWhileMounted
  BY DEF LifeInv, SessionOnlyWhileMounted, HasSession
<1>2. QED BY <1>1, LifeAlways, PTL

\* Planes are shown only in placement mode.
THEOREM PlanesSafe == Spec => []PlanesOnlyWhilePlacing
<1>1. TypeOK /\ LifeInv => PlanesOnlyWhilePlacing
  BY DEF LifeInv, PlanesOnlyWhilePlacing, HasSession
<1>2. QED BY <1>1, LifeAlways, PTL
=============================================================================
