----------------------------- MODULE MapScreen -----------------------------
(***************************************************************************)
(* The artwork map (_MapPageState, lib/screens/map.dart), the list of      *)
(* positions MainApp hands it (posData, lib/main.dart) and the navigation  *)
(* that mounts and unmounts it.                                            *)
(*                                                                         *)
(* getAnchors returns its list before the query answers, so a list is its  *)
(* contents at the time it is read.  Only the list in posData outlives its *)
(* call.  MapPage gets the list posData refers to whenever MainApp builds. *)
(*                                                                         *)
(* A state that is unmounted keeps its location subscription: nothing      *)
(* cancels it.  Its listener returns at once (if (mounted), map.dart:232), *)
(* so the model follows the state that is mounted.                         *)
(*                                                                         *)
(* A query returns documents in the order of their random ids.  Places lie *)
(* on a line, in metres.                                                   *)
(***************************************************************************)
EXTENDS Navigation, Integers, FiniteSets, SequencesExt

CONSTANTS
  Art,          \* documents that may appear in the anchors collection
  Place,        \* where each of them is
  Unlocated,    \* those uploaded without a position
  Spots,        \* where the user can be
  NoPos         \* _currentPos = null

ASSUME MapAssumption ==
  /\ IsFiniteSet(Art)
  /\ Place \in [Art -> Int]
  /\ Unlocated \subseteq Art
  /\ Spots \subseteq Int
  /\ NoPos \notin Spots

VARIABLES
  published,        \* the documents in the anchors collection
  appInit,          \* MainApp's initializeFlutterFire
  posData,          \* which list posData refers to
  fetch,            \* the query behind that list
  fetched,          \* the contents of that list
  initialLocationData,  \* which list the MapPage widget refers to
  style,            \* _mapStyle has been loaded
  locating,         \* how far getLocationUpdates has got
  permission,       \* what the platform last said about permission
  currentPos,       \* _currentPos
  gmap,             \* the GoogleMap component
  markerList,       \* its markers
  markedFrom        \* history: _currentPos when the markers were generated

appVars == <<published, appInit, posData, fetch, fetched>>
stateVars == <<style, locating, permission, currentPos, gmap, markerList, markedFrom>>
vars == <<selectedPageIndex, appVars, initialLocationData, stateVars>>

Permissions == {"granted", "grantedLimited", "denied", "deniedForever"}

Mounted == selectedPageIndex = MapPage

\* A state of MapPage that nobody has built yet: initState has run.
FreshState ==
  /\ style' = FALSE
  /\ locating' = "service"
  /\ permission' = "denied"
  /\ currentPos' = NoPos
  /\ gmap' = "none"
  /\ markerList' = {}
  /\ markedFrom' = NoPos

Init ==
  /\ NavInit
  /\ published = {}
  /\ appInit = "pending"
  /\ posData = "empty"
  /\ fetch = "none"
  /\ fetched = <<>>
  /\ initialLocationData = "empty"
  /\ style = FALSE
  /\ locating = "service"
  /\ permission = "denied"
  /\ currentPos = NoPos
  /\ gmap = "none"
  /\ markerList = {}
  /\ markedFrom = NoPos

-----------------------------------------------------------------------------
(* The data.                                                               *)

distance(p, q) == IF p > q THEN p - q ELSE q - p

\* The keys of hueMap in metres, in the order the literal lists them.
HueKeys == <<20, 50, 75, 150, 200, 500>>
Hues == <<0, 30, 60, 120, 240, 270>>
hueRed == 0
hueViolet == 270

\* Fault: what no key covers falls through to the first colour.
HueDefaultRed(d) ==
  LET ks == {k \in DOMAIN HueKeys : d <= HueKeys[k]} IN
  IF ks = {} THEN hueRed ELSE Hues[CHOOSE k \in ks : \A j \in ks : k <= j]

\* Fault: what no key covers has no colour.
HueMissing(d) ==
  LET ks == {k \in DOMAIN HueKeys : d <= HueKeys[k]} IN
  IF ks = {} THEN NoPos ELSE Hues[CHOOSE k \in ks : \A j \in ks : k <= j]

\* The loop returns the hue of the first key the distance does not exceed.
hueFromDistance(d) ==
  LET ks == {k \in DOMAIN HueKeys : d <= HueKeys[k]} IN
  IF ks = {} THEN hueViolet ELSE Hues[CHOOSE k \in ks : \A j \in ks : k <= j]

\* The markers generateMarkers makes of a list for a user at pos.
Markers(list, pos) ==
  {[id |-> i, place |-> list[i], hue |-> hueFromDistance(distance(pos, list[i]))]
     : i \in DOMAIN list}

\* What the loop over the query's documents adds to the list: get("position")
\* throws at the first document without one and ends the loop.
Parsed(docs) ==
  [i \in {k \in DOMAIN docs : \A j \in 1..k : docs[j] \notin Unlocated} |-> Place[docs[i]]]

\* Fault: the list comes back filled.
AwaitedAnchors == Parsed(CHOOSE docs \in SetToSeqs(published) : TRUE)

\* The list a call of getAnchors returns to its caller.
getAnchors == <<>>

-----------------------------------------------------------------------------
(* MainApp.                                                                *)

\* initializeFlutterFire answers; then posData = getAnchors(), which throws
\* on anchorCollection! when the answer was false.
AppInitialised(ok) ==
  /\ appInit = "pending"
  /\ \/ /\ ok
        /\ appInit' = "done"
        /\ posData' = "fetched"
        /\ fetch' = "pending"
     \/ /\ ~ok
        /\ appInit' = "failed"
        /\ UNCHANGED <<posData, fetch>>
  /\ UNCHANGED <<selectedPageIndex, published, fetched, initialLocationData, stateVars>>

\* The query behind posData answers, or fails and onError prints.
AnchorsReply(ok) ==
  /\ fetch = "pending"
  /\ fetch' = "settled"
  /\ \/ ok /\ \E docs \in SetToSeqs(published) : fetched' = Parsed(docs)
     \/ ~ok /\ UNCHANGED fetched
  /\ UNCHANGED <<selectedPageIndex, published, appInit, posData, initialLocationData, stateVars>>

Publish(a) ==
  /\ a \notin published
  /\ published' = published \cup {a}
  /\ UNCHANGED <<selectedPageIndex, appInit, posData, fetch, fetched, initialLocationData,
                 stateVars>>

\* Fault: the map waits for its markers, which wait for the map.
BuildAfterMarkers(pos) == IF gmap = "none" /\ markerList # {} THEN "creating" ELSE gmap

\* Fault: the map is built whether or not there is a position.
BuildAlways(pos) == IF gmap = "none" THEN "creating" ELSE gmap

\* The GoogleMap component is built as soon as there is a position.
build(pos) == IF gmap = "none" /\ pos # NoPos THEN "creating" ELSE gmap

\* Entering the map builds a new state; leaving it unmounts the state.  Any
\* navigation rebuilds MainApp.
Navigate(index) ==
  /\ handleNavSelection(index)
  /\ initialLocationData' = posData
  /\ \/ /\ Mounted /\ index # MapPage
        /\ FreshState
     \/ /\ ~Mounted /\ index = MapPage
        /\ gmap' = build(NoPos)
        /\ UNCHANGED <<style, locating, permission, currentPos, markerList, markedFrom>>
     \/ /\ Mounted <=> index = MapPage
        /\ UNCHANGED stateVars
  /\ UNCHANGED appVars

-----------------------------------------------------------------------------
(* MapPage.                                                                *)

StyleLoaded ==
  /\ Mounted
  /\ ~style
  /\ style' = TRUE
  /\ UNCHANGED <<selectedPageIndex, appVars, initialLocationData, locating, permission, currentPos,
                 gmap, markerList, markedFrom>>

\* getLocationUpdates, one step for each of its awaits.
ServiceEnabled(yes) ==
  /\ locating = "service"
  /\ locating' = IF yes THEN "requestService" ELSE "stopped"
  /\ UNCHANGED permission

ServiceRequested ==
  /\ locating = "requestService"
  /\ locating' = "permission"
  /\ UNCHANGED permission

HasPermission(p) ==
  /\ locating = "permission"
  /\ permission' = p
  /\ locating' = IF p = "denied" THEN "requestPermission" ELSE "listening"

PermissionRequested(p) ==
  /\ locating = "requestPermission"
  /\ permission' = p
  /\ locating' = IF p = "granted" THEN "listening" ELSE "stopped"

getLocationUpdates ==
  /\ Mounted
  /\ \/ \E yes \in BOOLEAN : ServiceEnabled(yes)
     \/ ServiceRequested
     \/ \E p \in Permissions : HasPermission(p) \/ PermissionRequested(p)
  /\ UNCHANGED <<selectedPageIndex, appVars, initialLocationData, style, currentPos, gmap,
                 markerList, markedFrom>>

\* A fix reaches the listener of the mounted state.
onLocationChanged(pos) ==
  /\ currentPos' = pos
  /\ gmap' = build(pos)
  /\ markerList' = markerList \cup Markers(getAnchors, pos)
  /\ UNCHANGED markedFrom

\* The platform has fixes only with permission.
LocationFix(pos) ==
  /\ Mounted
  /\ locating = "listening"
  /\ permission \in {"granted", "grantedLimited"}
  /\ onLocationChanged(pos)
  /\ UNCHANGED <<selectedPageIndex, appVars, initialLocationData, style, locating, permission>>

\* Reading _mapStyle before it is loaded throws: the map is up and
\* generateMarkers is never reached.
_onMapCreated ==
  /\ gmap = "creating"
  /\ gmap' = "created"
  /\ \/ /\ style
        /\ markerList' = markerList \cup
             Markers(IF initialLocationData = "fetched" THEN fetched ELSE <<>>, currentPos)
        /\ markedFrom' = currentPos
     \/ /\ ~style
        /\ UNCHANGED <<markerList, markedFrom>>
  /\ UNCHANGED <<selectedPageIndex, appVars, initialLocationData, style, locating, permission,
                 currentPos>>

-----------------------------------------------------------------------------
Next ==
  \/ \E ok \in BOOLEAN : AppInitialised(ok) \/ AnchorsReply(ok)
  \/ \E a \in Art : Publish(a)
  \/ \E index \in Pages : Navigate(index)
  \/ StyleLoaded
  \/ getLocationUpdates
  \/ \E pos \in Spots : LocationFix(pos)
  \/ _onMapCreated

Spec == Init /\ [][Next]_vars

(***************************************************************************)
(* The platform answers the calls of the screen, loads its assets, creates *)
(* its views, and keeps sending fixes while it has permission.             *)
(***************************************************************************)
Fairness ==
  /\ WF_vars(getLocationUpdates)
  /\ WF_vars(StyleLoaded)
  /\ WF_vars(\E pos \in Spots : LocationFix(pos))
  /\ WF_vars(_onMapCreated)
  /\ WF_vars(\E ok \in BOOLEAN : AppInitialised(ok))
  /\ WF_vars(\E ok \in BOOLEAN : AnchorsReply(ok))

FairSpec == Spec /\ Fairness

-----------------------------------------------------------------------------
(* Properties.                                                             *)

Marker == [id : Nat, place : Range(Place), hue : Range(Hues)]

\* Everything has its type.
TypeOK ==
  /\ selectedPageIndex \in Pages
  /\ published \subseteq Art
  /\ appInit \in {"pending", "done", "failed"}
  /\ posData \in {"empty", "fetched"}
  /\ fetch \in {"none", "pending", "settled"}
  /\ fetched \in Seq(Range(Place))
  /\ initialLocationData \in {"empty", "fetched"}
  /\ style \in BOOLEAN
  /\ locating \in {"service", "requestService", "permission", "requestPermission", "stopped", "listening"}
  /\ permission \in Permissions
  /\ currentPos \in Spots \cup {NoPos}
  /\ gmap \in {"none", "creating", "created"}
  /\ markerList \subseteq Marker
  /\ markedFrom \in Spots \cup {NoPos}

\* distance dereferences currentPos! for every marker: whenever the map calls
\* back there is a position, because build shows the map only with one and
\* nothing takes the position away.
PositionBeforeMap == gmap # "none" => currentPos # NoPos

\* generateMarkers numbers the markers from 0 in every call and the set only
\* grows: two markers never share an id.
UniqueMarkerIds == \A m, n \in markerList : m.id = n.id => m = n

\* At the moment the markers were generated a nearer piece of art did not have
\* a colder colour than a farther one (hueFromDistance walks hueMap in order).
NearerIsWarmer ==
  \A m, n \in markerList :
    distance(markedFrom, m.place) <= distance(markedFrom, n.place) => m.hue <= n.hue

\* The welcome pages are never shown again once they have been left.
WelcomeOnlyOnce == [][selectedPageIndex > 2 => selectedPageIndex' > 2]_vars

\* A map page that listens for fixes and may have them shows the map, or is
\* left.
MapAppears ==
  (Mounted /\ locating = "listening" /\ permission = "granted") ~> (gmap = "created" \/ ~Mounted)
=============================================================================
