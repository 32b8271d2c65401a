-------------------------- MODULE MapScreenProofs --------------------------
(***************************************************************************)
(* Proofs about MapScreen, for any art, any places and any movement of the *)
(* user.                                                                   *)
(***************************************************************************)
EXTENDS MapScreen, DataTheorems

\* hueFromDistance returns one of the colours of hueMap, and a colour is never
\* warmer for a larger distance.
LEMMA HueMonotone ==
  ASSUME NEW d \in Nat, NEW e \in Nat, d <= e
  PROVE  hueFromDistance(d) <= hueFromDistance(e)
<1> DEFINE K(x) == {k \in DOMAIN HueKeys : x <= HueKeys[k]}
           F(x) == CHOOSE k \in K(x) : \A j \in K(x) : k <= j
<1>1. DOMAIN HueKeys = 1..6
      /\ HueKeys[1] = 20 /\ HueKeys[2] = 50 /\ HueKeys[3] = 75
      /\ HueKeys[4] = 150 /\ HueKeys[5] = 200 /\ HueKeys[6] = 500
  BY DEF HueKeys
<1>2. Hues[1] = 0 /\ Hues[2] = 30 /\ Hues[3] = 60 /\ Hues[4] = 120 /\ Hues[5] = 240 /\ Hues[6] = 270
  BY DEF Hues
<1>3. ASSUME NEW x \in Nat, K(x) # {}
      PROVE  F(x) \in K(x) /\ \A j \in K(x) : F(x) <= j
  <2>1. K(x) \subseteq 1..6
    BY <1>1
  <2>2. \E k \in K(x) : \A j \in K(x) : k <= j
    <3> HIDE DEF K
    <3>1. CASE 1 \in K(x)
      BY <2>1, <3>1
    <3>2. CASE 1 \notin K(x) /\ 2 \in K(x)
      BY <2>1, <3>2
    <3>3. CASE 1 \notin K(x) /\ 2 \notin K(x) /\ 3 \in K(x)
      BY <2>1, <3>3
    <3>4. CASE 1 \notin K(x) /\ 2 \notin K(x) /\ 3 \notin K(x) /\ 4 \in K(x)
      BY <2>1, <3>4
    <3>5. CASE 1 \notin K(x) /\ 2 \notin K(x) /\ 3 \notin K(x) /\ 4 \notin K(x) /\ 5 \in K(x)
      BY <2>1, <3>5
    <3>6. CASE 1 \notin K(x) /\ 2 \notin K(x) /\ 3 \notin K(x) /\ 4 \notin K(x) /\ 5 \notin K(x)
      BY <2>1, <3>6, <1>3
    <3>7. QED BY <3>1, <3>2, <3>3, <3>4, <3>5, <3>6
  <2>3. QED BY <2>2
<1>4. \A x \in Nat : hueFromDistance(x) = IF K(x) = {} THEN 270 ELSE Hues[F(x)]
  BY DEF hueFromDistance, hueViolet
<1>5. K(e) \subseteq K(d)
  BY <1>1
<1>6. \A i, j \in 1..6 : i <= j => Hues[i] <= Hues[j] /\ Hues[j] <= 270
  BY <1>2
<1>7. K(d) \subseteq 1..6 /\ K(e) \subseteq 1..6
  BY <1>1
<1> HIDE DEF K, F
<1>8. CASE K(e) = {}
  <2>1. CASE K(d) = {}
    BY <1>4, <1>8, <2>1
  <2>2. CASE K(d) # {}
    BY <1>2, <1>3, <1>4, <1>6, <1>7, <1>8, <2>2
  <2>3. QED BY <2>1, <2>2
<1>9. CASE K(e) # {}
  <2>1. F(d) \in 1..6 /\ F(e) \in 1..6 /\ F(d) <= F(e)
    BY <1>3, <1>5, <1>7, <1>9
  <2>2. QED BY <1>4, <1>5, <1>6, <1>9, <2>1
<1>10. QED BY <1>8, <1>9

\* A distance is a natural number.
LEMMA DistanceNat == \A p, q \in Int : distance(p, q) \in Nat
BY DEF distance

(***************************************************************************)
(* The map is there only with a position, and the position is one the user *)
(* has been at.  Markers come from _onMapCreated alone, which runs once for *)
(* a state: all of them were coloured from the one place markedFrom.       *)
(***************************************************************************)
MapInv ==
  /\ gmap \in {"none", "creating", "created"}
  /\ currentPos \in Spots \cup {NoPos}
  /\ gmap # "none" => currentPos # NoPos
  /\ ~Mounted => gmap = "none"
  /\ \A i \in DOMAIN fetched : fetched[i] \in Int
  /\ gmap # "created" => markerList = {}
  /\ markerList # {} => markedFrom \in Spots
  /\ \A m \in markerList :
       m.place \in Int /\ m.hue = hueFromDistance(distance(markedFrom, m.place))
  /\ UniqueMarkerIds

\* The loop over the documents adds only positions.
LEMMA ParsedPlaces ==
  ASSUME NEW docs \in SetToSeqs(published), published \subseteq Art
  PROVE  \A i \in DOMAIN Parsed(docs) : Parsed(docs)[i] \in Int
<1>1. docs \in [1..Cardinality(published) -> published]
  BY DEF SetToSeqs
<1>2. \A i \in DOMAIN docs : docs[i] \in Art
  BY <1>1
<1>3. \A a \in Art : Place[a] \in Int
  BY MapAssumption
<1>4. QED BY <1>2, <1>3 DEF Parsed

\* The list a fix reads is empty, so it makes no markers.
LEMMA NoRefreshedMarkers == \A pos : markerList \cup Markers(getAnchors, pos) = markerList
<1>1. DOMAIN <<>> = {}
  OBVIOUS
<1>2. QED BY <1>1 DEF Markers, getAnchors

\* Every step keeps the markers in order.
LEMMA MapInvStep == MapInv /\ published \subseteq Art /\ [Next]_vars => MapInv'
<1> SUFFICES ASSUME MapInv, published \subseteq Art, [Next]_vars PROVE MapInv'
  OBVIOUS
<1> USE DEF Mounted, appVars, stateVars
<1>1. ASSUME NEW ok \in BOOLEAN, AppInitialised(ok) PROVE MapInv'
  BY <1>1 DEF AppInitialised, MapInv, UniqueMarkerIds
<1>2. ASSUME NEW ok \in BOOLEAN, AnchorsReply(ok) PROVE MapInv'
  <2>1. \A i \in DOMAIN fetched' : fetched'[i] \in Int
    BY <1>2, ParsedPlaces DEF AnchorsReply, MapInv
  <2>2. QED BY <1>2, <2>1 DEF AnchorsReply, MapInv, UniqueMarkerIds
<1>3. ASSUME NEW a \in Art, Publish(a) PROVE MapInv'
  BY <1>3 DEF Publish, MapInv, UniqueMarkerIds
<1>4. ASSUME NEW index \in Pages, Navigate(index) PROVE MapInv'
  <2> USE <1>4 DEF Navigate, handleNavSelection
  <2>1. CASE Mounted /\ index # MapPage /\ FreshState
    BY <2>1 DEF FreshState, MapInv, UniqueMarkerIds
  <2>2. CASE ~Mounted /\ index = MapPage /\ gmap' = build(NoPos)
             /\ UNCHANGED <<style, locating, permission, currentPos, markerList, markedFrom>>
    BY <2>2 DEF build, MapInv, UniqueMarkerIds
  <2>3. CASE (Mounted <=> index = MapPage) /\ UNCHANGED stateVars
    BY <2>3 DEF MapInv, UniqueMarkerIds
  <2>4. QED BY <2>1, <2>2, <2>3
<1>5. CASE StyleLoaded
  BY <1>5 DEF StyleLoaded, MapInv, UniqueMarkerIds
<1>6. CASE getLocationUpdates
  BY <1>6 DEF getLocationUpdates, MapInv, UniqueMarkerIds
<1>7. ASSUME NEW pos \in Spots, LocationFix(pos) PROVE MapInv'
  <2> USE <1>7 DEF LocationFix, onLocationChanged
  <2>1. markerList' = markerList
    BY NoRefreshedMarkers
  <2>2. pos # NoPos
    BY MapAssumption
  <2>3. QED BY <2>1, <2>2 DEF build, MapInv, UniqueMarkerIds
<1>8. CASE _onMapCreated
  <2> USE <1>8 DEF _onMapCreated
  <2>1. CASE style
    <3> DEFINE list == IF initialLocationData = "fetched" THEN fetched ELSE <<>>
    <3>1. \A i \in DOMAIN list : list[i] \in Int
      BY DEF MapInv
    <3>2. markerList' = Markers(list, currentPos) /\ markedFrom' = currentPos
      BY <2>1 DEF MapInv
    <3>3. currentPos \in Spots
      BY DEF MapInv
    <3> HIDE DEF list
    <3>4. \A m \in markerList' :
            m.place \in Int /\ m.hue = hueFromDistance(distance(markedFrom', m.place))
      BY <3>1, <3>2 DEF Markers
    <3>5. UniqueMarkerIds'
      BY <3>2 DEF UniqueMarkerIds, Markers
    <3>6. QED BY <3>2, <3>3, <3>4, <3>5 DEF MapInv
  <2>2. CASE ~style
    BY <2>2 DEF MapInv, UniqueMarkerIds
  <2>3. QED BY <2>1, <2>2
<1>9. CASE UNCHANGED vars
  BY <1>9 DEF vars, MapInv, UniqueMarkerIds
<1>10. QED BY <1>1, <1>2, <1>3, <1>4, <1>5, <1>6, <1>7, <1>8, <1>9 DEF Next

\* Only art is published.
LEMMA PublishedStep == published \subseteq Art /\ [Next]_vars => (published \subseteq Art)'
<1> SUFFICES ASSUME published \subseteq Art, [Next]_vars PROVE published' \subseteq Art
  OBVIOUS
<1>1. ASSUME NEW a \in Art, Publish(a) PROVE published' \subseteq Art
  BY <1>1 DEF Publish
<1>2. CASE published' = published
  BY <1>2
<1>3. QED
  BY <1>1, <1>2 DEF Next, vars, appVars, AppInitialised, AnchorsReply, Navigate, StyleLoaded,
     getLocationUpdates, LocationFix, _onMapCreated

\* In every state the markers are in order and only art is published.
LEMMA MapAlways == Spec => [](MapInv /\ published \subseteq Art)
<1>1. Init => MapInv /\ published \subseteq Art
  <2> SUFFICES ASSUME Init PROVE MapInv /\ published \subseteq Art
    OBVIOUS
  <2>1. DOMAIN <<>> = {}
    OBVIOUS
  <2>2. QED BY <2>1 DEF Init, MapInv, UniqueMarkerIds
<1>2. (MapInv /\ published \subseteq Art) /\ [Next]_vars => (MapInv /\ published \subseteq Art)'
  BY MapInvStep, PublishedStep
<1>3. QED BY <1>1, <1>2, PTL DEF Spec

\* distance never dereferences a null position.
THEOREM PositionSafe == Spec => []PositionBeforeMap
<1>1. MapInv => PositionBeforeMap
  BY DEF MapInv, PositionBeforeMap
<1>2. QED BY <1>1, MapAlways, PTL

\* No two markers share an id, whatever fixes and navigation follow.
THEOREM MarkerIdsSafe == Spec => []UniqueMarkerIds
<1>1. MapInv => UniqueMarkerIds
  BY DEF MapInv
<1>2. QED BY <1>1, MapAlways, PTL

\* No colour is colder than that of a marker farther away, wherever the art and
\* the user are.
THEOREM ColoursSafe == Spec => []NearerIsWarmer
<1>1. MapInv => NearerIsWarmer
  <2> SUFFICES ASSUME MapInv, NEW m \in markerList, NEW n \in markerList,
                      distance(markedFrom, m.place) <= distance(markedFrom, n.place)
               PROVE  m.hue <= n.hue
    BY DEF NearerIsWarmer
  <2>1. markedFrom \in Int
    BY MapAssumption DEF MapInv
  <2>2. m.place \in Int /\ n.place \in Int
        /\ m.hue = hueFromDistance(distance(markedFrom, m.place))
        /\ n.hue = hueFromDistance(distance(markedFrom, n.place))
    BY DEF MapInv
  <2>3. distance(markedFrom, m.place) \in Nat /\ distance(markedFrom, n.place) \in Nat
    BY <2>1, <2>2, DistanceNat
  <2>4. QED BY <2>2, <2>3, HueMonotone
<1>2. QED BY <1>1, MapAlways, PTL

-----------------------------------------------------------------------------
(* Type correctness.                                                         *)

\* hueFromDistance returns one of the colours of hueMap: the keys the distance
\* does not exceed have a first one, unless there are none.
LEMMA HueType == \A d \in Nat : hueFromDistance(d) \in Range(Hues)
<1> SUFFICES ASSUME NEW d \in Nat PROVE hueFromDistance(d) \in Range(Hues)
  OBVIOUS
<1> DEFINE K == {k \in DOMAIN HueKeys : d <= HueKeys[k]}
<1>1. DOMAIN HueKeys = 1..6 /\ DOMAIN Hues = 1..6 /\ Hues[6] = 270
  BY DEF HueKeys, Hues
<1>2. K \subseteq 1..6 /\ K \subseteq Nat
  BY <1>1
<1>3. hueFromDistance(d) = IF K = {} THEN 270 ELSE Hues[CHOOSE k \in K : \A j \in K : k <= j]
  BY DEF hueFromDistance, hueViolet
<1> HIDE DEF K
<1>4. CASE K = {}
  BY <1>1, <1>3, <1>4 DEF Range
<1>5. CASE K # {}
  <2>1. \E k \in K : \A j \in K : k <= j
    BY <1>2, <1>5, NatMin
  <2>2. PICK k \in 1..6 : k = CHOOSE i \in K : \A j \in K : i <= j
    BY <1>2, <2>1
  <2>3. hueFromDistance(d) = Hues[k]
    BY <1>3, <1>5, <2>2
  <2>4. QED BY <1>1, <2>3 DEF Range
<1>6. QED BY <1>4, <1>5

\* What the loop over the documents adds is a list: it ends at the first
\* document without a position and skips none before that.
LEMMA ParsedType ==
  ASSUME NEW docs \in SetToSeqs(published), published \subseteq Art
  PROVE  Parsed(docs) \in Seq(Range(Place))
<1> DEFINE n == Cardinality(published)
           D == {k \in 1..n : \A j \in 1..k : docs[j] \notin Unlocated}
<1>1. n \in Nat
  BY MapAssumption, FS_Subset, FS_CardinalityType
<1>2. docs \in [1..n -> published]
  BY DEF SetToSeqs
<1>3. \A i \in 1..n : Place[docs[i]] \in Range(Place)
  BY <1>2, MapAssumption DEF Range
<1>4. \E m \in Nat : D = 1..m
  <2> DEFINE T == {k \in 1..(n + 1) : k \notin D}
  <2>1. T \subseteq Nat /\ n + 1 \in T
    BY <1>1
  <2>2. PICK k \in T : \A x \in T : k <= x
    BY <2>1, NatMin
  <2>3. k \in 1..(n + 1) /\ k \notin D
    BY <2>2
  <2>4. \A x \in 1..(k - 1) : x \in D
    BY <1>1, <2>2, <2>3
  <2>5. \A x \in D : x < k
    BY <1>1, <2>3
  <2>6. D = 1..(k - 1)
    <3>1. D \subseteq 1..n
      OBVIOUS
    <3>2. n \in Nat /\ k \in 1..(n + 1)
      BY <1>1, <2>3
    <3> HIDE DEF D, T, n
    <3>3. \A x \in D : x \in 1..(k - 1)
      BY <2>5, <3>1, <3>2
    <3>4. QED BY <2>4, <3>3
  <2>7. QED BY <2>3, <2>6
<1>5. Parsed(docs) = [i \in D |-> Place[docs[i]]]
  BY <1>2 DEF Parsed
<1>6. D \subseteq 1..n
  OBVIOUS
<1> HIDE DEF D
<1>7. PICK m \in Nat : D = 1..m
  BY <1>4
<1>8. Parsed(docs) \in [1..m -> Range(Place)]
  BY <1>3, <1>5, <1>6, <1>7
<1>9. QED BY <1>7, <1>8

\* A list of places makes markers.
LEMMA MarkersType ==
  ASSUME NEW list \in Seq(Range(Place)), NEW pos \in Int
  PROVE  Markers(list, pos) \subseteq Marker
<1>1. \A p \in Range(Place) : p \in Int
  BY MapAssumption DEF Range
<1>2. \A p \in Range(Place) : hueFromDistance(distance(pos, p)) \in Range(Hues)
  BY <1>1, DistanceNat, HueType
<1>3. \A i \in DOMAIN list : i \in Nat /\ list[i] \in Range(Place)
  OBVIOUS
<1>4. QED BY <1>2, <1>3 DEF Markers, Marker

\* Every step keeps the types, given that a map is there only with a position.
LEMMA TypeStep == MapInv /\ TypeOK /\ [Next]_vars => TypeOK'
<1> SUFFICES ASSUME MapInv, TypeOK, [Next]_vars PROVE TypeOK'
  OBVIOUS
<1> USE DEF appVars, stateVars
<1>1. ASSUME NEW ok \in BOOLEAN, AppInitialised(ok) PROVE TypeOK'
  BY <1>1 DEF AppInitialised, TypeOK
<1>2. ASSUME NEW ok \in BOOLEAN, AnchorsReply(ok) PROVE TypeOK'
  <2>1. published \subseteq Art
    BY DEF TypeOK
  <2>2. fetched' \in Seq(Range(Place))
    BY <1>2, <2>1, ParsedType DEF AnchorsReply, TypeOK
  <2>3. QED BY <1>2, <2>2 DEF AnchorsReply, TypeOK
<1>3. ASSUME NEW a \in Art, Publish(a) PROVE TypeOK'
  BY <1>3 DEF Publish, TypeOK
<1>4. ASSUME NEW index \in Pages, Navigate(index) PROVE TypeOK'
  <2>1. selectedPageIndex' \in Pages /\ initialLocationData' \in {"empty", "fetched"}
    BY <1>4 DEF Navigate, handleNavSelection, TypeOK
  <2>2. UNCHANGED <<published, appInit, posData, fetch, fetched>>
    BY <1>4 DEF Navigate
  <2>3. CASE FreshState
    BY <2>1, <2>2, <2>3 DEF FreshState, Permissions, TypeOK
  <2>4. CASE gmap' = build(NoPos)
             /\ UNCHANGED <<style, locating, permission, currentPos, markerList, markedFrom>>
    BY <2>1, <2>2, <2>4 DEF build, TypeOK
  <2>5. CASE UNCHANGED stateVars
    BY <2>1, <2>2, <2>5 DEF TypeOK
  <2>6. QED BY <1>4, <2>3, <2>4, <2>5 DEF Navigate
<1>5. CASE StyleLoaded
  BY <1>5 DEF StyleLoaded, TypeOK
<1>6. CASE getLocationUpdates
  <2>1. locating' \in {"service", "requestService", "permission", "requestPermission", "stopped", "listening"}
        /\ permission' \in Permissions
    BY <1>6 DEF getLocationUpdates, ServiceEnabled, ServiceRequested, HasPermission,
                PermissionRequested, TypeOK
  <2>2. QED BY <1>6, <2>1 DEF getLocationUpdates, TypeOK
<1>7. ASSUME NEW pos \in Spots, LocationFix(pos) PROVE TypeOK'
  <2>1. markerList' = markerList
    BY <1>7, NoRefreshedMarkers DEF LocationFix, onLocationChanged
  <2>2. QED BY <1>7, <2>1 DEF LocationFix, onLocationChanged, build, TypeOK
<1>8. CASE _onMapCreated
  <2>1. currentPos \in Spots /\ currentPos \in Int
    BY <1>8, MapAssumption DEF _onMapCreated, MapInv
  <2>2. <<>> \in Seq(Range(Place))
    OBVIOUS
  <2>3. Markers(IF initialLocationData = "fetched" THEN fetched ELSE <<>>, currentPos) \subseteq Marker
    BY <2>1, <2>2, MarkersType DEF TypeOK
  <2>4. markerList' \subseteq Marker
    BY <1>8, <2>3 DEF _onMapCreated, TypeOK
  <2>5. QED BY <1>8, <2>1, <2>4 DEF _onMapCreated, TypeOK
<1>9. CASE UNCHANGED vars
  BY <1>9 DEF vars, TypeOK
<1>10. QED BY <1>1, <1>2, <1>3, <1>4, <1>5, <1>6, <1>7, <1>8, <1>9 DEF Next

\* Everything keeps its type: the list of positions stays a list although the
\* loop over the documents may be cut short, and every marker has a colour of
\* hueMap and a position some art has.
THEOREM MapTypeCorrect == Spec => []TypeOK
<1>1. Init => TypeOK
  <2> SUFFICES ASSUME Init PROVE TypeOK
    OBVIOUS
  <2>1. <<>> \in Seq(Range(Place)) /\ {} \subseteq Marker
    OBVIOUS
  <2>2. selectedPageIndex \in Pages
    BY DEF Init, NavInit, Pages, Welcome1, MapPage
  <2>3. QED BY <2>1, <2>2 DEF Init, Permissions, TypeOK
<1>2. MapInv /\ TypeOK /\ [Next]_vars => TypeOK'
  BY TypeStep
<1>3. QED BY <1>1, <1>2, MapAlways, PTL DEF Spec

\* No link on a page after the welcome pages leads back to them.
LEMMA LinksLeadOn ==
  ASSUME NEW p \in Pages, p > 2, NEW q \in Links(p)
  PROVE  q > 2
<1>1. PageLinks[p] \subseteq {UserPage, SettingsPage, CommunityGuidelines}
  BY DEF PageLinks, UserLinks, SettingsLinks, GuidelinesLinks, TopBar, Pages, Welcome1, Welcome2, Welcome3,
         ARWidget, UserPage, SettingsPage, CommunityGuidelines, MapPage
<1>2. q \in PageLinks[p] \cup Navbar
  BY DEF Links
<1>3. QED BY <1>1, <1>2 DEF Navbar, ARWidget, UserPage, SettingsPage, CommunityGuidelines, MapPage

\* The welcome pages come once: no sequence of links, back buttons and navbar
\* presses leads back to them, although UserPage's TopBar names one of them
\* (handleNavSelection, TopBar).
THEOREM WelcomeSafe == Spec => WelcomeOnlyOnce
<1>1. TypeOK /\ [Next]_vars => [selectedPageIndex > 2 => selectedPageIndex' > 2]_vars
  <2>1. SUFFICES ASSUME TypeOK, Next, selectedPageIndex > 2 PROVE selectedPageIndex' > 2
    OBVIOUS
  <2>2. selectedPageIndex \in Pages
    BY <2>1 DEF TypeOK
  <2>3. ASSUME NEW index \in Pages, Navigate(index) PROVE selectedPageIndex' > 2
    <3>1. index \in Links(selectedPageIndex) /\ selectedPageIndex' = index
      BY <2>3 DEF Navigate, handleNavSelection
    <3>2. QED BY <2>1, <2>2, <3>1, LinksLeadOn
  <2>4. (\E index \in Pages : Navigate(index)) \/ selectedPageIndex' = selectedPageIndex
    BY <2>1 DEF Next, AppInitialised, AnchorsReply, Publish, StyleLoaded, getLocationUpdates, LocationFix,
                onLocationChanged, _onMapCreated
  <2>5. QED BY <2>1, <2>3, <2>4
<1>2. QED BY <1>1, MapTypeCorrect, PTL DEF Spec, WelcomeOnlyOnce

=============================================================================
