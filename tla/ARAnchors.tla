----------------------------- MODULE ARAnchors -----------------------------
(***************************************************************************)
(* The AR screen while its AR view is up (_ARWidgetState, lib/screens/     *)
(* ar.dart): taps that create anchors and nodes, the check, trash, plus    *)
(* and refresh buttons, the callbacks of the AR plugin, and the Firestore  *)
(* collections behind FirebaseManager.                                     *)
(*                                                                         *)
(* A Dart event handler runs to its first real suspension before any other *)
(* event is handled, so each action is one such run.  The suspensions are  *)
(* the calls of the platform: addAnchor, addNode, cloud anchor hosting     *)
(* (uploadAnchor) and resolving (downloadAnchor), and Firestore queries.   *)
(* Their answers are actions of their own and arrive in any order.         *)
(*                                                                         *)
(* One name stands for an anchor and for the node on it.  ARObjectManager  *)
(* records the node in anchor.childNodes when addNode is called, before    *)
(* the platform answers.                                                   *)
(***************************************************************************)
EXTENDS PlacementMode, FirebaseManager

CONSTANTS
  MaxAnchors,    \* bound: length of the anchors list
  MaxCalls       \* bound: outstanding calls of one kind for one anchor

ASSUME BoundsAssumption == MaxAnchors \in Nat /\ MaxCalls \in Nat \ {0}

VARIABLES
  tap,           \* how far the tap that creates an own anchor has got
  anchors,       \* names of the anchors the screen shows, oldest first
  nodes,         \* names of the nodes in the nodes list
  anchorsInDownloadProgress,  \* documents remembered for onAnchorDownloaded
  resolving,     \* outstanding downloadAnchor calls by cloud anchor id
  fetching,      \* outstanding getObjectsFromAnchor queries by anchor name
  hosting,       \* outstanding uploadAnchor calls by anchor name
  currentLocation,  \* arLocationManager.currentLocation is not null
  confirmed,     \* history: names the check button has had hosted
  trashed,       \* history: unconfirmed own names a refresh removed
  tapped,        \* history: names the taps of this placement mode created
  cancelled,     \* history: names the trash button was pressed for
  requested,     \* history: ids the listeners have asked ARCore for
  overlapped     \* history: outstanding ids that were asked for twice

screenVars == <<tap, anchors, nodes>>
callVars == <<anchorsInDownloadProgress, resolving, fetching, hosting>>
historyVars == <<confirmed, trashed, tapped, cancelled, requested, overlapped>>
vars == <<placementVars, storeVars, listenVars, screenVars, callVars,
          currentLocation, historyVars>>

TapStates == {"idle", "addAnchor", "addNode", "placed", "bare", "refused"}

Replies == {"true", "false", "null"}

\* Everything has its type.
TypeOK ==
  /\ PlacementTypeOK
  /\ FirebaseTypeOK
  /\ tap \in [OwnNames -> TapStates]
  /\ anchors \in Seq(Names)
  /\ Len(anchors) <= MaxAnchors
  /\ nodes \subseteq Names
  /\ anchorsInDownloadProgress \subseteq AnchorDoc
  /\ resolving \in [CloudIds -> 0..MaxCalls]
  /\ fetching \in [Names -> 0..MaxCalls]
  /\ hosting \in [Names -> 0..MaxCalls]
  /\ currentLocation \in BOOLEAN
  /\ confirmed \subseteq Names
  /\ trashed \subseteq OwnNames
  /\ tapped \subseteq OwnNames
  /\ cancelled \subseteq OwnNames
  /\ requested \subseteq CloudIds
  /\ overlapped \subseteq CloudIds

Init ==
  /\ PlacementInit
  /\ FirebaseInit
  /\ tap = [n \in OwnNames |-> "idle"]
  /\ anchors = <<>>
  /\ nodes = {}
  /\ anchorsInDownloadProgress = {}
  /\ resolving = [c \in CloudIds |-> 0]
  /\ fetching = [n \in Names |-> 0]
  /\ hosting = [n \in Names |-> 0]
  /\ currentLocation = FALSE
  /\ confirmed = {}
  /\ trashed = {}
  /\ tapped = {}
  /\ cancelled = {}
  /\ requested = {}
  /\ overlapped = {}

-----------------------------------------------------------------------------
(* Placing a model.                                                        *)

PlusButton ==
  /\ ~placingModel
  /\ enterPlacementMode(TRUE)
  /\ tapped' = {}
  /\ UNCHANGED <<storeVars, listenVars, screenVars, callVars, currentLocation,
                 confirmed, trashed, cancelled, requested, overlapped>>

ModelTapped ==
  /\ modelChoiceActive
  /\ onModelSelected
  /\ UNCHANGED <<storeVars, listenVars, screenVars, callVars, currentLocation, historyVars>>

\* A tap on a plane in placement mode: the handler suspends in addAnchor.  (A
\* tap that hits no plane throws in firstWhere and changes nothing.)
onPlaneOrPointTapped(n) ==
  /\ placingModel
  /\ ~didPlaceModel
  /\ tap[n] = "idle"
  /\ tap' = [tap EXCEPT ![n] = "addAnchor"]
  /\ tapped' = tapped \cup {n}
  /\ UNCHANGED <<placementVars, storeVars, listenVars, anchors, nodes, callVars, currentLocation,
                 confirmed, trashed, cancelled, requested, overlapped>>

\* Any other tap still runs the setState behind the if.
TapElsewhere ==
  /\ ~(placingModel /\ ~didPlaceModel)
  /\ tapHandled
  /\ UNCHANGED <<storeVars, listenVars, screenVars, callVars, currentLocation, historyVars>>

\* addAnchor answers.  A null answer throws at didAddAnchor!.
AddAnchorReply(n, r) ==
  /\ tap[n] = "addAnchor"
  /\ \/ /\ r = "true"
        /\ Len(anchors) < MaxAnchors
        /\ anchors' = Append(anchors, n)
        /\ tap' = [tap EXCEPT ![n] = "addNode"]
        /\ UNCHANGED placementVars
     \/ /\ r = "false"
        /\ tap' = [tap EXCEPT ![n] = "refused"]
        /\ tapHandled
        /\ UNCHANGED anchors
     \/ /\ r = "null"
        /\ tap' = [tap EXCEPT ![n] = "refused"]
        /\ UNCHANGED <<placementVars, anchors>>
  /\ UNCHANGED <<storeVars, listenVars, nodes, callVars, currentLocation, historyVars>>

\* addNode answers.  A null answer throws at didAddNodeToAnchor!.
AddNodeReply(n, r) ==
  /\ tap[n] = "addNode"
  /\ \/ /\ r = "true"
        /\ tap' = [tap EXCEPT ![n] = "placed"]
        /\ nodes' = nodes \cup {n}
        /\ tapHandled
     \/ /\ r = "false"
        /\ tap' = [tap EXCEPT ![n] = "bare"]
        /\ tapHandled
        /\ UNCHANGED nodes
     \/ /\ r = "null"
        /\ tap' = [tap EXCEPT ![n] = "bare"]
        /\ UNCHANGED <<placementVars, nodes>>
  /\ UNCHANGED <<storeVars, listenVars, anchors, callVars, currentLocation, historyVars>>

-----------------------------------------------------------------------------
(* Leaving placement mode and refreshing.                                  *)

\* The check button.  With no anchor in the list anchors.last throws, after
\* placement mode has been left.
uploadLatestAnchor ==
  /\ placingModel
  /\ exitPlacementMode(TRUE)
  /\ \/ /\ anchors # <<>>
        /\ hosting[Last(anchors)] < MaxCalls
        /\ hosting' = [hosting EXCEPT ![Last(anchors)] = @ + 1]
        /\ confirmed' = confirmed \cup {Last(anchors)}
     \/ /\ anchors = <<>>
        /\ UNCHANGED <<hosting, confirmed>>
  /\ UNCHANGED <<storeVars, listenVars, screenVars, anchorsInDownloadProgress, resolving, fetching,
                 currentLocation, trashed, tapped, cancelled, requested, overlapped>>

\* Fault: the anchors leave the view and stay in the list.
RemovedButListed ==
  /\ trashed' = trashed \cup ((Range(anchors) \cap OwnNames) \ confirmed)
  /\ UNCHANGED anchors

removeVisibleAnchors ==
  /\ trashed' = trashed \cup ((Range(anchors) \cap OwnNames) \ confirmed)
  /\ anchors' = <<>>

\* Without a location onError shows a message and no listener starts.
downloadAnchors ==
  \/ /\ currentLocation
     /\ downloadAnchorsByLocation
  \/ /\ ~currentLocation
     /\ UNCHANGED listenVars

refreshAnchors ==
  /\ removeVisibleAnchors
  /\ downloadAnchors

RefreshButton ==
  /\ refreshAnchors
  /\ UNCHANGED <<placementVars, storeVars, tap, nodes, callVars, currentLocation,
                 confirmed, tapped, cancelled, requested, overlapped>>

\* The trash button.
cancelModelPlacementPrematurely ==
  /\ placingModel
  /\ \/ /\ didPlaceModel
        /\ refreshAnchors
     \/ /\ ~didPlaceModel
        /\ UNCHANGED <<anchors, trashed, listenVars>>
  /\ exitPlacementMode(TRUE)
  /\ cancelled' = cancelled \cup (tapped \ confirmed)
  /\ UNCHANGED <<storeVars, tap, nodes, callVars, currentLocation,
                 confirmed, tapped, requested, overlapped>>

-----------------------------------------------------------------------------
(* Publishing.                                                             *)

\* Fault: the object is written before the anchor it belongs to.
ObjectBeforeAnchor(n, c) ==
  LET doc == [id |-> c, name |-> n, located |-> currentLocation] IN
  outbox' = IF n \in nodes THEN outbox \o uploadObject(doc) \o uploadAnchor(doc)
                           ELSE outbox \o uploadAnchor(doc)

\* The writes: the anchor, then its child node.  When the node is not in the
\* list firstWhere throws with the anchor's write already queued.
onAnchorUploaded(n, c) ==
  LET doc == [id |-> c, name |-> n, located |-> currentLocation] IN
  outbox' = IF n \in nodes THEN outbox \o uploadAnchor(doc) \o uploadObject(doc)
                           ELSE outbox \o uploadAnchor(doc)

\* ARCore has hosted an anchor and hands out its cloud anchor id.
HostOk(n, c) ==
  /\ hosting[n] > 0
  /\ c \in FreshIds
  /\ hosting' = [hosting EXCEPT ![n] = @ - 1]
  /\ onAnchorUploaded(n, c)
  /\ undelivered' = IF currentLocation THEN listeners ELSE undelivered
  /\ UNCHANGED <<placementVars, anchorDocs, objectDocs, rejected, listeners, screenVars,
                 anchorsInDownloadProgress, resolving, fetching, currentLocation, historyVars>>

\* ARCore gives up; no handler of the screen hears of it.
HostFail(n) ==
  /\ hosting[n] > 0
  /\ hosting' = [hosting EXCEPT ![n] = @ - 1]
  /\ UNCHANGED <<placementVars, storeVars, listenVars, screenVars,
                 anchorsInDownloadProgress, resolving, fetching, currentLocation, historyVars>>

-----------------------------------------------------------------------------
(* Downloading.                                                            *)

\* The callback that downloadAnchors gives the listener, for all of docs.
RequestAll(docs) ==
  LET ids == {d.id : d \in docs} IN
  /\ \A c \in ids : resolving[c] < MaxCalls
  /\ resolving' = [c \in CloudIds |-> IF c \in ids THEN resolving[c] + 1 ELSE resolving[c]]
  /\ requested' = requested \cup ids
  /\ overlapped' = overlapped \cup {c \in ids : resolving[c] > 0}

\* Fault: only the first document of the list is looked at.
SnapshotFirstOnly ==
  /\ undelivered > 0
  /\ undelivered' = undelivered - 1
  /\ LET docs == IF InRange = {} THEN {} ELSE {CHOOSE d \in InRange : TRUE} IN
       /\ RequestAll(docs)
       /\ anchorsInDownloadProgress' = anchorsInDownloadProgress \cup docs
  /\ UNCHANGED <<placementVars, storeVars, listeners, screenVars, fetching, hosting,
                 currentLocation, confirmed, trashed, tapped, cancelled>>

\* Fault: a document that was asked for before is not remembered again.
SnapshotRemembersNew ==
  /\ undelivered > 0
  /\ undelivered' = undelivered - 1
  /\ RequestAll(InRange)
  /\ anchorsInDownloadProgress' =
       anchorsInDownloadProgress \cup {d \in InRange : d.id \notin requested}
  /\ UNCHANGED <<placementVars, storeVars, listeners, screenVars, fetching, hosting,
                 currentLocation, confirmed, trashed, tapped, cancelled>>

\* A listener receives the list of documents in range.
Snapshot ==
  /\ undelivered > 0
  /\ undelivered' = undelivered - 1
  /\ RequestAll(InRange)
  /\ anchorsInDownloadProgress' = anchorsInDownloadProgress \cup InRange
  /\ UNCHANGED <<placementVars, storeVars, listeners, screenVars, fetching, hosting,
                 currentLocation, confirmed, trashed, tapped, cancelled>>

\* One downloadAnchor call for c ends.
Settle(c) ==
  /\ resolving[c] > 0
  /\ resolving' = [resolving EXCEPT ![c] = @ - 1]
  /\ overlapped' = IF resolving[c] = 1 THEN overlapped \ {c} ELSE overlapped

\* Fault: the anchor is rebuilt from the platform's answer and not from the
\* document that was remembered.
UncheckedDownload(c) ==
  /\ Settle(c)
  /\ Len(anchors) < MaxAnchors
  /\ anchors' = Append(anchors, c)
  /\ UNCHANGED <<placementVars, storeVars, listenVars, tap, nodes, hosting, currentLocation,
                 anchorsInDownloadProgress, fetching, confirmed, trashed, tapped, cancelled, requested>>

\* ARCore has resolved c.  The cast throws when c is not in the map.
onAnchorDownloaded(c) ==
  /\ Settle(c)
  /\ \/ \E d \in anchorsInDownloadProgress :
          /\ d.id = c
          /\ Len(anchors) < MaxAnchors
          /\ fetching[d.name] < MaxCalls
          /\ anchorsInDownloadProgress' = anchorsInDownloadProgress \ {d}
          /\ anchors' = Append(anchors, d.name)
          /\ fetching' = [fetching EXCEPT ![d.name] = @ + 1]
     \/ /\ \A d \in anchorsInDownloadProgress : d.id # c
        /\ UNCHANGED <<anchorsInDownloadProgress, anchors, fetching>>
  /\ UNCHANGED <<placementVars, storeVars, listenVars, tap, nodes, hosting, currentLocation,
                 confirmed, trashed, tapped, cancelled, requested>>

\* ARCore gives up on c; no handler of the screen hears of it.
DownloadLost(c) ==
  /\ Settle(c)
  /\ UNCHANGED <<placementVars, storeVars, listenVars, screenVars, anchorsInDownloadProgress,
                 fetching, hosting, currentLocation, confirmed, trashed, tapped, cancelled, requested>>

\* The query for the objects of an anchor answers, or fails.
ObjectsReply(n) ==
  /\ fetching[n] > 0
  /\ fetching' = [fetching EXCEPT ![n] = @ - 1]
  /\ nodes' = nodes \cup ({n} \cap VisibleObjects)
  /\ UNCHANGED <<placementVars, storeVars, listenVars, tap, anchors, anchorsInDownloadProgress,
                 resolving, hosting, currentLocation, historyVars>>

ObjectsFail(n) ==
  /\ fetching[n] > 0
  /\ fetching' = [fetching EXCEPT ![n] = @ - 1]
  /\ UNCHANGED <<placementVars, storeVars, listenVars, screenVars, anchorsInDownloadProgress,
                 resolving, hosting, currentLocation, historyVars>>

-----------------------------------------------------------------------------
(* The environment.                                                        *)

LocationFix ==
  /\ ~currentLocation
  /\ currentLocation' = TRUE
  /\ UNCHANGED <<placementVars, storeVars, listenVars, screenVars, callVars, historyVars>>

Cloud ==
  /\ \/ WriteApplied
     \/ WriteRefused
     \/ \E c \in CloudIds, n \in Names : ForeignAnchor(c, n)
     \/ \E n \in ForeignNames : ForeignObject(n)
  /\ UNCHANGED <<placementVars, screenVars, callVars, currentLocation, historyVars>>

User ==
  \/ PlusButton
  \/ ModelTapped
  \/ \E n \in OwnNames : onPlaneOrPointTapped(n)
  \/ TapElsewhere
  \/ uploadLatestAnchor
  \/ RefreshButton
  \/ cancelModelPlacementPrematurely

Plugin ==
  \/ \E n \in OwnNames, r \in Replies : AddAnchorReply(n, r) \/ AddNodeReply(n, r)
  \/ \E n \in Names, c \in CloudIds : HostOk(n, c)
  \/ \E n \in Names : HostFail(n) \/ ObjectsReply(n) \/ ObjectsFail(n)
  \/ Snapshot
  \/ \E c \in CloudIds : onAnchorDownloaded(c) \/ DownloadLost(c)
  \/ LocationFix

Next == User \/ Plugin \/ Cloud

Spec == Init /\ [][Next]_vars

(***************************************************************************)
(* What the platform owes the screen: it delivers snapshots, and a resolve *)
(* ends, with an anchor or without.  Users owe nothing.                    *)
(***************************************************************************)
Fairness ==
  /\ WF_vars(Snapshot)
  /\ \A c \in CloudIds : WF_vars(onAnchorDownloaded(c) \/ DownloadLost(c))

FairSpec == Spec /\ Fairness

-----------------------------------------------------------------------------
(* Properties.                                                             *)

HostedNames == {n \in Names : hosting[n] > 0}

QueuedOrStored == {d.name : d \in anchorDocs \cup QueuedAnchors}

\* An own model that removeVisibleAnchors took away before the user confirmed
\* it (the trash button, or a refresh in the middle of placing) is never
\* handed to ARCore, queued for Firestore or published, whichever reply,
\* refresh or check comes later: uploadLatestAnchor reads anchors.last long
\* after the anchor was created.
TrashedNeverPublished ==
  trashed \cap (HostedNames \cup QueuedOrStored \cup confirmed) = {}

\* An object is in the objects collection only when the anchor it belongs to
\* has been stored, or was refused: onAnchorUploaded writes the anchor first
\* and Firestore keeps the order, so nobody finds an object of an anchor that
\* is still on its way.
ObjectsFollowAnchors ==
  \A n \in objectDocs : \E d \in anchorDocs \cup rejected : d.name = n

\* The document a resolved anchor is rebuilt from is in the map when the
\* answer comes, unless a listener asked for the same id again while the
\* first call was outstanding (each refresh adds a listener, none is ever
\* cancelled): only then can onAnchorDownloaded fail on its cast.
MissedOnlyWhenOverlapped ==
  \A c \in CloudIds :
    resolving[c] > 0 /\ c \notin overlapped =>
      \E d \in anchorsInDownloadProgress : d.id = c

Session == INSTANCE PlacementSession WITH
  placing <- placingModel,
  choosing <- modelChoiceActive,
  placed <- placingModel /\ didPlaceModel

\* The screen's flags behave like a placement session, although answers to the
\* taps of earlier sessions set didPlaceModel at any time.
SessionSpec == Session!Spec

\* An anchor document in range is asked for by a screen that listens.
PublishedArtIsRequested ==
  \A c \in CloudIds :
    (listeners > 0 /\ \E d \in anchorDocs : d.id = c /\ d.located)
      ~> c \in requested

-----------------------------------------------------------------------------
(* What the documentation says of the screen and the code does not do.     *)

\* The community guidelines screen: "You must be the creator of any art you
\* upload to Decarl."  The check button hosts the last anchor of the list,
\* whoever made it.
UploadsOnlyOwnArt == HostedNames \subseteq OwnNames

\* The trash button is for "their currently placed model without uploading
\* it": a model it was pressed for is not uploaded.
CancelledNeverUploaded == cancelled \cap confirmed = {}

\* onAnchorUploaded promises to "Upload child nodes to firebase": as long as
\* the write of an anchor is queued, that of its object is queued behind it.
AnchorsQueuedWithObjects == \A d \in QueuedAnchors : d.name \in QueuedObjects
=============================================================================
