-------------------------- MODULE ARAnchorsProofs --------------------------
(***************************************************************************)
(* Proofs about ARAnchors, for every set of names and ids and every bound. *)
(***************************************************************************)
EXTENDS ARAnchors, SequenceTheorems, TLAPS

\* The writes onAnchorUploaded queues are writes, and the queue stays one.
LEMMA OutboxGrows ==
  ASSUME NEW n \in Names, NEW c \in CloudIds,
         outbox \in Seq(Write), currentLocation \in BOOLEAN,
         onAnchorUploaded(n, c)
  PROVE  /\ outbox' \in Seq(Write)
         /\ \A i \in 1..Len(outbox') :
              i > Len(outbox) => /\ outbox'[i].doc.name = n
                                 /\ outbox'[i].doc.id = c
                                 /\ outbox'[i].kind = "object" =>
                                      \E j \in 1..(i - 1) : /\ outbox'[j].kind = "anchor"
                                                            /\ outbox'[j].doc.name = n
         /\ Len(outbox') >= Len(outbox)
         /\ \A i \in 1..Len(outbox) : outbox'[i] = outbox[i]
<1> DEFINE doc == [id |-> c, name |-> n, located |-> currentLocation]
           wa == [kind |-> "anchor", doc |-> doc]
           wo == [kind |-> "object", doc |-> doc]
<1>1. doc \in AnchorDoc /\ doc.name = n /\ doc.id = c
  BY DEF AnchorDoc
<1>2. wa \in Write /\ wo \in Write /\ wa.doc = doc /\ wo.doc = doc
      /\ wa.kind = "anchor" /\ wo.kind = "object"
  BY <1>1 DEF Write
<1> HIDE DEF doc
<1>3. outbox' = outbox \o <<wa>> \/ outbox' = (outbox \o <<wa>>) \o <<wo>>
  BY DEF onAnchorUploaded, uploadAnchor, uploadObject, doc
<1> HIDE DEF wa, wo
<1>4. CASE outbox' = outbox \o <<wa>>
  BY <1>1, <1>2, <1>4
<1>5. CASE outbox' = (outbox \o <<wa>>) \o <<wo>>
  <2> DEFINE L == Len(outbox)
  <2>1. /\ outbox' \in Seq(Write)
        /\ L \in Nat
        /\ Len(outbox') = L + 2
        /\ outbox'[L + 1] = wa
        /\ outbox'[L + 2] = wo
        /\ \A i \in 1..L : outbox'[i] = outbox[i]
    BY <1>2, <1>5
  <2> HIDE DEF L
  <2>2. \A i \in 1..Len(outbox') : i > L => i = L + 1 \/ i = L + 2
    BY <2>1
  <2>3. L + 1 \in 1..((L + 2) - 1)
    BY <2>1
  <2>4. QED BY <1>1, <1>2, <2>1, <2>2, <2>3 DEF L
<1>6. QED BY <1>3, <1>4, <1>5

\* A settled write leaves a shorter queue.
LEMMA OutboxShrinks ==
  ASSUME outbox \in Seq(Write), outbox # <<>>, outbox' = Tail(outbox)
  PROVE  /\ outbox' \in Seq(Write)
         /\ Head(outbox) = outbox[1]
         /\ Head(outbox) \in Write
         /\ 1 \in 1..Len(outbox)
         /\ Len(outbox') = Len(outbox) - 1
         /\ \A i \in 1..Len(outbox') : outbox'[i] = outbox[i + 1] /\ i + 1 \in 1..Len(outbox)
OBVIOUS

\* The screen's list of anchors after one more anchor.
LEMMA AnchorsGrow ==
  ASSUME NEW n \in Names, anchors \in Seq(Names), anchors' = Append(anchors, n),
         Len(anchors) < MaxAnchors, MaxAnchors \in Nat
  PROVE  /\ anchors' \in Seq(Names)
         /\ Len(anchors') <= MaxAnchors
         /\ Len(anchors') = Len(anchors) + 1
         /\ anchors'[Len(anchors')] = n
         /\ \A i \in 1..Len(anchors) : anchors'[i] = anchors[i]
OBVIOUS

-----------------------------------------------------------------------------
\* The empty lists are lists.
LEMMA EmptyLists ==
  /\ \A S : <<>> \in Seq(S)
  /\ Len(<<>>) = 0
  /\ 0 <= MaxAnchors
BY BoundsAssumption

LEMMA TypeInit == Init => TypeOK
<1> SUFFICES ASSUME Init PROVE TypeOK
  OBVIOUS
<1>1. PlacementTypeOK
  BY DEF Init, PlacementInit, PlacementTypeOK
<1>2. FirebaseTypeOK
  BY EmptyLists, MaxListenersAssumption DEF Init, FirebaseInit, FirebaseTypeOK
<1>3. 0 \in 0..MaxCalls
  BY BoundsAssumption
<1>4. QED BY <1>1, <1>2, <1>3, EmptyLists DEF Init, TypeOK, TapStates

\* What a refresh assigns has its type.
LEMMA RefreshTypes ==
  ASSUME TypeOK, refreshAnchors
  PROVE  /\ anchors' \in Seq(Names)
         /\ Len(anchors') <= MaxAnchors
         /\ listeners' \in 0..MaxListeners
         /\ undelivered' \in 0..listeners'
         /\ trashed' \subseteq OwnNames
<1>1. anchors' \in Seq(Names) /\ Len(anchors') <= MaxAnchors
  BY EmptyLists DEF refreshAnchors, removeVisibleAnchors
<1>2. listeners' \in 0..MaxListeners /\ undelivered' \in 0..listeners'
  BY MaxListenersAssumption DEF TypeOK, FirebaseTypeOK, refreshAnchors, downloadAnchors,
     downloadAnchorsByLocation, listenVars
<1>3. trashed' \subseteq OwnNames
  BY DEF TypeOK, refreshAnchors, removeVisibleAnchors
<1>4. QED BY <1>1, <1>2, <1>3

LEMMA TypeUser ==
  ASSUME TypeOK, User
  PROVE  TypeOK'
<1> USE MaxListenersAssumption, BoundsAssumption
    DEF TypeOK, PlacementTypeOK, FirebaseTypeOK, TapStates, placementVars, storeVars, listenVars,
        screenVars, callVars, historyVars
<1>1. CASE PlusButton
  BY <1>1 DEF PlusButton, enterPlacementMode
<1>2. CASE ModelTapped
  BY <1>2 DEF ModelTapped, onModelSelected
<1>3. ASSUME NEW n \in OwnNames, onPlaneOrPointTapped(n) PROVE TypeOK'
  BY <1>3 DEF onPlaneOrPointTapped
<1>4. CASE TapElsewhere
  BY <1>4 DEF TapElsewhere, tapHandled
<1>5. CASE uploadLatestAnchor
  <2>1. anchors # <<>> => Last(anchors) \in Names
    BY DEF Last
  <2>2. confirmed' \subseteq Names
    BY <1>5, <2>1 DEF uploadLatestAnchor
  <2>3. hosting' \in [Names -> 0..MaxCalls]
    <3> DEFINE x == Last(anchors)
    <3>1. CASE anchors = <<>>
      BY <1>5, <3>1 DEF uploadLatestAnchor
    <3>2. CASE anchors # <<>>
      <4>1. x \in Names /\ hosting[x] \in 0..MaxCalls /\ hosting[x] < MaxCalls
            /\ hosting' = [hosting EXCEPT ![x] = hosting[x] + 1]
        BY <1>5, <3>2, <2>1 DEF uploadLatestAnchor
      <4> HIDE DEF x
      <4>2. hosting[x] + 1 \in 0..MaxCalls
        BY <4>1
      <4>3. QED BY <4>1, <4>2
    <3>3. QED BY <3>1, <3>2
  <2>4. QED BY <1>5, <2>2, <2>3 DEF uploadLatestAnchor, exitPlacementMode
<1>6. CASE RefreshButton
  BY <1>6, RefreshTypes DEF RefreshButton
<1>7. CASE cancelModelPlacementPrematurely
  <2>1. /\ anchors' \in Seq(Names) /\ Len(anchors') <= MaxAnchors
        /\ listeners' \in 0..MaxListeners /\ undelivered' \in 0..listeners'
        /\ trashed' \subseteq OwnNames
    BY <1>7, RefreshTypes DEF cancelModelPlacementPrematurely
  <2>2. cancelled' \subseteq OwnNames
    BY <1>7 DEF cancelModelPlacementPrematurely
  <2>3. QED BY <1>7, <2>1, <2>2 DEF cancelModelPlacementPrematurely, exitPlacementMode
<1>8. QED BY <1>1, <1>2, <1>3, <1>4, <1>5, <1>6, <1>7 DEF User

\* The lists and sets queries read are made of documents and names.
LEMMA QueryTypes ==
  ASSUME TypeOK
  PROVE  /\ QueuedAnchors \subseteq AnchorDoc
         /\ QueuedObjects \subseteq Names
         /\ InRange \subseteq AnchorDoc
         /\ VisibleObjects \subseteq Names
<1>1. Range(outbox) \subseteq Write
  BY DEF TypeOK, FirebaseTypeOK, Range
<1>2. QueuedAnchors \subseteq AnchorDoc /\ QueuedObjects \subseteq Names
  BY <1>1 DEF QueuedAnchors, QueuedObjects, Write, AnchorDoc
<1>3. QED BY <1>2 DEF InRange, VisibleObjects, TypeOK, FirebaseTypeOK

\* Counters of outstanding calls stay within their bound.
LEMMA CountDown ==
  ASSUME NEW S, NEW f \in [S -> 0..MaxCalls], NEW x \in S, f[x] > 0
  PROVE  [f EXCEPT ![x] = @ - 1] \in [S -> 0..MaxCalls]
<1>1. f[x] - 1 \in 0..MaxCalls
  BY BoundsAssumption
<1>2. QED BY <1>1

LEMMA CountUp ==
  ASSUME NEW S, NEW f \in [S -> 0..MaxCalls], NEW x \in S, f[x] < MaxCalls
  PROVE  [f EXCEPT ![x] = @ + 1] \in [S -> 0..MaxCalls]
<1>1. f[x] + 1 \in 0..MaxCalls
  BY BoundsAssumption
<1>2. QED BY <1>1

LEMMA TypePlugin ==
  ASSUME TypeOK, Plugin
  PROVE  TypeOK'
<1> USE DEF TypeOK, PlacementTypeOK, FirebaseTypeOK, TapStates, placementVars, storeVars,
        listenVars, screenVars, callVars, historyVars
<1>1. ASSUME NEW n \in OwnNames, NEW r \in Replies, AddAnchorReply(n, r) PROVE TypeOK'
  <2>1. n \in Names
    BY DEF Names
  <2>2. anchors' \in Seq(Names) /\ Len(anchors') <= MaxAnchors
    <3>1. CASE anchors' = anchors
      BY <3>1
    <3>2. CASE anchors' = Append(anchors, n) /\ Len(anchors) < MaxAnchors
      BY <3>2, <2>1, AnchorsGrow, BoundsAssumption
    <3>3. QED BY <1>1, <3>1, <3>2 DEF AddAnchorReply
  <2>3. tap' \in [OwnNames -> TapStates]
    BY <1>1 DEF AddAnchorReply
  <2>4. PlacementTypeOK'
    BY <1>1 DEF AddAnchorReply, tapHandled
  <2>5. QED BY <1>1, <2>2, <2>3, <2>4 DEF AddAnchorReply
<1>2. ASSUME NEW n \in OwnNames, NEW r \in Replies, AddNodeReply(n, r) PROVE TypeOK'
  <2>1. nodes' \subseteq Names
    BY <1>2 DEF AddNodeReply, Names
  <2>2. tap' \in [OwnNames -> TapStates]
    BY <1>2 DEF AddNodeReply
  <2>3. PlacementTypeOK'
    BY <1>2 DEF AddNodeReply, tapHandled
  <2>4. QED BY <1>2, <2>1, <2>2, <2>3 DEF AddNodeReply
<1>3. ASSUME NEW n \in Names, NEW c \in CloudIds, HostOk(n, c) PROVE TypeOK'
  <2>1. outbox' \in Seq(Write)
    BY <1>3, OutboxGrows DEF HostOk
  <2>2. hosting' \in [Names -> 0..MaxCalls]
    BY <1>3, CountDown DEF HostOk
  <2>3. undelivered' \in 0..listeners'
    BY <1>3, MaxListenersAssumption DEF HostOk
  <2>4. QED BY <1>3, <2>1, <2>2, <2>3 DEF HostOk
<1>4. ASSUME NEW n \in Names, HostFail(n) PROVE TypeOK'
  BY <1>4, CountDown DEF HostFail
<1>5. ASSUME NEW n \in Names, ObjectsReply(n) PROVE TypeOK'
  <2>1. fetching' \in [Names -> 0..MaxCalls]
    BY <1>5, CountDown DEF ObjectsReply
  <2>2. QED BY <1>5, <2>1 DEF ObjectsReply
<1>6. ASSUME NEW n \in Names, ObjectsFail(n) PROVE TypeOK'
  BY <1>6, CountDown DEF ObjectsFail
<1>7. CASE Snapshot
  <2>1. InRange \subseteq AnchorDoc
    BY QueryTypes
  <2> DEFINE ids == {d.id : d \in InRange}
  <2>2. ids \subseteq CloudIds
    BY <2>1 DEF AnchorDoc
  <2>3. /\ \A c \in ids : resolving[c] < MaxCalls
        /\ resolving' = [c \in CloudIds |-> IF c \in ids THEN resolving[c] + 1 ELSE resolving[c]]
        /\ requested' = requested \cup ids
        /\ overlapped' = overlapped \cup {c \in ids : resolving[c] > 0}
    BY <1>7 DEF Snapshot, RequestAll
  <2> HIDE DEF ids
  <2>4. resolving' \in [CloudIds -> 0..MaxCalls]
    <3>1. \A c \in CloudIds : (IF c \in ids THEN resolving[c] + 1 ELSE resolving[c]) \in 0..MaxCalls
      BY <2>3, BoundsAssumption
    <3>2. QED BY <2>3, <3>1
  <2>5. requested' \subseteq CloudIds /\ overlapped' \subseteq CloudIds
    BY <2>2, <2>3
  <2>6. anchorsInDownloadProgress' \subseteq AnchorDoc
    BY <1>7, <2>1 DEF Snapshot
  <2>7. undelivered' \in 0..listeners'
    BY <1>7, MaxListenersAssumption DEF Snapshot
  <2>8. QED BY <1>7, <2>4, <2>5, <2>6, <2>7 DEF Snapshot
<1>8. ASSUME NEW c \in CloudIds, onAnchorDownloaded(c) PROVE TypeOK'
  <2>1. resolving' \in [CloudIds -> 0..MaxCalls] /\ overlapped' \subseteq CloudIds
    BY <1>8, CountDown DEF onAnchorDownloaded, Settle
  <2>2. CASE UNCHANGED <<anchorsInDownloadProgress, anchors, fetching>>
    BY <1>8, <2>1, <2>2 DEF onAnchorDownloaded
  <2>3. ASSUME NEW d \in anchorsInDownloadProgress,
               Len(anchors) < MaxAnchors,
               fetching[d.name] < MaxCalls,
               anchorsInDownloadProgress' = anchorsInDownloadProgress \ {d},
               anchors' = Append(anchors, d.name),
               fetching' = [fetching EXCEPT ![d.name] = @ + 1]
        PROVE  TypeOK'
    <3>1. d.name \in Names
      BY DEF AnchorDoc
    <3>2. anchors' \in Seq(Names) /\ Len(anchors') <= MaxAnchors
      BY <2>3, <3>1, AnchorsGrow, BoundsAssumption
    <3>3. fetching' \in [Names -> 0..MaxCalls]
      BY <2>3, <3>1, CountUp
    <3>4. QED BY <1>8, <2>1, <2>3, <3>2, <3>3 DEF onAnchorDownloaded
  <2>4. QED BY <1>8, <2>2, <2>3 DEF onAnchorDownloaded
<1>9. ASSUME NEW c \in CloudIds, DownloadLost(c) PROVE TypeOK'
  <2>1. resolving' \in [CloudIds -> 0..MaxCalls] /\ overlapped' \subseteq CloudIds
    BY <1>9, CountDown DEF DownloadLost, Settle
  <2>2. QED BY <1>9, <2>1 DEF DownloadLost
<1>10. CASE LocationFix
  BY <1>10 DEF LocationFix
<1>11. QED BY <1>1, <1>2, <1>3, <1>4, <1>5, <1>6, <1>7, <1>8, <1>9, <1>10 DEF Plugin

LEMMA TypeCloud ==
  ASSUME TypeOK, Cloud
  PROVE  TypeOK'
<1> USE DEF TypeOK, PlacementTypeOK, FirebaseTypeOK, TapStates, placementVars, storeVars,
        listenVars, screenVars, callVars, historyVars
<1>1. CASE WriteApplied
  <2>1. outbox' \in Seq(Write) /\ Head(outbox) \in Write
    BY <1>1, OutboxShrinks DEF WriteApplied
  <2>2. anchorDocs' \subseteq AnchorDoc /\ objectDocs' \subseteq Names
    BY <1>1, <2>1 DEF WriteApplied, Write, AnchorDoc
  <2>3. QED BY <1>1, <2>1, <2>2 DEF WriteApplied, Cloud
<1>2. CASE WriteRefused
  <2>1. outbox' \in Seq(Write) /\ Head(outbox) \in Write
    BY <1>2, OutboxShrinks DEF WriteRefused
  <2>2. rejected' \subseteq AnchorDoc
    BY <1>2, <2>1 DEF WriteRefused, Write
  <2>3. undelivered' \in 0..listeners'
    BY <1>2, MaxListenersAssumption DEF WriteRefused
  <2>4. QED BY <1>2, <2>1, <2>2, <2>3 DEF WriteRefused, Cloud
<1>3. ASSUME NEW c \in CloudIds, NEW n \in Names, ForeignAnchor(c, n) PROVE TypeOK'
  <2>1. anchorDocs' \subseteq AnchorDoc
    <3>1. [id |-> c, name |-> n, located |-> TRUE] \in AnchorDoc
      BY DEF AnchorDoc
    <3>2. QED BY <1>3, <3>1 DEF ForeignAnchor
  <2>2. undelivered' \in 0..listeners'
    BY <1>3, MaxListenersAssumption DEF ForeignAnchor
  <2>3. QED BY <1>3, <2>1, <2>2 DEF ForeignAnchor, Cloud
<1>4. ASSUME NEW n \in ForeignNames, ForeignObject(n) PROVE TypeOK'
  BY <1>4 DEF ForeignObject, Names, Cloud
<1>5. QED BY <1>1, <1>2, <1>3, <1>4 DEF Cloud

LEMMA TypeStep == TypeOK /\ [Next]_vars => TypeOK'
<1> SUFFICES ASSUME TypeOK, [Next]_vars PROVE TypeOK'
  OBVIOUS
<1>1. CASE UNCHANGED vars
  BY <1>1 DEF TypeOK, PlacementTypeOK, FirebaseTypeOK, vars, placementVars, storeVars,
     listenVars, screenVars, callVars, historyVars
<1>2. QED BY <1>1, TypeUser, TypePlugin, TypeCloud DEF Next

\* The type invariant: the counters of outstanding calls, the lists of the
\* screen and the queue of writes stay within their types and bounds.
THEOREM TypeCorrect == Spec => []TypeOK
BY TypeInit, TypeStep, PTL DEF Spec

-----------------------------------------------------------------------------
(***************************************************************************)
(* TrashedNeverPublished.  Nothing in the handlers mentions a trashed name *)
(* after the list was emptied, but three later steps could bring one back: *)
(* a late addAnchor reply, a download, and the check button.  The          *)
(* strengthening says why none does: a trashed name has had its addAnchor  *)
(* reply and is not in the list, and every own name that reaches the list  *)
(* through a document was confirmed before the document existed.           *)
(***************************************************************************)
Created == {"addNode", "placed", "bare"}

TrashInv ==
  /\ trashed \cap confirmed = {}
  /\ \A n \in trashed : tap[n] \in Created
  /\ \A i \in 1..Len(anchors) :
       /\ anchors[i] \notin trashed
       /\ anchors[i] \in OwnNames => anchors[i] \in confirmed \/ tap[anchors[i]] \in Created
  /\ \A n \in Names : hosting[n] > 0 => n \in confirmed
  /\ \A i \in 1..Len(outbox) : outbox[i].doc.name \in confirmed
  /\ \A d \in anchorDocs \cup anchorsInDownloadProgress :
       d.name \in OwnNames => d.name \in confirmed

LEMMA QueuedNames ==
  ASSUME NEW d \in QueuedAnchors, outbox \in Seq(Write)
  PROVE  \E i \in 1..Len(outbox) : outbox[i].doc = d /\ outbox[i].kind = "anchor"
BY DEF QueuedAnchors, Range

LEMMA TrashInvInit == Init => TrashInv
BY NamesAssumption, EmptyLists DEF Init, FirebaseInit, TrashInv

\* A refresh takes unconfirmed own names out of the list for good.
LEMMA TrashRefresh ==
  ASSUME TypeOK, TrashInv, removeVisibleAnchors,
         UNCHANGED <<tap, confirmed, hosting, outbox, anchorDocs, anchorsInDownloadProgress>>
  PROVE  TrashInv'
<1>1. anchors' = <<>> /\ Len(anchors') = 0
  BY EmptyLists DEF removeVisibleAnchors
<1>2. \A n \in Range(anchors) \cap OwnNames : n \in confirmed \/ tap[n] \in Created
  <2> SUFFICES ASSUME NEW n \in Range(anchors), n \in OwnNames
               PROVE  n \in confirmed \/ tap[n] \in Created
    OBVIOUS
  <2>1. PICK i \in 1..Len(anchors) : anchors[i] = n
    BY DEF Range, TypeOK
  <2>2. QED BY <2>1 DEF TrashInv
<1>3. /\ trashed' \cap confirmed' = {}
      /\ \A n \in trashed' : tap'[n] \in Created
  BY <1>2 DEF TrashInv, removeVisibleAnchors
<1>4. QED BY <1>1, <1>3 DEF TrashInv

LEMMA TrashInvStep == TypeOK /\ TrashInv /\ [Next]_vars => TrashInv'
<1> SUFFICES ASSUME TypeOK, TrashInv, [Next]_vars PROVE TrashInv'
  OBVIOUS
<1> USE DEF placementVars, storeVars, listenVars, screenVars, callVars, historyVars
<1>1. CASE PlusButton
  BY <1>1 DEF PlusButton, TrashInv
<1>2. CASE ModelTapped
  BY <1>2 DEF ModelTapped, TrashInv
<1>3. ASSUME NEW n \in OwnNames, onPlaneOrPointTapped(n) PROVE TrashInv'
  BY <1>3 DEF onPlaneOrPointTapped, TrashInv, TypeOK, Created
<1>4. CASE TapElsewhere
  BY <1>4 DEF TapElsewhere, TrashInv
<1>5. CASE uploadLatestAnchor
  <2>1. CASE anchors = <<>>
    BY <1>5, <2>1 DEF uploadLatestAnchor, TrashInv
  <2>2. CASE anchors # <<>>
    <3> DEFINE x == anchors[Len(anchors)]
    <3>1. x \in Names /\ Len(anchors) \in 1..Len(anchors) /\ x \notin trashed
      BY <2>2 DEF TypeOK, TrashInv
    <3>2. hosting' = [hosting EXCEPT ![x] = @ + 1] /\ confirmed' = confirmed \cup {x}
      BY <1>5, <2>2 DEF uploadLatestAnchor, Last
    <3> HIDE DEF x
    <3>3. \A n \in Names : hosting'[n] > 0 => n \in confirmed'
      BY <3>1, <3>2 DEF TypeOK, TrashInv
    <3>4. trashed' \cap confirmed' = {}
      BY <1>5, <3>1, <3>2 DEF uploadLatestAnchor, TrashInv
    <3>5. QED BY <1>5, <3>2, <3>3, <3>4 DEF uploadLatestAnchor, TrashInv
  <2>3. QED BY <2>1, <2>2
<1>6. CASE RefreshButton
  BY <1>6, TrashRefresh DEF RefreshButton, refreshAnchors
<1>7. CASE cancelModelPlacementPrematurely
  <2>1. CASE didPlaceModel
    BY <1>7, <2>1, TrashRefresh DEF cancelModelPlacementPrematurely, refreshAnchors
  <2>2. CASE ~didPlaceModel
    BY <1>7, <2>2 DEF cancelModelPlacementPrematurely, TrashInv
  <2>3. QED BY <2>1, <2>2
<1>8. ASSUME NEW n \in OwnNames, NEW r \in Replies, AddAnchorReply(n, r) PROVE TrashInv'
  <2>1. n \notin trashed /\ n \in Names
    BY <1>8 DEF AddAnchorReply, TrashInv, Created, Names
  <2>2. CASE anchors' = Append(anchors, n) /\ Len(anchors) < MaxAnchors /\ tap' = [tap EXCEPT ![n] = "addNode"]
    <3>1. /\ Len(anchors') = Len(anchors) + 1
          /\ anchors'[Len(anchors')] = n
          /\ \A i \in 1..Len(anchors) : anchors'[i] = anchors[i]
          /\ Len(anchors) \in Nat
      BY <2>1, <2>2, AnchorsGrow, BoundsAssumption DEF TypeOK
    <3>2. \A m \in OwnNames : tap[m] \in Created => tap'[m] \in Created
      BY <2>2 DEF TypeOK, Created
    <3>3. tap'[n] \in Created
      BY <2>2 DEF TypeOK, Created
    <3>4. \A i \in 1..Len(anchors') :
            /\ anchors'[i] \notin trashed'
            /\ anchors'[i] \in OwnNames => anchors'[i] \in confirmed' \/ tap'[anchors'[i]] \in Created
      BY <1>8, <2>1, <3>1, <3>2, <3>3 DEF AddAnchorReply, TrashInv
    <3>5. QED BY <1>8, <3>2, <3>4 DEF AddAnchorReply, TrashInv, TypeOK
  <2>3. CASE anchors' = anchors /\ tap' = [tap EXCEPT ![n] = "refused"]
    <3>1. \A m \in OwnNames : tap[m] \in Created => tap'[m] \in Created
      BY <1>8, <2>3 DEF TypeOK, Created, AddAnchorReply
    <3>2. QED BY <1>8, <2>3, <3>1 DEF AddAnchorReply, TrashInv, TypeOK
  <2>4. QED BY <1>8, <2>2, <2>3 DEF AddAnchorReply
<1>9. ASSUME NEW n \in OwnNames, NEW r \in Replies, AddNodeReply(n, r) PROVE TrashInv'
  <2>1. \A m \in OwnNames : tap[m] \in Created => tap'[m] \in Created
    BY <1>9 DEF AddNodeReply, TypeOK, Created
  <2>2. QED BY <1>9, <2>1 DEF AddNodeReply, TrashInv, TypeOK
<1>10. ASSUME NEW n \in Names, NEW c \in CloudIds, HostOk(n, c) PROVE TrashInv'
  <2>1. /\ \A i \in 1..Len(outbox') : i > Len(outbox) => outbox'[i].doc.name = n
        /\ \A i \in 1..Len(outbox) : outbox'[i] = outbox[i]
        /\ Len(outbox) \in Nat
    BY <1>10, OutboxGrows DEF HostOk, TypeOK, FirebaseTypeOK
  <2>2. n \in confirmed
    BY <1>10 DEF HostOk, TrashInv
  <2>3. \A i \in 1..Len(outbox') : outbox'[i].doc.name \in confirmed
    <3>1. \A i \in 1..Len(outbox) : outbox[i].doc.name \in confirmed
      BY DEF TrashInv
    <3>2. outbox' \in Seq(Write)
      BY <1>10, OutboxGrows DEF HostOk, TypeOK, FirebaseTypeOK
    <3>3. QED BY <2>1, <2>2, <3>1, <3>2
  <2>4. \A m \in Names : hosting'[m] > 0 => m \in confirmed
    BY <1>10 DEF HostOk, TrashInv, TypeOK
  <2>5. QED BY <1>10, <2>3, <2>4 DEF HostOk, TrashInv
<1>11. ASSUME NEW n \in Names, HostFail(n) PROVE TrashInv'
  <2>1. \A m \in Names : hosting'[m] > 0 => m \in confirmed
    BY <1>11 DEF HostFail, TrashInv, TypeOK
  <2>2. QED BY <1>11, <2>1 DEF HostFail, TrashInv
<1>12. ASSUME NEW n \in Names, ObjectsReply(n) PROVE TrashInv'
  BY <1>12 DEF ObjectsReply, TrashInv
<1>13. ASSUME NEW n \in Names, ObjectsFail(n) PROVE TrashInv'
  BY <1>13 DEF ObjectsFail, TrashInv
<1>14. CASE Snapshot
  <2>1. \A d \in InRange : d.name \in OwnNames => d.name \in confirmed
    BY QueuedNames DEF InRange, TrashInv, TypeOK, FirebaseTypeOK
  <2>2. QED BY <1>14, <2>1 DEF Snapshot, TrashInv
<1>15. ASSUME NEW c \in CloudIds, onAnchorDownloaded(c) PROVE TrashInv'
  <2>1. CASE UNCHANGED <<anchorsInDownloadProgress, anchors>>
    BY <1>15, <2>1 DEF onAnchorDownloaded, TrashInv
  <2>2. ASSUME NEW d \in anchorsInDownloadProgress,
               Len(anchors) < MaxAnchors,
               anchorsInDownloadProgress' = anchorsInDownloadProgress \ {d},
               anchors' = Append(anchors, d.name)
        PROVE  TrashInv'
    <3>1. d.name \in Names /\ (d.name \in OwnNames => d.name \in confirmed)
      BY DEF TypeOK, AnchorDoc, TrashInv
    <3>2. d.name \notin trashed
      BY <3>1 DEF TypeOK, TrashInv
    <3>3. /\ Len(anchors') = Len(anchors) + 1
          /\ anchors'[Len(anchors')] = d.name
          /\ \A i \in 1..Len(anchors) : anchors'[i] = anchors[i]
          /\ Len(anchors) \in Nat
      BY <2>2, <3>1, AnchorsGrow, BoundsAssumption DEF TypeOK
    <3>4. \A i \in 1..Len(anchors') :
            /\ anchors'[i] \notin trashed
            /\ anchors'[i] \in OwnNames => anchors'[i] \in confirmed \/ tap[anchors'[i]] \in Created
      BY <3>1, <3>2, <3>3 DEF TrashInv
    <3>5. QED BY <1>15, <2>2, <3>4 DEF onAnchorDownloaded, TrashInv
  <2>3. QED BY <1>15, <2>1, <2>2 DEF onAnchorDownloaded
<1>16. ASSUME NEW c \in CloudIds, DownloadLost(c) PROVE TrashInv'
  BY <1>16 DEF DownloadLost, TrashInv
<1>17. CASE LocationFix
  BY <1>17 DEF LocationFix, TrashInv
<1>18. CASE Cloud
  <2>1. CASE outbox # <<>> /\ outbox' = Tail(outbox)
             /\ anchorDocs' \subseteq anchorDocs \cup {Head(outbox).doc}
    <3>1. /\ Head(outbox).doc.name \in confirmed
          /\ \A i \in 1..Len(outbox') : outbox'[i].doc.name \in confirmed
      BY <2>1, OutboxShrinks DEF TrashInv, TypeOK, FirebaseTypeOK
    <3>2. QED BY <1>18, <2>1, <3>1 DEF Cloud, TrashInv
  <2>2. ASSUME NEW c \in CloudIds, NEW n \in Names, ForeignAnchor(c, n) PROVE TrashInv'
    <3>1. n \in OwnNames => n \in confirmed
      BY <2>2, NamesAssumption DEF ForeignAnchor, NameHasDoc, TrashInv
    <3>2. QED BY <1>18, <2>2, <3>1 DEF Cloud, ForeignAnchor, TrashInv
  <2>3. ASSUME NEW n \in ForeignNames, ForeignObject(n) PROVE TrashInv'
    BY <1>18, <2>3 DEF Cloud, ForeignObject, TrashInv
  <2>4. QED BY <1>18, <2>1, <2>2, <2>3 DEF Cloud, WriteApplied, WriteRefused
<1>19. CASE UNCHANGED vars
  BY <1>19 DEF vars, TrashInv
<1>20. QED BY <1>1, <1>2, <1>3, <1>4, <1>5, <1>6, <1>7, <1>8, <1>9, <1>10, <1>11, <1>12, <1>13,
          <1>14, <1>15, <1>16, <1>17, <1>18, <1>19 DEF Next, User, Plugin

LEMMA TrashInvSuffices == TypeOK /\ TrashInv => TrashedNeverPublished
<1> SUFFICES ASSUME TypeOK, TrashInv, NEW n \in trashed,
                    n \in HostedNames \cup QueuedOrStored \cup confirmed
             PROVE  FALSE
  BY DEF TrashedNeverPublished
<1>1. n \in OwnNames /\ n \notin confirmed
  BY DEF TypeOK, TrashInv
<1>2. CASE n \in HostedNames
  BY <1>1, <1>2 DEF HostedNames, TrashInv
<1>3. CASE n \in QueuedOrStored
  BY <1>1, <1>3, QueuedNames DEF QueuedOrStored, TrashInv, TypeOK, FirebaseTypeOK
<1>4. QED BY <1>1, <1>2, <1>3

\* A model removed before it was confirmed is never hosted, queued, stored or
\* confirmed, whatever replies, refreshes and checks come after.
THEOREM TrashSafe == Spec => []TrashedNeverPublished
<1>1. Spec => [](TypeOK /\ TrashInv)
  <2>1. Init => TypeOK /\ TrashInv
    BY TypeInit, TrashInvInit
  <2>2. (TypeOK /\ TrashInv) /\ [Next]_vars => (TypeOK /\ TrashInv)'
    BY TypeStep, TrashInvStep
  <2>3. QED BY <2>1, <2>2, PTL DEF Spec
<1>2. QED BY <1>1, TrashInvSuffices, PTL

-----------------------------------------------------------------------------
(***************************************************************************)
(* ObjectsFollowAnchors.  The invariant speaks of the collections only;    *)
(* the strengthening carries it through the queue: the write of an object  *)
(* has the write of its anchor in front of it until that one is settled.   *)
(***************************************************************************)
SettledNames == {d.name : d \in anchorDocs \cup rejected}

OrderInv ==
  /\ ObjectsFollowAnchors
  /\ \A i \in 1..Len(outbox) :
       outbox[i].kind = "object" =>
         \/ outbox[i].doc.name \in SettledNames
         \/ \E j \in 1..(i - 1) : /\ outbox[j].kind = "anchor"
                                  /\ outbox[j].doc.name = outbox[i].doc.name

LEMMA OrderInvInit == Init => OrderInv
BY EmptyLists DEF Init, FirebaseInit, OrderInv, ObjectsFollowAnchors

\* Settling the oldest write keeps the order, applied or refused.
LEMMA OrderSettle ==
  ASSUME TypeOK, OrderInv, outbox # <<>>, outbox' = Tail(outbox),
         anchorDocs \cup rejected \subseteq (anchorDocs \cup rejected)',
         Head(outbox).kind = "anchor" => Head(outbox).doc \in (anchorDocs \cup rejected)',
         objectDocs' \subseteq objectDocs \cup
           (IF Head(outbox).kind = "object" THEN {Head(outbox).doc.name} ELSE {})
  PROVE  OrderInv'
<1>1. /\ Head(outbox) = outbox[1]
      /\ 1 \in 1..Len(outbox)
      /\ Len(outbox') = Len(outbox) - 1
      /\ Len(outbox) \in Nat
      /\ \A i \in 1..Len(outbox') : outbox'[i] = outbox[i + 1] /\ i + 1 \in 1..Len(outbox)
  BY OutboxShrinks DEF TypeOK, FirebaseTypeOK
<1>2. SettledNames \subseteq SettledNames'
  BY DEF SettledNames
<1>3. Head(outbox).kind = "object" => Head(outbox).doc.name \in SettledNames
  BY <1>1 DEF OrderInv
<1>4. ObjectsFollowAnchors'
  BY <1>2, <1>3 DEF OrderInv, ObjectsFollowAnchors, SettledNames
<1>5. ASSUME NEW i \in 1..Len(outbox'), outbox'[i].kind = "object"
      PROVE  \/ outbox'[i].doc.name \in SettledNames'
             \/ \E j \in 1..(i - 1) : /\ outbox'[j].kind = "anchor"
                                      /\ outbox'[j].doc.name = outbox'[i].doc.name
  <2>1. outbox'[i] = outbox[i + 1] /\ i + 1 \in 1..Len(outbox) /\ i \in Nat
    BY <1>1, <1>5
  <2>2. CASE outbox[i + 1].doc.name \in SettledNames
    BY <1>2, <2>1, <2>2
  <2>3. ASSUME NEW j \in 1..i, outbox[j].kind = "anchor",
               outbox[j].doc.name = outbox[i + 1].doc.name
        PROVE  \/ outbox'[i].doc.name \in SettledNames'
               \/ \E k \in 1..(i - 1) : /\ outbox'[k].kind = "anchor"
                                        /\ outbox'[k].doc.name = outbox'[i].doc.name
    <3>1. CASE j = 1
      <4>1. outbox[1].doc \in (anchorDocs \cup rejected)'
        BY <1>1, <2>3, <3>1
      <4>2. QED BY <2>1, <2>3, <3>1, <4>1 DEF SettledNames
    <3>2. CASE j # 1
      <4>1. j - 1 \in 1..(i - 1) /\ j - 1 \in 1..Len(outbox') /\ (j - 1) + 1 = j
        BY <1>1, <2>1, <3>2
      <4>2. outbox'[j - 1] = outbox[j]
        BY <1>1, <4>1
      <4>3. QED BY <2>1, <2>3, <4>1, <4>2
    <3>3. QED BY <3>1, <3>2
  <2>4. (i + 1) - 1 = i
    BY <2>1
  <2>5. QED BY <1>5, <2>1, <2>2, <2>3, <2>4 DEF OrderInv
<1>6. QED BY <1>4, <1>5 DEF OrderInv

LEMMA OrderInvStep == TypeOK /\ OrderInv /\ [Next]_vars => OrderInv'
<1> SUFFICES ASSUME TypeOK, OrderInv, [Next]_vars PROVE OrderInv'
  OBVIOUS
<1>1. CASE UNCHANGED storeVars
  BY <1>1 DEF storeVars, OrderInv, ObjectsFollowAnchors, SettledNames
<1>2. ASSUME NEW n \in Names, NEW c \in CloudIds, HostOk(n, c) PROVE OrderInv'
  <2>1. /\ \A i \in 1..Len(outbox') : i > Len(outbox) =>
             /\ outbox'[i].doc.name = n
             /\ outbox'[i].kind = "object" =>
                  \E j \in 1..(i - 1) : outbox'[j].kind = "anchor" /\ outbox'[j].doc.name = n
        /\ \A i \in 1..Len(outbox) : outbox'[i] = outbox[i]
        /\ Len(outbox) \in Nat /\ Len(outbox') \in Nat /\ Len(outbox') >= Len(outbox)
    BY <1>2, OutboxGrows DEF HostOk, TypeOK, FirebaseTypeOK
  <2>2. UNCHANGED <<anchorDocs, objectDocs, rejected>>
    BY <1>2 DEF HostOk
  <2>3. ASSUME NEW i \in 1..Len(outbox'), outbox'[i].kind = "object"
        PROVE  \/ outbox'[i].doc.name \in SettledNames'
               \/ \E j \in 1..(i - 1) : /\ outbox'[j].kind = "anchor"
                                        /\ outbox'[j].doc.name = outbox'[i].doc.name
    <3>1. CASE i > Len(outbox)
      BY <2>1, <2>3, <3>1
    <3>2. CASE i \in 1..Len(outbox)
      <4>1. \A j \in 1..(i - 1) : j \in 1..Len(outbox)
        BY <2>1, <3>2
      <4>2. SettledNames' = SettledNames
        BY <2>2 DEF SettledNames
      <4>3. QED BY <2>1, <2>3, <3>2, <4>1, <4>2 DEF OrderInv
    <3>3. QED BY <2>1, <3>1, <3>2
  <2>4. QED BY <2>2, <2>3 DEF OrderInv, ObjectsFollowAnchors
<1>3. CASE WriteApplied
  BY <1>3, OrderSettle DEF WriteApplied
<1>4. CASE WriteRefused
  BY <1>4, OrderSettle DEF WriteRefused
<1>5. ASSUME NEW c \in CloudIds, NEW n \in Names, ForeignAnchor(c, n) PROVE OrderInv'
  <2>1. SettledNames \subseteq SettledNames'
    BY <1>5 DEF ForeignAnchor, SettledNames
  <2>2. QED BY <1>5, <2>1 DEF ForeignAnchor, OrderInv, ObjectsFollowAnchors, SettledNames
<1>6. ASSUME NEW n \in ForeignNames, ForeignObject(n) PROVE OrderInv'
  BY <1>6 DEF ForeignObject, NameHasDoc, OrderInv, ObjectsFollowAnchors, SettledNames
<1>7. UNCHANGED storeVars \/ Cloud \/ \E n \in Names, c \in CloudIds : HostOk(n, c)
  BY DEF Next, vars, User, Plugin, PlusButton, ModelTapped, onPlaneOrPointTapped, TapElsewhere,
     uploadLatestAnchor, RefreshButton, cancelModelPlacementPrematurely, AddAnchorReply,
     AddNodeReply, HostFail, ObjectsReply, ObjectsFail, Snapshot, onAnchorDownloaded,
     DownloadLost, LocationFix
<1>8. QED BY <1>1, <1>2, <1>3, <1>4, <1>5, <1>6, <1>7 DEF Cloud

\* An object document exists only when the write of its anchor was settled.
THEOREM OrderSafe == Spec => []ObjectsFollowAnchors
<1>1. Init => TypeOK /\ OrderInv
  BY TypeInit, OrderInvInit
<1>2. (TypeOK /\ OrderInv) /\ [Next]_vars => (TypeOK /\ OrderInv)'
  BY TypeStep, OrderInvStep
<1>3. OrderInv => ObjectsFollowAnchors
  BY DEF OrderInv
<1>4. QED BY <1>1, <1>2, <1>3, PTL DEF Spec

-----------------------------------------------------------------------------
(***************************************************************************)
(* MissedOnlyWhenOverlapped.  An id whose calls never overlapped has one   *)
(* call outstanding at most, so the reply that removes the entry is the    *)
(* last one that needs it.                                                 *)
(***************************************************************************)
OverlapInv ==
  \A c \in CloudIds :
    resolving[c] > 0 /\ c \notin overlapped =>
      /\ resolving[c] = 1
      /\ \E d \in anchorsInDownloadProgress : d.id = c

LEMMA OverlapInvStep == TypeOK /\ OverlapInv /\ [Next]_vars => OverlapInv'
<1> SUFFICES ASSUME TypeOK, OverlapInv, [Next]_vars PROVE OverlapInv'
  OBVIOUS
<1>1. CASE UNCHANGED <<resolving, overlapped, anchorsInDownloadProgress>>
  BY <1>1 DEF OverlapInv
<1>2. CASE Snapshot
  <2> DEFINE ids == {d.id : d \in InRange}
  <2>1. /\ resolving' = [c \in CloudIds |-> IF c \in ids THEN resolving[c] + 1 ELSE resolving[c]]
        /\ overlapped' = overlapped \cup {c \in ids : resolving[c] > 0}
        /\ anchorsInDownloadProgress' = anchorsInDownloadProgress \cup InRange
    BY <1>2 DEF Snapshot, RequestAll
  <2>2. \A c \in CloudIds : resolving[c] \in Nat
    BY DEF TypeOK
  <2>3. ASSUME NEW c \in CloudIds, resolving'[c] > 0, c \notin overlapped'
        PROVE  /\ resolving'[c] = 1
               /\ \E d \in anchorsInDownloadProgress' : d.id = c
    <3>1. CASE c \in ids
      BY <2>1, <2>2, <2>3, <3>1
    <3>2. CASE c \notin ids
      BY <2>1, <2>3, <3>2 DEF OverlapInv
    <3>3. QED BY <3>1, <3>2
  <2>4. QED BY <2>3 DEF OverlapInv
<1>3. ASSUME NEW c \in CloudIds, Settle(c),
             \A d \in anchorsInDownloadProgress \ anchorsInDownloadProgress' : d.id = c
      PROVE  OverlapInv'
  <2>1. /\ resolving[c] \in Nat
        /\ resolving' = [resolving EXCEPT ![c] = resolving[c] - 1]
        /\ overlapped' = IF resolving[c] = 1 THEN overlapped \ {c} ELSE overlapped
        /\ resolving[c] > 0
    BY <1>3 DEF Settle, TypeOK
  <2>2. resolving'[c] > 0 => c \in overlapped'
    BY <2>1 DEF OverlapInv, TypeOK
  <2>3. \A b \in CloudIds \ {c} : resolving'[b] = resolving[b] /\ (b \in overlapped' <=> b \in overlapped)
    BY <2>1 DEF TypeOK
  <2>4. QED BY <1>3, <2>2, <2>3 DEF OverlapInv
<1>4. ASSUME NEW c \in CloudIds, onAnchorDownloaded(c) PROVE OverlapInv'
  BY <1>3, <1>4 DEF onAnchorDownloaded
<1>5. ASSUME NEW c \in CloudIds, DownloadLost(c) PROVE OverlapInv'
  BY <1>3, <1>5 DEF DownloadLost
<1>6. \/ UNCHANGED <<resolving, overlapped, anchorsInDownloadProgress>>
      \/ Snapshot
      \/ \E c \in CloudIds : onAnchorDownloaded(c) \/ DownloadLost(c)
  BY DEF Next, vars, User, Plugin, Cloud, callVars, historyVars, PlusButton, ModelTapped,
     onPlaneOrPointTapped, TapElsewhere, uploadLatestAnchor, RefreshButton,
     cancelModelPlacementPrematurely, AddAnchorReply, AddNodeReply, HostOk, HostFail,
     ObjectsReply, ObjectsFail, LocationFix
<1>7. QED BY <1>1, <1>2, <1>4, <1>5, <1>6

\* A resolved anchor finds its document unless its requests overlapped.
THEOREM OverlapSafe == Spec => []MissedOnlyWhenOverlapped
<1>1. Init => TypeOK /\ OverlapInv
  BY TypeInit DEF Init, OverlapInv
<1>2. (TypeOK /\ OverlapInv) /\ [Next]_vars => (TypeOK /\ OverlapInv)'
  BY TypeStep, OverlapInvStep
<1>3. OverlapInv => MissedOnlyWhenOverlapped
  BY DEF OverlapInv, MissedOnlyWhenOverlapped
<1>4. QED BY <1>1, <1>2, <1>3, PTL DEF Spec

-----------------------------------------------------------------------------
(***************************************************************************)
(* The flags implement PlacementSession.  didPlaceModel alone does not:    *)
(* late replies and taps outside placement mode set it, so "placed" is its *)
(* conjunction with placingModel, and the invariant needed is that the     *)
(* chooser is open only inside a session.                                  *)
(***************************************************************************)
ChooserInv == PlacementTypeOK /\ (modelChoiceActive => placingModel)

LEMMA ChooserInit == Init => ChooserInv /\ Session!Init
BY DEF Init, PlacementInit, ChooserInv, PlacementTypeOK, Session!Init

LEMMA ChooserStep ==
  ASSUME ChooserInv, [Next]_vars
  PROVE  ChooserInv' /\ [Session!Next]_Session!sessionVars
<1> USE DEF ChooserInv, PlacementTypeOK, Session!Next, Session!Enter, Session!Choose,
        Session!Place, Session!Leave, Session!sessionVars
<1>1. CASE UNCHANGED placementVars
  BY <1>1 DEF placementVars
<1>2. CASE ~placingModel /\ enterPlacementMode(TRUE)
  BY <1>2 DEF enterPlacementMode
<1>3. CASE placingModel /\ exitPlacementMode(TRUE)
  BY <1>3 DEF exitPlacementMode
<1>4. CASE modelChoiceActive /\ onModelSelected
  BY <1>4 DEF onModelSelected
<1>5. CASE tapHandled
  BY <1>5 DEF tapHandled
<1>6. QED
  BY <1>1, <1>2, <1>3, <1>4, <1>5 DEF Next, vars, User, Plugin, Cloud, PlusButton, ModelTapped,
     onPlaneOrPointTapped, TapElsewhere, uploadLatestAnchor, RefreshButton,
     cancelModelPlacementPrematurely, AddAnchorReply, AddNodeReply, HostOk, HostFail,
     ObjectsReply, ObjectsFail, Snapshot, onAnchorDownloaded, DownloadLost, LocationFix

\* The screen's flags behave like a placement session.
THEOREM SessionRefined == Spec => SessionSpec
<1>1. Init => ChooserInv /\ Session!Init
  BY ChooserInit
<1>2. ChooserInv /\ [Next]_vars => ChooserInv' /\ [Session!Next]_Session!sessionVars
  BY ChooserStep
<1>3. QED BY <1>1, <1>2, PTL DEF Spec, SessionSpec, Session!Spec
=============================================================================
