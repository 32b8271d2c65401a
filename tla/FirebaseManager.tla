-------------------------- MODULE FirebaseManager --------------------------
(***************************************************************************)
(* FirebaseManager (lib/firebase_manager.dart) as the AR screen uses it:   *)
(* the two Firestore collections, the device's queue of writes, and the    *)
(* geo-query listeners.                                                    *)
(*                                                                         *)
(* An anchor document carries the cloud anchor id, the name of the anchor  *)
(* and whether it has a "position"; one name stands for an anchor and for  *)
(* the node placed on it (childNodes).  An object document is its name.    *)
(*                                                                         *)
(* add() returns at once.  Firestore sends the writes of one client in the *)
(* order they were made, and each may be refused (catchError prints).      *)
(* Until it is settled a write is already visible to this client's own     *)
(* queries.  A geo-query listener receives the whole list of documents in  *)
(* range when it starts and again whenever the list changes; snapshots     *)
(* that have not been delivered yet coalesce.  stream.listen is never      *)
(* cancelled.                                                              *)
(***************************************************************************)
EXTENDS Naturals, SequencesExt

CONSTANTS
  CloudIds,      \* cloud anchor ids ARCore can hand out
  OwnNames,      \* names of the anchors this device's taps create
  ForeignNames,  \* names of the anchors other devices publish
  MaxListeners   \* bound: geo-query listeners started

ASSUME NamesAssumption == OwnNames \cap ForeignNames = {}

ASSUME MaxListenersAssumption == MaxListeners \in Nat

VARIABLES
  anchorDocs,    \* collection 'anchors'
  objectDocs,    \* collection 'objects'
  outbox,        \* writes of this device not yet settled, oldest first
  rejected,      \* anchor documents whose write was refused
  listeners,     \* live geo-query listeners
  undelivered    \* listeners that still have to receive the current list

storeVars == <<anchorDocs, objectDocs, outbox, rejected>>
listenVars == <<listeners, undelivered>>

Names == OwnNames \cup ForeignNames
AnchorDoc == [id : CloudIds, name : Names, located : BOOLEAN]
Write == [kind : {"anchor", "object"}, doc : AnchorDoc]

FirebaseTypeOK ==
  /\ anchorDocs \subseteq AnchorDoc
  /\ objectDocs \subseteq Names
  /\ outbox \in Seq(Write)
  /\ rejected \subseteq AnchorDoc
  /\ listeners \in 0..MaxListeners
  /\ undelivered \in 0..listeners

FirebaseInit ==
  /\ anchorDocs = {}
  /\ objectDocs = {}
  /\ outbox = <<>>
  /\ rejected = {}
  /\ listeners = 0
  /\ undelivered = 0

-----------------------------------------------------------------------------
QueuedAnchors == {w.doc : w \in {v \in Range(outbox) : v.kind = "anchor"}}
QueuedObjects == {w.doc.name : w \in {v \in Range(outbox) : v.kind = "object"}}

\* The documents a query of this device for positions sees.
InRange == {d \in anchorDocs \cup QueuedAnchors : d.located}

\* The objects a query of this device sees.
VisibleObjects == objectDocs \cup QueuedObjects

NameHasDoc(n) == \E d \in anchorDocs : d.name = n

\* Ids ARCore has not handed out yet.
FreshIds == CloudIds \ {d.id : d \in anchorDocs \cup QueuedAnchors \cup rejected}

\* uploadAnchor and uploadObject as the writes they queue.
uploadAnchor(doc) == <<[kind |-> "anchor", doc |-> doc]>>
uploadObject(doc) == <<[kind |-> "object", doc |-> doc]>>

\* A new listener starts with the current list still to be delivered.
downloadAnchorsByLocation ==
  /\ listeners < MaxListeners
  /\ listeners' = listeners + 1
  /\ undelivered' = undelivered + 1

-----------------------------------------------------------------------------
\* Firestore accepts the oldest write of this device.  The listeners have
\* seen the document since it was queued.
WriteApplied ==
  /\ outbox # <<>>
  /\ outbox' = Tail(outbox)
  /\ \/ /\ Head(outbox).kind = "anchor"
        /\ anchorDocs' = anchorDocs \cup {Head(outbox).doc}
        /\ UNCHANGED objectDocs
     \/ /\ Head(outbox).kind = "object"
        /\ objectDocs' = objectDocs \cup {Head(outbox).doc.name}
        /\ UNCHANGED anchorDocs
  /\ UNCHANGED <<rejected, listenVars>>

\* Firestore refuses it; catchError prints and nobody retries.  A refused
\* document disappears from the lists it was in.
WriteRefused ==
  /\ outbox # <<>>
  /\ outbox' = Tail(outbox)
  /\ \/ /\ Head(outbox).kind = "anchor"
        /\ rejected' = rejected \cup {Head(outbox).doc}
        /\ undelivered' = IF Head(outbox).doc.located THEN listeners ELSE undelivered
     \/ /\ Head(outbox).kind = "object"
        /\ UNCHANGED <<rejected, undelivered>>
  /\ UNCHANGED <<anchorDocs, objectDocs, listeners>>

\* Another device publishes an anchor within range: one of its own, or a copy
\* of one that is published already ...
ForeignAnchor(c, n) ==
  /\ c \in FreshIds
  /\ n \in ForeignNames \/ NameHasDoc(n)
  /\ anchorDocs' = anchorDocs \cup {[id |-> c, name |-> n, located |-> TRUE]}
  /\ undelivered' = listeners
  /\ UNCHANGED <<objectDocs, outbox, rejected, listeners>>

\* ... and, later, the object attached to it.
ForeignObject(n) ==
  /\ NameHasDoc(n)
  /\ n \notin objectDocs
  /\ objectDocs' = objectDocs \cup {n}
  /\ UNCHANGED <<anchorDocs, outbox, rejected, listenVars>>
=============================================================================
