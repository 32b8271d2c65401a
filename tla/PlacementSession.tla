-------------------------- MODULE PlacementSession --------------------------
(***************************************************************************)
(* What the AR screen promises about placing a model, without anchors,     *)
(* callbacks or the database: a placement session is entered from viewing  *)
(* with nothing placed and the chooser open; the chooser closes at most    *)
(* once in it; "placed" is reached at most once in it; and the session is  *)
(* left in one step that resets everything.                                *)
(***************************************************************************)
VARIABLES
  placing,   \* a session is open
  choosing,  \* its model chooser is open
  placed     \* its model counts as placed

sessionVars == <<placing, choosing, placed>>

Init == placing = FALSE /\ choosing = FALSE /\ placed = FALSE

Enter ==
  /\ ~placing
  /\ placing' = TRUE /\ choosing' = TRUE /\ placed' = FALSE

Choose ==
  /\ placing /\ choosing
  /\ choosing' = FALSE
  /\ UNCHANGED <<placing, placed>>

Place ==
  /\ placing /\ ~placed
  /\ placed' = TRUE
  /\ UNCHANGED <<placing, choosing>>

Leave ==
  /\ placing
  /\ placing' = FALSE /\ choosing' = FALSE /\ placed' = FALSE

Next == Enter \/ Choose \/ Place \/ Leave

Spec == Init /\ [][Next]_sessionVars
=============================================================================
