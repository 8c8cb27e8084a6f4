------------------------------- MODULE Playout -------------------------------
(***************************************************************************)
(* What the client's ring buffer promises to the renderer.  Video frames   *)
(* are deltas to the frame before, so that after frame n the decoder can   *)
(* only use frame n + 1 or a recovery point, an I-frame or a frame that    *)
(* refers to a long-term reference.  An audio frame can follow any older   *)
(* one.  GPU commands are played without gaps from the first on.           *)
(***************************************************************************)
EXTENDS Integers

CONSTANTS Type, MaxId

VARIABLES
    playing,    \* the ID of the frame being rendered, -1 for none
    newest,     \* the last frame that was sent
    recovery    \* those of them that are recovery points

Init == playing = -1 /\ newest = 0 /\ recovery = {}

Send ==
    /\ newest < MaxId
    /\ newest' = newest + 1
    /\ recovery' \in {recovery, recovery \cup {newest'}}
    /\ UNCHANGED playing

CanFollow(id) ==
    CASE Type = "video" -> id \in recovery \/ (playing # -1 /\ id = playing + 1)
      [] Type = "audio" -> id > playing
      [] Type = "gpu"   -> id = IF playing = -1 THEN 1 ELSE playing + 1

Play(id) ==
    /\ id > playing
    /\ id <= newest
    /\ CanFollow(id)
    /\ playing' = id
    /\ UNCHANGED <<newest, recovery>>

Next == Send \/ \E id \in 1 .. MaxId : Play(id)

Spec == Init /\ [][Next]_<<playing, newest, recovery>>
=============================================================================
