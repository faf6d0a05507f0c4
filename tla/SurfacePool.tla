----------------------------- MODULE SurfacePool -----------------------------
(***************************************************************************)
(* What the pool of NV12 surfaces promises: a surface belongs to at most   *)
(* one frame at a time, from the conversion that fills it until all have   *)
(* done with it, and nobody reads it outside that time.  VideoFrames       *)
(* implements it.                                                          *)
(***************************************************************************)
CONSTANTS Surfaces, Frames, Readers, Nobody

VARIABLES
    owner,      \* the frame a surface belongs to, or Nobody
    reading     \* who reads it

vars == <<owner, reading>>

Init == owner = [s \in Surfaces |-> Nobody] /\ reading = [s \in Surfaces |-> {}]

(* A frame gets a surface that belongs to nobody, and only one.            *)
Acquire(s, f) ==
    /\ owner[s] = Nobody /\ \A t \in Surfaces : owner[t] # f
    /\ owner' = [owner EXCEPT ![s] = f] /\ UNCHANGED reading

BeginRead(s, r) ==
    /\ owner[s] # Nobody
    /\ reading' = [reading EXCEPT ![s] = @ \cup {r}] /\ UNCHANGED owner

EndRead(s, r) ==
    /\ reading' = [reading EXCEPT ![s] = @ \ {r}] /\ UNCHANGED owner

(* The deleter: only when nobody reads any more.                           *)
Release(s) ==
    /\ owner[s] # Nobody /\ reading[s] = {}
    /\ owner' = [owner EXCEPT ![s] = Nobody] /\ UNCHANGED reading

Next ==
    \E s \in Surfaces :
        \/ \E f \in Frames : Acquire(s, f)
        \/ \E r \in Readers : BeginRead(s, r) \/ EndRead(s, r)
        \/ Release(s)

Spec == Init /\ [][Next]_vars

(* A surface that is read belongs to a frame.                              *)
ReadIsOwned == \A s \in Surfaces : reading[s] # {} => owner[s] # Nobody

TypeOK ==
    /\ owner \in [Surfaces -> Frames \cup {Nobody}]
    /\ reading \in [Surfaces -> SUBSET Readers]
=============================================================================
