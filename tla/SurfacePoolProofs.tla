-------------------------- MODULE SurfacePoolProofs --------------------------
(***************************************************************************)
(* The promise of SurfacePool, proved for every set of surfaces, frames    *)
(* and readers.                                                            *)
(***************************************************************************)
EXTENDS SurfacePool, TLAPS

(* Everything a read needs: the types, and an owner for what is read.      *)
Inv == TypeOK /\ ReadIsOwned

\* The initial state satisfies the invariant.
LEMMA InvInit == Init => Inv
  BY DEF Init, Inv, TypeOK, ReadIsOwned

\* Every step preserves the invariant.
LEMMA InvNext == Inv /\ [Next]_vars => Inv'
<1> SUFFICES ASSUME Inv, [Next]_vars PROVE Inv'
  OBVIOUS
<1> USE DEF Inv, TypeOK, ReadIsOwned
<1>1. CASE UNCHANGED vars
  BY <1>1 DEF vars
<1>2. ASSUME NEW s \in Surfaces, NEW f \in Frames, Acquire(s, f) PROVE Inv'
  <2>1. TypeOK'
    BY <1>2 DEF Acquire
  <2>2. ASSUME NEW t \in Surfaces, reading'[t] # {} PROVE owner'[t] # Nobody
    <3>1. CASE t = s
      BY <1>2, <2>2, <3>1 DEF Acquire
    <3>2. CASE t # s
      BY <1>2, <2>2, <3>2 DEF Acquire
    <3> QED BY <3>1, <3>2
  <2> QED BY <2>1, <2>2
<1>3. ASSUME NEW s \in Surfaces, NEW r \in Readers, BeginRead(s, r) PROVE Inv'
  BY <1>3 DEF BeginRead
<1>4. ASSUME NEW s \in Surfaces, NEW r \in Readers, EndRead(s, r) PROVE Inv'
  <2>1. TypeOK'
    BY <1>4 DEF EndRead
  <2>2. ASSUME NEW t \in Surfaces, reading'[t] # {} PROVE reading[t] # {}
    BY <1>4, <2>2 DEF EndRead
  <2> QED BY <1>4, <2>1, <2>2 DEF EndRead
<1>5. ASSUME NEW s \in Surfaces, Release(s) PROVE Inv'
  <2>1. TypeOK'
    BY <1>5 DEF Release
  <2>2. ASSUME NEW t \in Surfaces, reading'[t] # {} PROVE owner'[t] # Nobody
    <3>1. reading[t] # {} /\ t # s
      BY <1>5, <2>2 DEF Release
    <3> QED BY <1>5, <3>1 DEF Release
  <2> QED BY <2>1, <2>2
<1> QED BY <1>1, <1>2, <1>3, <1>4, <1>5 DEF Next

(* In every behaviour of the pool a surface that is read belongs to a      *)
(* frame: with ImplementsSurfacePool, NVENC and the eye image thread never *)
(* read a surface that was given back.                                     *)
THEOREM ReadSurfacesAreOwned == Spec => []ReadIsOwned
<1>1. Inv => ReadIsOwned
  BY DEF Inv
<1> QED BY InvInit, InvNext, <1>1, PTL DEF Spec

(* A surface changes hands only through Nobody: no step gives a surface of *)
(* one frame to another.                                                   *)
NoHandOver ==
    [][\A s \in Surfaces : owner[s] \in {Nobody, owner'[s]} \/ owner'[s] = Nobody]_vars

(* Two frames never share a surface, nor does one get it from the other    *)
(* without the deleter's release in between.                               *)
THEOREM SurfacesNotHandedOver == Spec => NoHandOver
<1>1. Inv /\ [Next]_vars =>
        [\A s \in Surfaces : owner[s] \in {Nobody, owner'[s]} \/ owner'[s] = Nobody]_vars
  <2> SUFFICES ASSUME Inv, Next, NEW s \in Surfaces
               PROVE owner[s] \in {Nobody, owner'[s]} \/ owner'[s] = Nobody
    BY DEF vars
  <2> USE DEF Inv, TypeOK
  <2>1. ASSUME NEW t \in Surfaces, NEW f \in Frames, Acquire(t, f)
        PROVE owner[s] \in {Nobody, owner'[s]}
    BY <2>1 DEF Acquire
  <2>2. ASSUME NEW t \in Surfaces, NEW r \in Readers, BeginRead(t, r) \/ EndRead(t, r)
        PROVE owner'[s] = owner[s]
    BY <2>2 DEF BeginRead, EndRead
  <2>3. ASSUME NEW t \in Surfaces, Release(t)
        PROVE owner'[s] \in {Nobody, owner[s]}
    BY <2>3 DEF Release
  <2> QED BY <2>1, <2>2, <2>3 DEF Next
<1> QED BY InvInit, InvNext, <1>1, PTL DEF Spec, NoHandOver
=============================================================================
