------------------------------- MODULE TrackStore -------------------------------
(***************************************************************************)
(* What internal/cache/audio.go promises (its lines 18-20): an entry is an *)
(* immutable, complete audio object. A key names at most one object; an    *)
(* object is published once, whole, under one key, and is never changed or *)
(* published again; a response is served the bytes that were published.    *)
(* The cache may forget any key at any time, and promises no hit.          *)
(***************************************************************************)
CONSTANTS Keys, Callers, Objects, Lengths, None

VARIABLES
  index,      \* the object a key names, or None
  published,  \* the bytes an object was published with, or None
  serving     \* the bytes a response is reading, or None

vars == <<index, published, serving>>

Init ==
  /\ index = [k \in Keys |-> None]
  /\ published = [o \in Objects |-> None]
  /\ serving = [c \in Callers |-> None]

\* A complete new object, in place of the one the key named. (The published
\* bytes of a key record that key.)
Publish(k, o) ==
  /\ published[o] = None
  /\ \E n \in Lengths : published' = [published EXCEPT ![o] = [key |-> k, len |-> n]]
  /\ index' = [index EXCEPT ![k] = o]
  /\ UNCHANGED serving

\* Eviction, a bad object found by a lookup, or recovery.
Forget(K) ==
  /\ index' = [k \in Keys |-> IF k \in K THEN None ELSE index[k]]
  /\ UNCHANGED <<published, serving>>

\* The response opens an object: all of its published bytes, or nothing.
Serve(c, o) ==
  /\ published[o] # None /\ serving[c] = None
  /\ serving' = [serving EXCEPT ![c] = published[o]]
  /\ UNCHANGED <<index, published>>

Finish(C) ==
  /\ serving' = [c \in Callers |-> IF c \in C THEN None ELSE serving[c]]
  /\ UNCHANGED <<index, published>>

Next ==
  \/ \E k \in Keys, o \in Objects : Publish(k, o)
  \/ \E K \in SUBSET Keys : Forget(K)
  \/ \E c \in Callers, o \in Objects : Serve(c, o)
  \/ \E C \in SUBSET Callers : Finish(C)

Spec == Init /\ [][Next]_vars
=================================================================================
