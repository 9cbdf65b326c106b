-------------------------- MODULE MonomialMapSpec --------------------------
(***************************************************************************)
(* What MonomialMap promises the threads that share it.  An entry is never *)
(* lost.  A hit is never spurious.  A miss is accurate for the entries the *)
(* thread knows of, those whose insertion happened before, unless its      *)
(* Reader is stale because the map has grown, or grows.                    *)
(***************************************************************************)
CONSTANTS Threads, Keys, NoKey

VARIABLES
  entries,  \* the keys of the map
  growing,
  stale,    \* whether a thread has no Reader but of an old table
  known,    \* the entries whose insertion happened before a thread's present
  asked,    \* the key that a thread looks up through its Reader
  outcome   \* what it has found out: "none" yet, "hit" or "miss"

vars == <<entries, growing, stale, known, asked, outcome>>

Init ==
  /\ entries = {}
  /\ growing = FALSE
  /\ stale = [t \in Threads |-> TRUE]
  /\ known = [t \in Threads |-> {}]
  /\ asked = [t \in Threads |-> NoKey]
  /\ outcome = [t \in Threads |-> "none"]

(* A thread may come to know more with whatever it does. *)
Learns(t) ==
  \E new \in SUBSET entries :
    known' = [known EXCEPT ![t] = @ \cup new]

(* A thread synchronises with others. *)
Synchronise(t) ==
  /\ Learns(t)
  /\ UNCHANGED <<entries, growing, stale, asked, outcome>>

(* A thread makes a Reader. *)
Refresh(t) ==
  /\ Learns(t)
  /\ stale' = [stale EXCEPT ![t] = growing]
  /\ UNCHANGED <<entries, growing, asked, outcome>>

(* insert, of a key that is not there *)
Put(t, k) ==
  /\ k \notin entries
  /\ ~growing
  /\ entries' = entries \cup {k}
  /\ known' = [known EXCEPT ![t] = entries']
  /\ UNCHANGED <<growing, stale, asked, outcome>>

StartGrowth ==
  /\ ~growing
  /\ growing' = TRUE
  /\ stale' = [t \in Threads |-> TRUE]
  /\ UNCHANGED <<entries, known, asked, outcome>>

EndGrowth ==
  /\ growing
  /\ growing' = FALSE
  /\ UNCHANGED <<entries, stale, known, asked, outcome>>

Ask(t, k) ==
  /\ asked[t] = NoKey \/ outcome[t] # "none"
  /\ asked' = [asked EXCEPT ![t] = k]
  /\ outcome' = [outcome EXCEPT ![t] = "none"]
  /\ Learns(t)
  /\ UNCHANGED <<entries, growing, stale>>

Hit(t) ==
  /\ asked[t] \in entries
  /\ outcome[t] = "none"
  /\ outcome' = [outcome EXCEPT ![t] = "hit"]
  /\ Learns(t)
  /\ UNCHANGED <<entries, growing, stale, asked>>

(* What a thread may be told of a key that is there *)
MayMiss(t, k) == stale[t] \/ k \notin known[t]

Miss(t) ==
  /\ asked[t] # NoKey
  /\ outcome[t] = "none"
  /\ Learns(t)
  /\ MayMiss(t, asked[t])'
  /\ outcome' = [outcome EXCEPT ![t] = "miss"]
  /\ UNCHANGED <<entries, growing, stale, asked>>

Return(t) ==
  /\ outcome[t] # "none"
  /\ asked' = [asked EXCEPT ![t] = NoKey]
  /\ outcome' = [outcome EXCEPT ![t] = "none"]
  /\ UNCHANGED <<entries, growing, stale, known>>

Clear ==
  /\ \A t \in Threads : asked[t] = NoKey
  /\ entries' = {}
  /\ known' = [t \in Threads |-> {}]
  /\ stale' = [t \in Threads |-> TRUE]
  /\ UNCHANGED <<growing, asked, outcome>>

Next ==
  \/ \E t \in Threads :
       \/ Synchronise(t) \/ Refresh(t)
       \/ \E k \in Keys : Put(t, k) \/ Ask(t, k)
       \/ Hit(t) \/ Miss(t) \/ Return(t)
  \/ StartGrowth
  \/ EndGrowth
  \/ Clear

Spec == Init /\ [][Next]_vars
=============================================================================
