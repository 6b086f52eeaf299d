------------------------------ MODULE NamedLock ------------------------------
(***************************************************************************)
(* What a registry of named locks promises when no lock carries an expiry: *)
(* each name has at most one owner, a free name may be taken, and only the *)
(* owner gives it back.  Locker implements this specification.             *)
(***************************************************************************)
CONSTANTS Threads,   \* the goroutines that use the registry
          Names,     \* the lock names (resources)
          Free       \* the owner of a name nobody holds

VARIABLE owner       \* [Names -> Threads \cup {Free}]

Init == owner = [n \in Names |-> Free]

(* A thread takes a name that nobody owns. *)
Acquire(t, n) ==
  /\ owner[n] = Free
  /\ owner' = [owner EXCEPT ![n] = t]

(* The owner gives the name back. *)
Release(t, n) ==
  /\ owner[n] = t
  /\ owner' = [owner EXCEPT ![n] = Free]

Next == \E t \in Threads, n \in Names : Acquire(t, n) \/ Release(t, n)

Spec == Init /\ [][Next]_owner
=============================================================================
