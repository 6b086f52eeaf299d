---------------------------- MODULE LockerProofs ----------------------------
(***************************************************************************)
(* What holds of the lock registry for every set of callers and names: its *)
(* type invariant, and what owners can rely on until their lease is over,  *)
(* whatever the expirations; when no lock carries an expiration, mutual    *)
(* exclusion, the absence of fatal unlocks, the exact lifetime of the      *)
(* registry's entries, and the refinement of named locks.                  *)
(***************************************************************************)
EXTENDS Locker, TLAPS, FiniteSetTheorems

(* The registry has the types of its fields in every reachable state        *)
(* (except that waiters is a natural number, which needs the count below).  *)
LooseTypeOK ==
  /\ locks \subseteq Names
  /\ locked \subseteq Names
  /\ waiters \in [Names -> Int]
  /\ expires \in [Names -> Nat]
  /\ now \in Nat
  /\ crashed \in BOOLEAN
  /\ pc \in [Threads -> PCs]
  /\ name \in [Threads -> Names]
  /\ ttl \in [Threads -> Durations]
  /\ lease \in [Threads -> Nat]
  /\ staleUnlock \in BOOLEAN

LEMMA LooseTypeInit == Init => LooseTypeOK
<1> SUFFICES ASSUME Init PROVE LooseTypeOK
  OBVIOUS
<1>1. crashed \in BOOLEAN /\ staleUnlock \in BOOLEAN
  BY Zenon DEF Init
<1> QED
  BY <1>1 DEF Init, LooseTypeOK, PCs

LEMMA LooseTypeSweep ==
  ASSUME LooseTypeOK, DeleteExpired
  PROVE  /\ locks' \subseteq Names
         /\ locked' \subseteq Names
         /\ waiters' \in [Names -> Int]
         /\ expires' \in [Names -> Nat]
         /\ crashed' \in BOOLEAN
<1>1. crashed' \in BOOLEAN
  BY Zenon DEF LooseTypeOK, DeleteExpired
<1>2. CASE UNCHANGED registry
  BY <1>1, <1>2 DEF LooseTypeOK, registry
<1>3. ASSUME NEW S, NEW kept, DropEntries(S, kept), UNCHANGED waiters
      PROVE  /\ locks' \subseteq Names
             /\ locked' \subseteq Names
             /\ waiters' \in [Names -> Int]
             /\ expires' \in [Names -> Nat]
  BY <1>3 DEF LooseTypeOK, DropEntries
<1> QED
  BY <1>1, <1>2, <1>3 DEF DeleteExpired

LEMMA LooseTypeNext == LooseTypeOK /\ [Next]_vars => LooseTypeOK'
<1> SUFFICES ASSUME LooseTypeOK, [Next]_vars PROVE LooseTypeOK'
  OBVIOUS
<1> USE ConstantsAssumption DEF LooseTypeOK, PCs
<1>1. ASSUME NEW t \in Threads, NEW n \in Names, NEW d \in Durations, LockCall(t, n, d)
      PROVE LooseTypeOK'
  BY <1>1, LooseTypeSweep DEF LockCall, history
<1>2. ASSUME NEW t \in Threads, GetEntry(t) PROVE LooseTypeOK'
  <2>1. name[t] \in Names /\ ttl[t] \in Nat
    OBVIOUS
  <2>2. expires' \in [Names -> Nat] /\ waiters' \in [Names -> Int] /\ locks' \subseteq Names
    BY <1>2, <2>1 DEF GetEntry
  <2> QED
    BY <1>2, <2>2 DEF GetEntry, history
<1>3. ASSUME NEW t \in Threads, Acquire(t) PROVE LooseTypeOK'
  BY <1>3 DEF Acquire
<1>4. ASSUME NEW t \in Threads, Dec(t) PROVE LooseTypeOK'
  BY <1>4 DEF Dec, history
<1>5. ASSUME NEW t \in Threads, UnlockCall(t) PROVE LooseTypeOK'
  BY <1>5, LooseTypeSweep DEF UnlockCall, history
<1>6. ASSUME NEW t \in Threads, UnlockMissing(t) PROVE LooseTypeOK'
  BY <1>6 DEF UnlockMissing, history, registry
<1>7. ASSUME NEW t \in Threads, Unlock(t) PROVE LooseTypeOK'
  BY <1>7 DEF Unlock, DropEntries
<1>8. ASSUME NEW t \in Threads, UnlockUnlocked(t) PROVE LooseTypeOK'
  BY <1>8 DEF UnlockUnlocked, history, registry
<1>9. CASE Exists
  BY <1>9, LooseTypeSweep DEF Exists, history
<1>10. CASE Tick
  BY <1>10 DEF Tick, history, registry
<1>11. CASE UNCHANGED vars
  BY <1>11 DEF vars, registry, history
<1> QED
  BY <1>1, <1>2, <1>3, <1>4, <1>5, <1>6, <1>7, <1>8, <1>9, <1>10, <1>11 DEF Next, Step

-----------------------------------------------------------------------------
(* The callers between inc() and dec() are a finite set, and a caller that  *)
(* enters or leaves it changes its size by one.                             *)
LEMMA CountedFinite ==
  ASSUME NEW n \in Names PROVE IsFiniteSet(Counted(n))
  BY ConstantsAssumption, FS_Subset DEF Counted

LEMMA CountAdd ==
  ASSUME NEW S, NEW x, IsFiniteSet(S), x \notin S
  PROVE  Cardinality(S \cup {x}) = Cardinality(S) + 1
  BY FS_AddElement

LEMMA CountRemove ==
  ASSUME NEW S, NEW x, IsFiniteSet(S), x \in S
  PROVE  Cardinality(S \ {x}) = Cardinality(S) - 1
  BY FS_RemoveElement

-----------------------------------------------------------------------------
(* The inductive invariant of a registry, whatever its locks' expirations. *)

WaitersCount == \A n \in Names : waiters[n] = Cardinality(Counted(n))

(* Nobody waits on an entry that left the map. *)
EntryKept == \A n \in Names : Counted(n) # {} => n \in locks

(* As long as no caller has unlocked after its lease, an owner with a lease *)
(* has the entry with the expiry it was given, locked, and to itself.       *)
LeaseHeld ==
  ~staleUnlock =>
    \A n \in Names : \A t \in Owners(n) :
      ~LeaseOver(t) =>
        /\ n \in locks /\ n \in locked /\ expires[n] = lease[t]
        /\ \A u \in Owners(n) : u # t => LeaseOver(u)

LeaseInv ==
  /\ LooseTypeOK
  /\ WaitersCount
  /\ EntryKept
  /\ LeaseHeld
  /\ FatalNeedsExpiry

LEMMA LeaseInit == Init => LeaseInv
<1> SUFFICES ASSUME Init PROVE LeaseInv
  OBVIOUS
<1>1. \A n \in Names : Counted(n) = {} /\ Owners(n) = {}
  BY DEF Init, Counted, Owners
<1>2. WaitersCount /\ EntryKept
  BY <1>1, FS_EmptySet DEF Init, WaitersCount, EntryKept
<1>3. LeaseHeld
  BY <1>1 DEF LeaseHeld
<1>4. FatalNeedsExpiry
  BY Zenon DEF Init, FatalNeedsExpiry
<1> QED
  BY <1>2, <1>3, <1>4, LooseTypeInit DEF LeaseInv

(* An entry leaves the map only when nobody waits for it. *)
LEMMA UnusedIffUncounted ==
  ASSUME WaitersCount, NEW n \in Names
  PROVE  Unused(n) <=> Counted(n) = {}
  BY CountedFinite, FS_EmptySet DEF WaitersCount, Unused

(* A sweep takes no entry from those who wait, nor from an owner with a     *)
(* lease; it stops the process only when an entry has expired.              *)
LEMMA SweepKeeps ==
  ASSUME LeaseInv, ~crashed, DeleteExpired, UNCHANGED <<now, history>>,
         \A n \in Names : Counted(n)' = Counted(n) /\ Owners(n)' = Owners(n)
  PROVE  WaitersCount' /\ EntryKept' /\ LeaseHeld' /\ FatalNeedsExpiry'
<1> USE DEF LeaseInv
<1>w. \A n \in Names : waiters'[n] = waiters[n]
  BY DEF DeleteExpired, registry
<1>1. WaitersCount'
  BY <1>w DEF WaitersCount
<1>2. CASE crashed' = TRUE /\ UNCHANGED registry /\ \E n \in Names : Expired(n)
  <2>1. FatalNeedsExpiry'
    BY <1>2 DEF FatalNeedsExpiry, Expired, registry
  <2>2. EntryKept' /\ LeaseHeld'
    BY <1>2 DEF EntryKept, LeaseHeld, LeaseOver, registry, history
  <2> QED
    BY <1>1, <2>1, <2>2
<1> DEFINE gone == {n \in Names : Expired(n)}
<1>3. CASE /\ DropEntries({n \in gone : Unused(n)}, {n \in gone : ~Unused(n)})
           /\ UNCHANGED <<waiters, crashed>>
  <2>1. \A n \in Names : n \notin gone => (n \in locks' <=> n \in locks)
                                       /\ (n \in locked' <=> n \in locked)
                                       /\ expires'[n] = expires[n]
    BY <1>3 DEF DropEntries, LooseTypeOK
  <2>2. \A n \in Names : n \in locks /\ n \notin locks' => Counted(n) = {}
    BY <1>3, UnusedIffUncounted DEF DropEntries
  <2>3. EntryKept'
    BY <2>2 DEF EntryKept
  <2>4. LeaseHeld'
    <3>1. \A n \in Names : \A t \in Owners(n) :
            ~staleUnlock /\ ~LeaseOver(t) => n \notin gone
      BY DEF LeaseHeld, LeaseOver, Expired
    <3>2. staleUnlock' = staleUnlock /\ \A t \in Threads : LeaseOver(t)' <=> LeaseOver(t)
      BY DEF LeaseOver, history
    <3>3. \A n \in Names : Owners(n) \subseteq Threads
      BY DEF Owners
    <3> HIDE DEF gone
    <3> QED
      BY <2>1, <3>1, <3>2, <3>3 DEF LeaseHeld, history
  <2>5. FatalNeedsExpiry'
    <3>1. ~crashed'
      BY <1>3
    <3> QED
      BY <3>1, Zenon DEF FatalNeedsExpiry
  <2> QED
    BY <1>1, <2>3, <2>4, <2>5
<1>4. ~(gone \subseteq locked) => \E n \in Names : Expired(n)
  OBVIOUS
<1> QED
  BY <1>2, <1>3, <1>4, Zenon DEF DeleteExpired

(* A step that changes neither owners nor leases, and takes no entry from   *)
(* the map, keeps the leases.                                               *)
LEMMA LeaseUntouched ==
  ASSUME LeaseInv, UNCHANGED <<now, history>>, \A n \in Names : Owners(n)' = Owners(n),
         \A n \in locks : n \in locks' /\ expires'[n] = expires[n], UNCHANGED locked
  PROVE  LeaseHeld'
<1>1. \A t : LeaseOver(t)' <=> LeaseOver(t)
  BY DEF LeaseOver, history
<1> QED
  BY <1>1 DEF LeaseInv, LeaseHeld, history

LEMMA LeaseNext == LeaseInv /\ [Next]_vars => LeaseInv'
<1> SUFFICES ASSUME LeaseInv, [Next]_vars PROVE LeaseInv'
  OBVIOUS
<1>t. LooseTypeOK /\ LooseTypeOK'
  BY LooseTypeNext DEF LeaseInv
<1>f. \A n \in Names : IsFiniteSet(Counted(n))
  BY CountedFinite
<1>c. ~crashed' => FatalNeedsExpiry'
  BY Zenon DEF FatalNeedsExpiry
<1>1. ASSUME ~crashed, NEW t \in Threads, NEW n \in Names, NEW d \in Durations, LockCall(t, n, d)
      PROVE  LeaseInv'
  <2>1. \A m \in Names : Counted(m)' = Counted(m) /\ Owners(m)' = Owners(m)
    BY <1>1, <1>t DEF LockCall, Counted, Owners, LooseTypeOK
  <2> QED
    BY <1>1, <1>t, <2>1, SweepKeeps DEF LockCall, LeaseInv
<1>2. ASSUME ~crashed, NEW t \in Threads, GetEntry(t) PROVE LeaseInv'
  <2>0. PICK n \in Names : n = name[t]
    BY <1>t DEF LooseTypeOK
  <2>1. t \notin Counted(n) /\ Counted(n)' = Counted(n) \cup {t}
    BY <1>2, <1>t, <2>0 DEF GetEntry, Counted, LooseTypeOK
  <2>2. \A m \in Names \ {n} : Counted(m)' = Counted(m)
    BY <1>2, <1>t, <2>0 DEF GetEntry, Counted, LooseTypeOK
  <2>3. \A m \in Names : Owners(m)' = Owners(m)
    BY <1>2, <1>t, <2>0 DEF GetEntry, Owners, LooseTypeOK
  <2>4. WaitersCount'
    <3>1. Cardinality(Counted(n)') = Cardinality(Counted(n)) + 1
      BY <1>f, <2>0, <2>1, CountAdd
    <3> QED
      BY <1>2, <1>t, <3>1, <2>0, <2>2 DEF GetEntry, WaitersCount, LeaseInv, LooseTypeOK
  <2>5. EntryKept'
    BY <1>2, <2>0, <2>2 DEF GetEntry, EntryKept, LeaseInv
  <2>6. LeaseHeld'
    BY <1>2, <1>t, <2>0, <2>3, LeaseUntouched DEF GetEntry, LooseTypeOK
  <2> QED
    BY <1>2, <1>c, <1>t, <2>4, <2>5, <2>6 DEF GetEntry, LeaseInv
<1>3. ASSUME ~crashed, NEW t \in Threads, Acquire(t) PROVE LeaseInv'
  <2>0. PICK n \in Names : n = name[t]
    BY <1>t DEF LooseTypeOK
  <2>1. \A m \in Names : Counted(m)' = Counted(m)
    BY <1>3, <1>t, <2>0 DEF Acquire, Counted, LooseTypeOK
  <2>2. t \notin Owners(n) /\ Owners(n)' = Owners(n) \cup {t}
    BY <1>3, <1>t, <2>0 DEF Acquire, Owners, LooseTypeOK
  <2>3. \A m \in Names \ {n} : Owners(m)' = Owners(m) /\ t \notin Owners(m)
    BY <1>3, <1>t, <2>0 DEF Acquire, Owners, LooseTypeOK
  <2>4. WaitersCount' /\ EntryKept'
    BY <1>3, <2>1 DEF Acquire, WaitersCount, EntryKept, LeaseInv
  <2>5. LeaseHeld'
    <3>1. t \in Counted(n) /\ n \in locks
      BY <1>3, <2>0 DEF Acquire, Counted, LeaseInv, EntryKept
    <3>2. /\ lease'[t] = expires[n] /\ n \in locked' /\ locks' = locks /\ expires' = expires
          /\ staleUnlock' = staleUnlock /\ \A m \in Names \ {n} : m \in locked' <=> m \in locked
      BY <1>3, <1>t, <2>0 DEF Acquire, LooseTypeOK
    <3>3. /\ \A u \in Threads \ {t} : (LeaseOver(u)' <=> LeaseOver(u)) /\ lease'[u] = lease[u]
          /\ \A m \in Names : Owners(m) \subseteq Threads
      BY <1>3, <1>t DEF Acquire, LeaseOver, LooseTypeOK, Owners
    <3>4. ~staleUnlock => \A u \in Owners(n) : LeaseOver(u)
      BY <1>3, <2>0 DEF Acquire, LeaseInv, LeaseHeld
    <3>5. ASSUME ~staleUnlock, NEW m \in Names, NEW u \in Owners(m)', ~LeaseOver(u)'
          PROVE  /\ m \in locks' /\ m \in locked' /\ expires'[m] = lease'[u]
                 /\ \A v \in Owners(m)' : v # u => LeaseOver(v)'
      <4>1. CASE m = n
        BY <2>2, <3>1, <3>2, <3>3, <3>4, <3>5, <4>1
      <4>2. CASE m # n
        BY <2>3, <3>2, <3>3, <3>5, <4>2 DEF LeaseInv, LeaseHeld
      <4> QED
        BY <4>1, <4>2
    <3> QED
      BY <3>2, <3>5 DEF LeaseHeld
  <2> QED
    BY <1>3, <1>c, <1>t, <2>4, <2>5 DEF Acquire, LeaseInv
<1>4. ASSUME ~crashed, NEW t \in Threads, Dec(t) PROVE LeaseInv'
  <2>0. PICK n \in Names : n = name[t]
    BY <1>t DEF LooseTypeOK
  <2>1. t \in Counted(n) /\ Counted(n)' = Counted(n) \ {t}
    BY <1>4, <1>t, <2>0 DEF Dec, Counted, LooseTypeOK
  <2>2. \A m \in Names \ {n} : Counted(m)' = Counted(m)
    BY <1>4, <1>t, <2>0 DEF Dec, Counted, LooseTypeOK
  <2>3. \A m \in Names : Owners(m)' = Owners(m)
    BY <1>4, <1>t, <2>0 DEF Dec, Owners, LooseTypeOK
  <2>4. WaitersCount'
    <3>1. Cardinality(Counted(n)') = Cardinality(Counted(n)) - 1
      BY <1>f, <2>0, <2>1, CountRemove
    <3> QED
      BY <1>4, <1>t, <3>1, <2>0, <2>2 DEF Dec, WaitersCount, LeaseInv, LooseTypeOK
  <2>5. EntryKept'
    BY <1>4, <2>1, <2>2 DEF Dec, EntryKept, LeaseInv
  <2>6. LeaseHeld'
    BY <1>4, <2>3, LeaseUntouched DEF Dec
  <2> QED
    BY <1>4, <1>c, <1>t, <2>4, <2>5, <2>6 DEF Dec, LeaseInv
<1>5. ASSUME ~crashed, NEW t \in Threads, UnlockCall(t) PROVE LeaseInv'
  <2>1. \A m \in Names : Counted(m)' = Counted(m) /\ Owners(m)' = Owners(m)
    BY <1>5, <1>t DEF UnlockCall, Counted, Owners, LooseTypeOK
  <2> QED
    BY <1>5, <1>t, <2>1, SweepKeeps DEF UnlockCall, LeaseInv
<1>6. ASSUME ~crashed, NEW t \in Threads, UnlockMissing(t) PROVE LeaseInv'
  <2>1. \A m \in Names : Counted(m)' = Counted(m) /\ Owners(m)' \subseteq Owners(m)
    BY <1>6, <1>t DEF UnlockMissing, Counted, Owners, LooseTypeOK
  <2>2. WaitersCount' /\ EntryKept'
    BY <1>6, <2>1 DEF UnlockMissing, WaitersCount, EntryKept, LeaseInv, registry
  <2>3. \A u : LeaseOver(u)' <=> LeaseOver(u)
    BY <1>6 DEF UnlockMissing, LeaseOver, history
  <2>4. LeaseHeld'
    BY <1>6, <2>1, <2>3 DEF UnlockMissing, LeaseHeld, LeaseInv, registry, history
  <2> QED
    BY <1>6, <1>c, <1>t, <2>2, <2>4 DEF UnlockMissing, LeaseInv
<1>7. ASSUME ~crashed, NEW t \in Threads, Unlock(t) PROVE LeaseInv'
  <2>0. PICK n \in Names : n = name[t]
    BY <1>t DEF LooseTypeOK
  <2>1. t \in Owners(n) /\ Owners(n)' = Owners(n) \ {t}
    BY <1>7, <1>t, <2>0 DEF Unlock, Owners, LooseTypeOK
  <2>2. \A m \in Names \ {n} : Owners(m)' = Owners(m)
    BY <1>7, <1>t, <2>0 DEF Unlock, Owners, LooseTypeOK
  <2>3. \A m \in Names : Counted(m)' = Counted(m)
    BY <1>7, <1>t, <2>0 DEF Unlock, Counted, LooseTypeOK
  <2>4. WaitersCount'
    BY <1>7, <2>3 DEF Unlock, WaitersCount, LeaseInv
  <2>5. \A m \in Names \ {n} : /\ m \in locks' <=> m \in locks
                               /\ m \in locked' <=> m \in locked
                               /\ expires'[m] = expires[m]
    BY <1>7, <1>t, <2>0 DEF Unlock, DropEntries, LooseTypeOK
  <2>6. EntryKept'
    <3>1. Counted(n) # {} => n \in locks'
      BY <1>7, <2>0, UnusedIffUncounted DEF Unlock, DropEntries, LeaseInv
    <3> QED
      BY <3>1, <2>3, <2>5 DEF EntryKept, LeaseInv
  <2>7. LeaseHeld'
    <3>1. \A u : (LeaseOver(u)' <=> LeaseOver(u)) /\ lease'[u] = lease[u]
      BY <1>7 DEF Unlock, LeaseOver
    <3>2. ~staleUnlock' => ~staleUnlock /\ ~LeaseOver(t)
      BY <1>7, Zenon DEF Unlock
    <3>3. ~staleUnlock' => \A u \in Owners(n)' : LeaseOver(u)
      BY <2>1, <3>2 DEF LeaseInv, LeaseHeld
    <3>4. ASSUME ~staleUnlock', NEW m \in Names \ {n}, NEW u \in Owners(m), ~LeaseOver(u)
          PROVE  /\ m \in locks' /\ m \in locked' /\ expires'[m] = lease[u]
                 /\ \A v \in Owners(m) : v # u => LeaseOver(v)
      BY <2>5, <3>2, <3>4 DEF LeaseInv, LeaseHeld
    <3> QED
      BY <2>2, <3>1, <3>3, <3>4 DEF LeaseHeld
  <2> QED
    BY <1>7, <1>c, <1>t, <2>4, <2>6, <2>7 DEF Unlock, LeaseInv
<1>8. ASSUME ~crashed, NEW t \in Threads, UnlockUnlocked(t) PROVE LeaseInv'
  <2>1. t \in Owners(name[t]) /\ name[t] \in Names
    BY <1>8, <1>t DEF UnlockUnlocked, Owners, LooseTypeOK
  <2>2. staleUnlock \/ LeaseOver(t)
    BY <1>8, <2>1 DEF UnlockUnlocked, LeaseInv, LeaseHeld
  <2>3. FatalNeedsExpiry'
    BY <1>8, <2>2 DEF UnlockUnlocked, FatalNeedsExpiry, LeaseOver, history
  <2>4. \A m \in Names : Counted(m)' = Counted(m) /\ Owners(m)' = Owners(m)
    BY <1>8 DEF UnlockUnlocked, Counted, Owners
  <2>5. WaitersCount' /\ EntryKept'
    BY <1>8, <2>4 DEF UnlockUnlocked, WaitersCount, EntryKept, LeaseInv, registry
  <2>6. LeaseHeld'
    BY <1>8, <2>4, LeaseUntouched DEF UnlockUnlocked, registry
  <2> QED
    BY <1>t, <2>3, <2>5, <2>6 DEF LeaseInv
<1>9. ASSUME ~crashed, Exists PROVE LeaseInv'
  <2>1. \A m \in Names : Counted(m)' = Counted(m) /\ Owners(m)' = Owners(m)
    BY <1>9 DEF Exists, Counted, Owners
  <2> QED
    BY <1>9, <1>t, <2>1, SweepKeeps DEF Exists, LeaseInv
<1>10. ASSUME ~crashed, Tick PROVE LeaseInv'
  <2>1. \A m \in Names : Counted(m)' = Counted(m) /\ Owners(m)' = Owners(m)
    BY <1>10 DEF Tick, Counted, Owners
  <2>2. WaitersCount' /\ EntryKept'
    BY <1>10, <2>1 DEF Tick, WaitersCount, EntryKept, LeaseInv, registry
  <2>3. \A u \in Threads : LeaseOver(u) => LeaseOver(u)'
    BY <1>10, <1>t DEF Tick, LeaseOver, LooseTypeOK, history
  <2>4. LeaseHeld'
    <3>1. \A m \in Names : Owners(m) \subseteq Threads
      BY DEF Owners
    <3> QED
      BY <1>10, <2>1, <2>3, <3>1 DEF Tick, LeaseHeld, LeaseInv, registry, history
  <2> QED
    BY <1>10, <1>c, <1>t, <2>2, <2>4 DEF Tick, LeaseInv
<1>11. CASE UNCHANGED vars
  <2>1. \A m \in Names : Counted(m)' = Counted(m) /\ Owners(m)' = Owners(m)
    BY <1>11 DEF vars, Counted, Owners
  <2>2. WaitersCount' /\ EntryKept'
    BY <1>11, <2>1 DEF vars, WaitersCount, EntryKept, LeaseInv, registry
  <2>3. LeaseHeld'
    BY <1>11, <2>1, LeaseUntouched DEF vars, registry
  <2>4. FatalNeedsExpiry'
    BY <1>11 DEF vars, registry, history, LeaseInv, FatalNeedsExpiry, Expired, LeaseOver
  <2> QED
    BY <1>t, <2>2, <2>3, <2>4 DEF LeaseInv
<1> QED
  BY <1>1, <1>2, <1>3, <1>4, <1>5, <1>6, <1>7, <1>8, <1>9, <1>10, <1>11 DEF Next, Step

LEMMA LeaseInvHolds == Spec => []LeaseInv
  BY LeaseInit, LeaseNext, PTL DEF Spec

(* The fields of the registry keep their types, whatever the expirations;   *)
(* the counter of an entry never becomes negative, since it is the number   *)
(* of callers between inc() and dec().                                      *)
THEOREM TypeCorrect == Spec => []TypeOK
<1>1. LeaseInv => TypeOK
  <2> SUFFICES ASSUME LeaseInv PROVE TypeOK
    OBVIOUS
  <2>1. \A n \in Names : waiters[n] \in Nat
    BY CountedFinite, FS_CardinalityType DEF LeaseInv, WaitersCount
  <2> QED
    BY <2>1 DEF LeaseInv, LooseTypeOK, TypeOK
<1> QED
  BY <1>1, LeaseInvHolds, PTL

(* Whatever the durations callers ask for: as long as nobody unlocks after  *)
(* its lease, of two owners of a name one has a lease that is over, so that *)
(* expiry never hands a lock on early (locker_memory.go:88-137).            *)
THEOREM LeaseExclusionHolds == Spec => []LeaseExclusion
<1>1. LeaseInv => LeaseExclusion
  BY DEF LeaseInv, LeaseHeld, LeaseExclusion
<1> QED
  BY <1>1, LeaseInvHolds, PTL

(* Whatever the durations: the Go runtime stops the process only after an   *)
(* expiry (locker_memory.go:134, 155).                                      *)
THEOREM FatalNeedsExpiryHolds == Spec => []FatalNeedsExpiry
<1>1. LeaseInv => FatalNeedsExpiry
  BY DEF LeaseInv
<1> QED
  BY <1>1, LeaseInvHolds, PTL

-----------------------------------------------------------------------------
(* The inductive invariant of a registry whose locks never expire. *)

NothingExpires ==
  /\ \A t \in Threads : ttl[t] = 0
  /\ \A n \in Names : expires[n] = 0
  /\ crashed = FALSE

LockedIffOwned == \A n \in Names : n \in locked <=> Owners(n) # {}

Inv ==
  /\ LooseTypeOK
  /\ NothingExpires
  /\ WaitersCount
  /\ LockedIffOwned
  /\ EntryIffUsed
  /\ MutualExclusion

LEMMA InvInit ==
  ASSUME Durations = {0} PROVE Init => Inv
<1> SUFFICES ASSUME Init PROVE Inv
  OBVIOUS
<1>1. \A n \in Names : Counted(n) = {} /\ Owners(n) = {}
  BY DEF Init, Counted, Owners
<1>2. WaitersCount
  BY <1>1, FS_EmptySet DEF Init, WaitersCount
<1>3. NothingExpires /\ LockedIffOwned /\ EntryIffUsed /\ MutualExclusion
  BY <1>1 DEF Init, NothingExpires, LockedIffOwned, EntryIffUsed, MutualExclusion, Users
<1> QED
  BY <1>2, <1>3, LooseTypeInit DEF Inv

(* Without expirations the sweep at the start of each call does nothing. *)
LEMMA SweepIsIdle ==
  ASSUME Inv, DeleteExpired
  PROVE  UNCHANGED <<registry, crashed>>
<1>1. \A n \in Names : ~Expired(n)
  BY DEF Inv, NothingExpires, LooseTypeOK, Expired
<1>2. {n \in Names : Expired(n)} = {}
  BY <1>1
<1>3. DropEntries({}, {}) /\ UNCHANGED <<waiters, crashed>>
  BY <1>2, Zenon DEF DeleteExpired
<1>4. locks' = locks /\ locked' = locked /\ expires' = expires
  BY <1>3 DEF DropEntries, Inv, LooseTypeOK
<1> QED
  BY <1>3, <1>4 DEF registry

(* A step that changes only the position of one caller outside the counted  *)
(* and owning positions, and no field of the registry, keeps the invariant. *)
LEMMA InvNext ==
  ASSUME Durations = {0} PROVE Inv /\ [Next]_vars => Inv'
<1> SUFFICES ASSUME Inv, [Next]_vars PROVE Inv'
  OBVIOUS
<1>t. LooseTypeOK'
  BY LooseTypeNext DEF Inv
<1>f. \A n \in Names : IsFiniteSet(Counted(n))
  BY CountedFinite
<1>1. ASSUME NEW t \in Threads, NEW n \in Names, NEW d \in Durations, LockCall(t, n, d)
      PROVE Inv'
  <2>1. UNCHANGED <<registry, crashed>>
    BY <1>1, SweepIsIdle DEF LockCall
  <2>2. \A m \in Names : Counted(m)' = Counted(m) /\ Owners(m)' = Owners(m)
    BY <1>1 DEF LockCall, Counted, Owners, Inv, LooseTypeOK
  <2>3. NothingExpires'
    BY <1>1, <2>1 DEF LockCall, NothingExpires, Inv, LooseTypeOK, registry
  <2> QED
    BY <1>t, <2>1, <2>2, <2>3
    DEF Inv, WaitersCount, LockedIffOwned, EntryIffUsed, MutualExclusion, Users, registry
<1>2. ASSUME NEW t \in Threads, GetEntry(t) PROVE Inv'
  <2>0. PICK n \in Names : n = name[t]
    BY DEF Inv, LooseTypeOK
  <2>1. t \notin Counted(n) /\ Counted(n)' = Counted(n) \cup {t}
    BY <1>2, <2>0 DEF GetEntry, Counted, Inv, LooseTypeOK
  <2>2. \A m \in Names \ {n} : Counted(m)' = Counted(m)
    BY <1>2, <2>0 DEF GetEntry, Counted, Inv, LooseTypeOK
  <2>3. \A m \in Names : Owners(m)' = Owners(m)
    BY <1>2, <2>0 DEF GetEntry, Owners, Inv, LooseTypeOK
  <2>4. NothingExpires'
    BY <1>2, <2>0 DEF GetEntry, NothingExpires, Inv, LooseTypeOK
  <2>5. WaitersCount'
    <3>1. Cardinality(Counted(n)') = Cardinality(Counted(n)) + 1
      BY <1>f, <2>0, <2>1, CountAdd
    <3> QED
      BY <1>2, <3>1, <2>0, <2>2 DEF GetEntry, WaitersCount, Inv, LooseTypeOK
  <2>6. EntryIffUsed'
    BY <1>2, <2>0, <2>1, <2>2, <2>3 DEF GetEntry, EntryIffUsed, Users, Inv
  <2> QED
    BY <1>2, <2>0, <1>t, <2>3, <2>4, <2>5, <2>6 DEF GetEntry, Inv, LockedIffOwned, MutualExclusion
<1>3. ASSUME NEW t \in Threads, Acquire(t) PROVE Inv'
  <2>0. PICK n \in Names : n = name[t]
    BY DEF Inv, LooseTypeOK
  <2>1. \A m \in Names : Counted(m)' = Counted(m)
    BY <1>3, <2>0 DEF Acquire, Counted, Inv, LooseTypeOK
  <2>2. Owners(n) = {} /\ Owners(n)' = {t}
    BY <1>3, <2>0 DEF Acquire, Owners, Inv, LooseTypeOK, LockedIffOwned
  <2>3. \A m \in Names \ {n} : Owners(m)' = Owners(m)
    BY <1>3, <2>0 DEF Acquire, Owners, Inv, LooseTypeOK
  <2>4. t \in Counted(n)
    BY <1>3, <2>0 DEF Acquire, Counted
  <2>5. NothingExpires' /\ WaitersCount'
    BY <1>3, <2>0, <2>1 DEF Acquire, NothingExpires, WaitersCount, Inv
  <2>6. LockedIffOwned' /\ MutualExclusion'
    <3>1. n \in locked' /\ \A m \in Names \ {n} : m \in locked' <=> m \in locked
      BY <1>3, <2>0 DEF Acquire
    <3>2. LockedIffOwned'
      BY <3>1, <2>2, <2>3 DEF LockedIffOwned, Inv
    <3>3. MutualExclusion'
      BY <2>2, <2>3 DEF MutualExclusion, Inv
    <3> QED
      BY <3>2, <3>3
  <2>7. EntryIffUsed'
    BY <1>3, <2>0, <2>1, <2>2, <2>3, <2>4 DEF Acquire, EntryIffUsed, Users, Inv
  <2> QED
    BY <1>t, <2>5, <2>6, <2>7 DEF Inv
<1>4. ASSUME NEW t \in Threads, Dec(t) PROVE Inv'
  <2>0. PICK n \in Names : n = name[t]
    BY DEF Inv, LooseTypeOK
  <2>1. t \in Counted(n) /\ Counted(n)' = Counted(n) \ {t}
    BY <1>4, <2>0 DEF Dec, Counted, Inv, LooseTypeOK
  <2>2. \A m \in Names \ {n} : Counted(m)' = Counted(m)
    BY <1>4, <2>0 DEF Dec, Counted, Inv, LooseTypeOK
  <2>3. t \in Owners(n) /\ \A m \in Names : Owners(m)' = Owners(m)
    BY <1>4, <2>0 DEF Dec, Owners, Inv, LooseTypeOK
  <2>4. NothingExpires'
    BY <1>4, <2>0 DEF Dec, NothingExpires, Inv
  <2>5. WaitersCount'
    <3>1. Cardinality(Counted(n)') = Cardinality(Counted(n)) - 1
      BY <1>f, <2>0, <2>1, CountRemove
    <3> QED
      BY <1>4, <3>1, <2>0, <2>2 DEF Dec, WaitersCount, Inv, LooseTypeOK
  <2>6. EntryIffUsed'
    BY <1>4, <2>0, <2>1, <2>2, <2>3 DEF Dec, EntryIffUsed, Users, Inv
  <2> QED
    BY <1>4, <2>0, <1>t, <2>3, <2>4, <2>5, <2>6 DEF Dec, Inv, LockedIffOwned, MutualExclusion
<1>5. ASSUME NEW t \in Threads, UnlockCall(t) PROVE Inv'
  <2>1. UNCHANGED <<registry, crashed>>
    BY <1>5, SweepIsIdle DEF UnlockCall
  <2>2. \A m \in Names : Counted(m)' = Counted(m) /\ Owners(m)' = Owners(m)
    BY <1>5 DEF UnlockCall, Counted, Owners, Inv, LooseTypeOK
  <2>3. NothingExpires'
    BY <1>5, <2>1 DEF UnlockCall, NothingExpires, Inv, LooseTypeOK, registry
  <2> QED
    BY <1>t, <2>1, <2>2, <2>3
    DEF Inv, WaitersCount, LockedIffOwned, EntryIffUsed, MutualExclusion, Users, registry
<1>6. ASSUME NEW t \in Threads, UnlockMissing(t) PROVE FALSE
  <2>1. t \in Owners(name[t]) /\ name[t] \in Names
    BY <1>6 DEF UnlockMissing, Owners, Inv, LooseTypeOK
  <2> QED
    BY <1>6, <2>1 DEF UnlockMissing, Inv, EntryIffUsed, Users
<1>7. ASSUME NEW t \in Threads, Unlock(t) PROVE Inv'
  <2>0. PICK n \in Names : n = name[t]
    BY DEF Inv, LooseTypeOK
  <2>1. Owners(n) = {t}
    BY <1>7, <2>0 DEF Unlock, Owners, Inv, MutualExclusion
  <2>2. Owners(n)' = {}
    BY <1>7, <2>0, <2>1 DEF Unlock, Owners, Inv, LooseTypeOK
  <2>3. \A m \in Names \ {n} : Owners(m)' = Owners(m)
    BY <1>7, <2>0 DEF Unlock, Owners, Inv, LooseTypeOK
  <2>4. \A m \in Names : Counted(m)' = Counted(m)
    BY <1>7, <2>0 DEF Unlock, Counted, Inv, LooseTypeOK
  <2>5. WaitersCount'
    BY <1>7, <2>0, <2>4 DEF Unlock, WaitersCount, Inv
  <2>6. n \notin locked' /\ \A m \in Names \ {n} : m \in locked' <=> m \in locked
    BY <1>7, <2>0 DEF Unlock, DropEntries, Inv, LooseTypeOK
  <2>7. NothingExpires'
    BY <1>7, <2>0 DEF Unlock, DropEntries, NothingExpires, Inv, LooseTypeOK
  <2>8. Unused(n) <=> Counted(n) = {}
    BY <1>f, <2>0, FS_EmptySet DEF Unused, Inv, WaitersCount
  <2>9. n \in locks' <=> Counted(n) # {}
    BY <1>7, <2>0, <2>8 DEF Unlock, DropEntries
  <2>10. \A m \in Names \ {n} : m \in locks' <=> m \in locks
    BY <1>7, <2>0 DEF Unlock, DropEntries
  <2>11. EntryIffUsed'
    BY <2>0, <2>2, <2>3, <2>4, <2>9, <2>10 DEF EntryIffUsed, Users, Inv
  <2>12. LockedIffOwned' /\ MutualExclusion'
    BY <2>0, <2>2, <2>3, <2>6 DEF LockedIffOwned, MutualExclusion, Inv
  <2> QED
    BY <1>t, <2>5, <2>7, <2>11, <2>12 DEF Inv
<1>8. ASSUME NEW t \in Threads, UnlockUnlocked(t) PROVE FALSE
  <2>1. t \in Owners(name[t]) /\ name[t] \in Names
    BY <1>8 DEF UnlockUnlocked, Owners, Inv, LooseTypeOK
  <2> QED
    BY <1>8, <2>1 DEF UnlockUnlocked, Inv, LockedIffOwned
<1>9. CASE Exists
  BY <1>9 DEF Exists, Expired, Inv, NothingExpires, LooseTypeOK
<1>10. CASE Tick
  <2>1. \A m \in Names : Counted(m)' = Counted(m) /\ Owners(m)' = Owners(m)
    BY <1>10 DEF Tick, Counted, Owners
  <2> QED
    BY <1>10, <1>t, <2>1
    DEF Tick, Inv, NothingExpires, WaitersCount, LockedIffOwned, EntryIffUsed,
        MutualExclusion, Users, registry
<1>11. CASE UNCHANGED vars
  <2>1. \A m \in Names : Counted(m)' = Counted(m) /\ Owners(m)' = Owners(m)
    BY <1>11 DEF vars, Counted, Owners
  <2> QED
    BY <1>11, <1>t, <2>1
    DEF vars, Inv, NothingExpires, WaitersCount, LockedIffOwned, EntryIffUsed,
        MutualExclusion, Users, registry
<1> QED
  BY <1>1, <1>2, <1>3, <1>4, <1>5, <1>6, <1>7, <1>8, <1>9, <1>10, <1>11 DEF Next, Step

LEMMA InvAlways ==
  ASSUME Durations = {0} PROVE Spec => []Inv
  BY InvInit, InvNext, PTL DEF Spec

(* A registry whose locks never expire is mutually exclusive, whatever the  *)
(* callers and names: LockWithTTL returns to one caller of a name at a time.*)
THEOREM MutualExclusionHolds ==
  ASSUME Durations = {0} PROVE Spec => []MutualExclusion
<1>1. Inv => MutualExclusion
  BY DEF Inv
<1> QED
  BY <1>1, InvAlways, PTL

(* Such a registry never unlocks a mutex that is not locked, so the Go      *)
(* runtime never stops the process.                                         *)
THEOREM NoFatalUnlockHolds ==
  ASSUME Durations = {0} PROVE Spec => []NoFatalUnlock
<1>1. Inv => NoFatalUnlock
  BY DEF Inv, NothingExpires, NoFatalUnlock
<1> QED
  BY <1>1, InvAlways, PTL

(* Such a registry has an entry for exactly the names in use: no waiter is  *)
(* left on an entry that was deleted, and no entry is leaked.               *)
THEOREM EntryIffUsedHolds ==
  ASSUME Durations = {0} PROVE Spec => []EntryIffUsed
<1>1. Inv => EntryIffUsed
  BY DEF Inv
<1> QED
  BY <1>1, InvAlways, PTL

-----------------------------------------------------------------------------
(* The refinement of the abstract named locks. *)

LEMMA OwnerOfOwned ==
  /\ TheOwner({}) = "free"
  /\ \A t : TheOwner({t}) = t
<1>1. ASSUME NEW t PROVE TheOwner({t}) = t
  <2>1. (CHOOSE u \in {t} : TRUE) \in {t}
    OBVIOUS
  <2> QED
    BY <2>1 DEF TheOwner
<1> QED
  BY <1>1 DEF TheOwner

(* A step that keeps the owners of every name is a stutter of the abstract  *)
(* locks.                                                                   *)
LEMMA SameOwnersStutter ==
  ASSUME \A n \in Names : Owners(n)' = Owners(n)
  PROVE  UNCHANGED [n \in Names |-> OwnerOf(n)]
<1>1. ASSUME NEW n \in Names PROVE OwnerOf(n)' = OwnerOf(n)
  BY DEF OwnerOf
<1> QED
  BY <1>1

LEMMA RefinesInit ==
  ASSUME Init PROVE Abstract!Init
<1>1. \A n \in Names : Owners(n) = {}
  BY DEF Init, Owners
<1> QED
  BY <1>1, OwnerOfOwned DEF Abstract!Init, OwnerOf

LEMMA RefinesNext ==
  ASSUME Durations = {0}, Inv, Inv', [Next]_vars
  PROVE  [Abstract!Next]_([n \in Names |-> OwnerOf(n)])
<1> DEFINE own == [n \in Names |-> OwnerOf(n)]
<1>s. ASSUME \A n \in Names : Owners(n)' = Owners(n) PROVE [Abstract!Next]_own
  BY <1>s, SameOwnersStutter
<1>1. ASSUME NEW t \in Threads, NEW n \in Names, NEW d \in Durations, LockCall(t, n, d)
      PROVE \A m \in Names : Owners(m)' = Owners(m)
  BY <1>1 DEF LockCall, Owners, Inv, LooseTypeOK
<1>2. ASSUME NEW t \in Threads, GetEntry(t)
      PROVE \A m \in Names : Owners(m)' = Owners(m)
  BY <1>2 DEF GetEntry, Owners, Inv, LooseTypeOK
<1>3. ASSUME NEW t \in Threads, Acquire(t) PROVE [Abstract!Next]_own
  <2>0. PICK n \in Names : n = name[t]
    BY DEF Inv, LooseTypeOK
  <2>1. Owners(n) = {} /\ Owners(n)' = {t}
    BY <1>3, <2>0 DEF Acquire, Owners, Inv, LooseTypeOK, LockedIffOwned
  <2>2. \A m \in Names \ {n} : Owners(m)' = Owners(m)
    BY <1>3, <2>0 DEF Acquire, Owners, Inv, LooseTypeOK
  <2>3. OwnerOf(n) = "free" /\ OwnerOf(n)' = t
    BY <2>1, OwnerOfOwned DEF OwnerOf
  <2>4. \A m \in Names \ {n} : OwnerOf(m)' = OwnerOf(m)
    BY <2>2 DEF OwnerOf
  <2>5. own' = [own EXCEPT ![n] = t]
    BY <2>3, <2>4
  <2>6. Abstract!Acquire(t, n)
    BY <2>3, <2>5 DEF Abstract!Acquire
  <2> QED
    BY <2>6 DEF Abstract!Next
<1>4. ASSUME NEW t \in Threads, Dec(t) PROVE \A m \in Names : Owners(m)' = Owners(m)
  BY <1>4 DEF Dec, Owners, Inv, LooseTypeOK
<1>5. ASSUME NEW t \in Threads, UnlockCall(t)
      PROVE \A m \in Names : Owners(m)' = Owners(m)
  BY <1>5 DEF UnlockCall, Owners, Inv, LooseTypeOK
<1>6. ASSUME NEW t \in Threads, UnlockMissing(t) PROVE FALSE
  <2>1. t \in Owners(name[t]) /\ name[t] \in Names
    BY <1>6 DEF UnlockMissing, Owners, Inv, LooseTypeOK
  <2> QED
    BY <1>6, <2>1 DEF UnlockMissing, Inv, EntryIffUsed, Users
<1>7. ASSUME NEW t \in Threads, Unlock(t) PROVE [Abstract!Next]_own
  <2>0. PICK n \in Names : n = name[t]
    BY DEF Inv, LooseTypeOK
  <2>1. Owners(n) = {t}
    BY <1>7, <2>0 DEF Unlock, Owners, Inv, MutualExclusion
  <2>2. Owners(n)' = {}
    BY <1>7, <2>0, <2>1 DEF Unlock, Owners, Inv, LooseTypeOK
  <2>3. \A m \in Names \ {n} : Owners(m)' = Owners(m)
    BY <1>7, <2>0 DEF Unlock, Owners, Inv, LooseTypeOK
  <2>4. OwnerOf(n) = t /\ OwnerOf(n)' = "free"
    BY <2>1, <2>2, OwnerOfOwned DEF OwnerOf
  <2>5. \A m \in Names \ {n} : OwnerOf(m)' = OwnerOf(m)
    BY <2>3 DEF OwnerOf
  <2>6. own' = [own EXCEPT ![n] = "free"]
    BY <2>4, <2>5
  <2>7. Abstract!Release(t, n)
    BY <2>4, <2>6 DEF Abstract!Release
  <2> QED
    BY <2>7 DEF Abstract!Next
<1>8. ASSUME NEW t \in Threads, UnlockUnlocked(t)
      PROVE \A m \in Names : Owners(m)' = Owners(m)
  BY <1>8 DEF UnlockUnlocked, Owners
<1>9. ASSUME Exists PROVE \A m \in Names : Owners(m)' = Owners(m)
  BY <1>9 DEF Exists, Owners
<1>10. ASSUME Tick PROVE \A m \in Names : Owners(m)' = Owners(m)
  BY <1>10 DEF Tick, Owners
<1>11. ASSUME UNCHANGED vars PROVE \A m \in Names : Owners(m)' = Owners(m)
  BY <1>11 DEF vars, Owners
<1> QED
  BY <1>s, <1>1, <1>2, <1>3, <1>4, <1>5, <1>6, <1>7, <1>8, <1>9, <1>10, <1>11
  DEF Next, Step

(* A registry whose locks never expire implements named locks with one      *)
(* owner each: every step of the code is an Acquire, a Release, or nothing. *)
THEOREM ImplementsNamedLockHolds ==
  ASSUME Durations = {0} PROVE Spec => ImplementsNamedLock
<1>1. Inv /\ Inv' /\ [Next]_vars => [Abstract!Next]_([n \in Names |-> OwnerOf(n)])
  BY RefinesNext
<1>2. Init => Abstract!Init
  BY RefinesInit
<1> QED
  BY <1>1, <1>2, InvAlways, PTL DEF Spec, ImplementsNamedLock, Abstract!Spec
=============================================================================
