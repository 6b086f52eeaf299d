------------------------------- MODULE Locker -------------------------------
(***************************************************************************)
(* The in-memory lock registry (internal/locker/locker_memory.go) as the   *)
(* lock service uses it (internal/server/service/lock_mem.go).             *)
(*                                                                         *)
(* A registry entry (lockCtr) is a mutex, a count of the callers between   *)
(* inc() and dec(), and the time it expires (0: never).  Entries are only  *)
(* read and written under the registry mutex r.mu, so each critical        *)
(* section of r.mu is one step; waiting for the entry's own mutex, and     *)
(* dec(), happen outside r.mu and are steps of their own.                  *)
(*                                                                         *)
(* A goroutine of the model is a caller: it asks for a name with a         *)
(* duration, holds the lock, and unlocks it once.  Time is a counter that  *)
(* Tick moves on.  An Unlock of a sync.Mutex that is not locked is a fatal *)
(* error of the Go runtime, which ends the process: crashed.               *)
(***************************************************************************)
EXTENDS Naturals, FiniteSets

CONSTANTS Threads,    \* callers of the registry
          Names,      \* lock names; the blank name is refused by the service
          Durations,  \* the durations callers ask for; 0 means no expiration
          MaxTime     \* bound: the clock stops here

ASSUME ConstantsAssumption ==
  /\ IsFiniteSet(Threads)
  /\ Durations \subseteq Nat
  /\ MaxTime \in Nat \ {0}

VARIABLES
  locks,    \* the names that have an entry in r.locks
  locked,   \* the names whose entry's mutex is locked
  waiters,  \* waiters[n]: lockCtr.waiters of n's entry
  expires,  \* expires[n]: lockCtr.expires of n's entry, 0 = never
  now,      \* the clock
  crashed,  \* the Go runtime stopped the process
  pc,       \* pc[t]: where caller t is
  name,     \* name[t]: the name t asked for last
  ttl,      \* ttl[t]: the duration t asked for last
  lease,    \* history: expires of the entry when t acquired its mutex
  staleUnlock \* history: an Unlock succeeded after its caller's lease

registry == <<locks, locked, waiters, expires>>
history  == <<lease, staleUnlock>>
vars == <<registry, now, crashed, pc, name, ttl, history>>

-----------------------------------------------------------------------------
(* Types *)

PCs == {"idle", "entry", "wait", "got", "held", "release"}

TypeOK ==
  /\ locks \subseteq Names
  /\ locked \subseteq Names
  /\ waiters \in [Names -> Nat]
  /\ expires \in [Names -> Nat]
  /\ now \in Nat
  /\ crashed \in BOOLEAN
  /\ pc \in [Threads -> PCs]
  /\ name \in [Threads -> Names]
  /\ ttl \in [Threads -> Durations]
  /\ lease \in [Threads -> Nat]
  /\ staleUnlock \in BOOLEAN

(* The callers whose inc() is not undone yet. *)
Counted(n) == {t \in Threads : pc[t] \in {"wait", "got"} /\ name[t] = n}

(* The callers that acquired n's mutex and did not finish Unlock. *)
Owners(n) == {t \in Threads : pc[t] \in {"got", "held", "release"} /\ name[t] = n}

Users(n) == Counted(n) \cup Owners(n)

LeaseOver(t) == lease[t] > 0 /\ now > lease[t]

-----------------------------------------------------------------------------
Init ==
  /\ locks = {}
  /\ locked = {}
  /\ waiters = [n \in Names |-> 0]
  /\ expires = [n \in Names |-> 0]
  /\ now = 1
  /\ crashed = FALSE
  /\ pc = [t \in Threads |-> "idle"]
  /\ name \in [Threads -> Names]
  /\ ttl \in [Threads -> Durations]
  /\ lease = [t \in Threads |-> 0]
  /\ staleUnlock = FALSE

Expired(n) == n \in locks /\ expires[n] > 0 /\ now > expires[n]

(* Faulty variant of Unused: the counter is not consulted. *)
UnusedIgnoringWaiters(n) == TRUE

(* count() == 0: nobody waits for the entry, it may leave the map. *)
Unused(n) == waiters[n] = 0

(* Faulty variant of DropEntries: the mutex of a kept entry stays locked. *)
DropEntriesKeepLocked(S, kept) ==
  /\ locks' = locks \ S
  /\ locked' = locked \ S
  /\ expires' = [n \in Names |-> IF n \in S THEN 0 ELSE expires[n]]

(* Entries S leave the map, entries kept stay, and all are unlocked.  The   *)
(* fields of a name without entry are reset, they are not read.             *)
DropEntries(S, kept) ==
  /\ locks' = locks \ S
  /\ locked' = locked \ (S \cup kept)
  /\ expires' = [n \in Names |-> IF n \in S THEN 0 ELSE expires[n]]

(* deleteExpired(): every expired entry is unlocked, and deleted when      *)
(* unused.  The code reads the clock just before it takes r.mu; a reading  *)
(* that grew stale while waiting for r.mu sweeps what an earlier sweep     *)
(* would have swept, so the two are one step here.                         *)
DeleteExpired ==
  LET gone == {n \in Names : Expired(n)} IN
  IF ~(gone \subseteq locked)
    THEN crashed' = TRUE /\ UNCHANGED registry
    ELSE /\ DropEntries({n \in gone : Unused(n)}, {n \in gone : ~Unused(n)})
         /\ UNCHANGED <<waiters, crashed>>

-----------------------------------------------------------------------------
(* Lock and LockWithTTL *)

(* The call starts and sweeps expired entries. *)
LockCall(t, n, d) ==
  /\ pc[t] = "idle"
  /\ DeleteExpired
  /\ pc' = [pc EXCEPT ![t] = "entry"]
  /\ name' = [name EXCEPT ![t] = n]
  /\ ttl' = [ttl EXCEPT ![t] = d]
  /\ UNCHANGED <<now, history>>

(* Faulty variant of GetEntry: inc() is missing. *)
GetEntryNoInc(t) ==
  LET n == name[t] IN
  /\ pc[t] = "entry"
  /\ locks' = locks \cup {n}
  /\ expires' = [expires EXCEPT ![n] =
                   IF n \notin locks /\ ttl[t] > 0 THEN now + ttl[t] ELSE @]
  /\ pc' = [pc EXCEPT ![t] = "wait"]
  /\ UNCHANGED <<locked, waiters, now, crashed, name, ttl, history>>

(* Under r.mu: get or create the entry, then inc(). *)
GetEntry(t) ==
  LET n == name[t] IN
  /\ pc[t] = "entry"
  /\ locks' = locks \cup {n}
  /\ expires' = [expires EXCEPT ![n] =
                   IF n \notin locks /\ ttl[t] > 0 THEN now + ttl[t] ELSE @]
  /\ waiters' = [waiters EXCEPT ![n] = @ + 1]
  /\ pc' = [pc EXCEPT ![t] = "wait"]
  /\ UNCHANGED <<locked, now, crashed, name, ttl, history>>

(* Faulty variant of Acquire: it does not wait for the mutex. *)
AcquireBusy(t) ==
  /\ pc[t] = "wait"
  /\ locked' = locked \cup {name[t]}
  /\ lease' = [lease EXCEPT ![t] = expires[name[t]]]
  /\ pc' = [pc EXCEPT ![t] = "got"]
  /\ UNCHANGED <<locks, waiters, expires, now, crashed, name, ttl, staleUnlock>>

(* nameLock.Lock(), outside r.mu. *)
Acquire(t) ==
  /\ pc[t] = "wait"
  /\ name[t] \notin locked
  /\ locked' = locked \cup {name[t]}
  /\ lease' = [lease EXCEPT ![t] = expires[name[t]]]
  /\ pc' = [pc EXCEPT ![t] = "got"]
  /\ UNCHANGED <<locks, waiters, expires, now, crashed, name, ttl, staleUnlock>>

(* nameLock.dec(), outside r.mu; the call returns. *)
Dec(t) ==
  /\ pc[t] = "got"
  /\ waiters' = [waiters EXCEPT ![name[t]] = @ - 1]
  /\ pc' = [pc EXCEPT ![t] = "held"]
  /\ UNCHANGED <<locks, locked, expires, now, crashed, name, ttl, history>>

-----------------------------------------------------------------------------
(* Unlock *)

(* The call starts and sweeps expired entries. *)
UnlockCall(t) ==
  /\ pc[t] = "held"
  /\ DeleteExpired
  /\ pc' = [pc EXCEPT ![t] = "release"]
  /\ UNCHANGED <<now, name, ttl, history>>

(* ErrNoSuchLock, which the lock service maps to ErrLockMemNotReleased. *)
UnlockMissing(t) ==
  /\ pc[t] = "release"
  /\ name[t] \notin locks
  /\ pc' = [pc EXCEPT ![t] = "idle"]
  /\ UNCHANGED <<registry, now, crashed, name, ttl, history>>

(* Under r.mu: drop the entry if nobody waits, and unlock its mutex. *)
Unlock(t) ==
  LET n == name[t] IN
  /\ pc[t] = "release"
  /\ n \in locks
  /\ n \in locked
  /\ IF Unused(n) THEN DropEntries({n}, {}) ELSE DropEntries({}, {n})
  /\ staleUnlock' = (staleUnlock \/ LeaseOver(t))
  /\ pc' = [pc EXCEPT ![t] = "idle"]
  /\ UNCHANGED <<waiters, now, crashed, name, ttl, lease>>

(* The entry's mutex is not locked: the Go runtime stops the process. *)
UnlockUnlocked(t) ==
  /\ pc[t] = "release"
  /\ name[t] \in locks
  /\ name[t] \notin locked
  /\ crashed' = TRUE
  /\ UNCHANGED <<registry, now, pc, name, ttl, history>>

-----------------------------------------------------------------------------
(* Exists(name) is a sweep and a read; the read changes nothing. *)
Exists ==
  /\ \E n \in Names : Expired(n)
  /\ DeleteExpired
  /\ UNCHANGED <<now, pc, name, ttl, history>>

Tick ==
  /\ now < MaxTime
  /\ now' = now + 1
  /\ UNCHANGED <<registry, crashed, pc, name, ttl, history>>

Step(t) ==
  \/ GetEntry(t) \/ Acquire(t) \/ Dec(t)
  \/ UnlockCall(t) \/ UnlockMissing(t) \/ Unlock(t) \/ UnlockUnlocked(t)

Next ==
  /\ ~crashed
  /\ \/ \E t \in Threads, n \in Names, d \in Durations : LockCall(t, n, d)
     \/ \E t \in Threads : Step(t)
     \/ Exists
     \/ Tick

Spec == Init /\ [][Next]_vars

(* A goroutine that can move does; an owner unlocks in the end; and a      *)
(* sync.Mutex does not starve a waiter (its starvation mode hands the      *)
(* mutex to the longest waiter), hence strong fairness of Acquire.         *)
Fairness ==
  \A t \in Threads :
    /\ WF_vars(~crashed /\ (GetEntry(t) \/ Dec(t) \/ UnlockCall(t)
                            \/ UnlockMissing(t) \/ Unlock(t)))
    /\ SF_vars(~crashed /\ Acquire(t))

FairSpec == Spec /\ Fairness

-----------------------------------------------------------------------------
(* Properties of locks without expiration (Durations = {0}) *)

(* Two callers never hold the same name: the second LockWithTTL returns     *)
(* only after the first caller's Unlock (locker_memory.go:110-137).         *)
MutualExclusion ==
  \A n \in Names : \A t1, t2 \in Owners(n) : t1 = t2

(* No call ever unlocks a mutex that is not locked, which would stop the    *)
(* process (nameLock.Unlock() at locker_memory.go:134 and 155).             *)
NoFatalUnlock == ~crashed

(* The map has an entry exactly for the names somebody waits for or holds:  *)
(* no caller waits on an entry that left the map, and no entry is leaked    *)
(* (the count() == 0 test at locker_memory.go:131 against inc() at 110).    *)
EntryIffUsed == \A n \in Names : n \in locks <=> Users(n) # {}

(* Every caller that waits gets the lock, whatever the others do, as long   *)
(* as owners unlock.                                                        *)
LockGranted == \A t \in Threads : pc[t] = "wait" ~> pc[t] = "held"

(* The registry implements the abstract named locks: the owner of a name is *)
(* the caller that acquired its mutex last and has not unlocked it.         *)
TheOwner(S) == IF S = {} THEN "free" ELSE CHOOSE t \in S : TRUE

OwnerOf(n) == TheOwner(Owners(n))

Abstract == INSTANCE NamedLock WITH
  Free <- "free",
  owner <- [n \in Names |-> OwnerOf(n)]

ImplementsNamedLock == Abstract!Spec

-----------------------------------------------------------------------------
(* Properties of locks with expiration *)

(* As long as no caller unlocks after its lease (the expiry its entry had   *)
(* when it acquired the mutex), two callers hold the same name only when    *)
(* the lease of one of them is over: expiry hands a lock on, never early.   *)
LeaseExclusion ==
  ~staleUnlock =>
    \A n \in Names : \A t1, t2 \in Owners(n) :
      t1 # t2 => LeaseOver(t1) \/ LeaseOver(t2)

(* A fatal unlock needs an expiry: an expired entry that a sweep finds      *)
(* unlocked (because an earlier sweep unlocked it and kept it for a waiter, *)
(* or for an owner between Lock() and dec()), or a caller that unlocks      *)
(* after its lease.                                                         *)
FatalNeedsExpiry ==
  crashed =>
    \/ staleUnlock
    \/ \E n \in Names : Expired(n)
    \/ \E t \in Threads : pc[t] = "release" /\ LeaseOver(t)
=============================================================================
