---------------------------- MODULE CredsProofs ----------------------------
(***************************************************************************)
(* Proofs about the requests to VK and the refresh of credentials, for any  *)
(* number of groups and workers and any number of credentials issued.       *)
(***************************************************************************)
EXTENDS Creds, FiniteSetTheorems, TLAPS

Place == Fetching \cup {"waiting", "retry", "running", "done", "unborn", "idle",
                        "allocate", "session", "count", "add", "invalidate",
                        "forget", "wantRefresh"}

Shape ==
  /\ pc \in [Caller -> Place]
  /\ refreshMu \in [Group -> Worker \cup {Nobody}]
  /\ refreshedRecently \in [Group -> BOOLEAN]

\* Whoever is past vkRequestMu.Lock owns it; the interval and the lockout were
\* looked at after that, and only an owner changes them for the worse.
RequestInv ==
  \A c \in Caller :
    /\ pc[c] \in {"throttle", "request"} => vkRequestMu = c
    /\ pc[c] = "request" => spaced /\ ~lockout

\* A worker fetches under refreshMu, which its group's first fetch has preceded,
\* with an empty cache from its invalidation on.
RefreshInv ==
  \A w \in Worker :
    /\ pc[w] \in Fetching => refreshMu[GroupOf[w]] = w
    /\ refreshMu[GroupOf[w]] = w =>
         /\ pc[w] \in Fetching \cup {"invalidate", "forget"}
         /\ pc[w] # "invalidate" => cache[GroupOf[w]] = 0
    /\ pc[GroupOf[w]] \in Fetching \cup {"waiting", "retry"} => pc[w] = "unborn"

\* Nobody has credentials that VK has not issued.
IssuedInv ==
  /\ issued \in Nat
  /\ cache \in [Group -> 0 .. issued]
  /\ creds \in [Group -> 0 .. issued]
  /\ using \in [Worker -> 0 .. issued]

FetchInv == Shape /\ RequestInv /\ RefreshInv

\* A worker is no group, a group's number no worker, and Nobody neither.
LEMMA Kinds ==
  /\ \A w \in Worker : w \in Caller /\ w \notin Group /\ w # Nobody /\ GroupOf[w] \in Group
  /\ \A g \in Group : g \in Caller /\ g \notin Worker /\ g # Nobody
  /\ \A c \in Caller : c \in Group \/ c \in Worker
  /\ \A c \in Caller : CacheOf(c) \in Group
  BY WorkerAssumption, NobodyAssumption DEF Caller, CacheOf

\* Nobody fetches in the beginning.
LEMMA FetchInit == Init => FetchInv
<1> SUFFICES ASSUME Init PROVE FetchInv
  OBVIOUS
<1>1. Shape
  BY DEF Init, Shape, Place
<1>2. RequestInv
  BY Kinds DEF Init, RequestInv
<1>3. RefreshInv
  BY Kinds DEF Init, RefreshInv, Fetching
<1>4. QED
  BY <1>1, <1>2, <1>3 DEF FetchInv

-----------------------------------------------------------------------------
(* One step of a caller.  What becomes of a call is the same for all the    *)
(* steps that end it: it leaves the fetching places and gives its refreshMu *)
(* back; nobody else moves, but for workers that are born.                  *)

Ended(c) ==
  /\ Shape'
  /\ pc'[c] \in Place \ (Fetching \cup {"waiting"})
  /\ \A d \in Caller \ {c} : pc'[d] \in Fetching => pc'[d] = pc[d]
  /\ \A w \in Worker :
       /\ pc'[w] \in Fetching => refreshMu'[GroupOf[w]] = w
       /\ refreshMu'[GroupOf[w]] = w =>
            w # c /\ pc'[w] = pc[w] /\ refreshMu[GroupOf[w]] = w
       /\ pc'[GroupOf[w]] \in Fetching \cup {"waiting", "retry"} => pc'[w] = "unborn"

\* Both ways a call can end do that.
LEMMA CallEnds ==
  ASSUME Shape, RefreshInv, NEW c \in Caller, pc[c] \in Fetching,
         \/ \E serial \in Nat : Gets(c, serial)
         \/ \E next \in SUBSET {"retry", "done"} : Fails(c, next)
  PROVE  Ended(c)
<1> USE Kinds DEF RefreshInv, Shape, Ended
<1>1. ASSUME c \in Group, NEW serial \in Nat, GroupGets(c, serial)
      PROVE  Ended(c)
  <2>1. \A w \in Worker : GroupOf[w] = c => pc[w] = "unborn" /\ refreshMu[c] # w
    BY <1>1 DEF Fetching
  <2>2. Shape'
    BY <1>1 DEF GroupGets, Place
  <2>3. pc'[c] = "running" /\ refreshMu' = refreshMu
    BY <1>1 DEF GroupGets
  <2>4. \A d \in Caller \ {c} :
          pc'[d] = IF d \in Worker /\ GroupOf[d] = c THEN "idle" ELSE pc[d]
    BY <1>1 DEF GroupGets
  <2>5. QED
    BY <1>1, <2>1, <2>2, <2>3, <2>4 DEF Fetching, Place
<1>2. ASSUME c \in Worker, NEW serial \in Nat, WorkerGets(c, serial)
      PROVE  Ended(c)
  BY <1>2 DEF WorkerGets, Fetching, Place
<1>3. ASSUME NEW next \in SUBSET {"retry", "done"}, Fails(c, next)
      PROVE  Ended(c)
  BY <1>3 DEF Fails, Fetching, Place
<1>4. QED
  BY <1>1, <1>2, <1>3 DEF Gets

\* An end from the cache.
LEMMA FoundInCache ==
  ASSUME FetchInv, IssuedInv, NEW c \in Caller, pc[c] \in {"lookup", "recheck"},
         Gets(c, cache[CacheOf(c)]), UNCHANGED <<cache, vkRequestMu, pacingVars>>
  PROVE  FetchInv'
<1>1. cache[CacheOf(c)] \in Nat
  BY Kinds DEF IssuedInv
<1>2. Ended(c)
  BY <1>1, CallEnds DEF FetchInv, Fetching
<1>3. RequestInv'
  BY <1>2 DEF FetchInv, RequestInv, Fetching, pacingVars, Ended
<1>4. RefreshInv'
  BY <1>2 DEF FetchInv, RefreshInv, Ended
<1>5. QED
  BY <1>2, <1>3, <1>4 DEF FetchInv, Ended

\* The steps of a call up to the request.
LEMMA WayToVK ==
  ASSUME FetchInv, IssuedInv, NEW c \in Caller,
         Lookup(c) \/ Recheck(c) \/ Serialize(c) \/ Request(c)
  PROVE  FetchInv'
<1> USE Kinds
<1>1. CASE /\ At(c, "lookup", "recheck") \/ At(c, "recheck", "serialize")
           /\ UNCHANGED <<cache, vkRequestMu, refreshMu, refreshedRecently, pacingVars>>
  BY <1>1 DEF At, FetchInv, Shape, RequestInv, RefreshInv, Fetching, Place, pacingVars
<1>2. CASE Lookup(c)
  BY <1>1, <1>2, FoundInCache DEF Lookup, pacingVars
<1>3. CASE Recheck(c)
  BY <1>1, <1>3, FoundInCache DEF Recheck, pacingVars
<1>4. CASE Serialize(c)
  BY <1>4 DEF Serialize, At, FetchInv, Shape, RequestInv, RefreshInv, Fetching, Place,
              pacingVars
<1>5. CASE Request(c)
  BY <1>5 DEF Request, At, FetchInv, Shape, RequestInv, RefreshInv, Fetching, Place,
              pacingVars, lockVars
<1>6. QED
  BY <1>2, <1>3, <1>4, <1>5

\* The ends behind vkRequestMu.  Only an owner writes into the cache, and of a
\* group with a refresh under way that is the refreshing worker.
LEMMA BackFromVK ==
  ASSUME FetchInv, IssuedInv, NEW c \in Caller,
         ThrottleCancelled(c) \/ LockedOut(c) \/ RequestOK(c) \/ RequestFails(c)
  PROVE  FetchInv'
<1> USE Kinds
<1>1. vkRequestMu = c /\ pc[c] \in {"throttle", "request"}
  BY DEF FetchInv, RequestInv, ThrottleCancelled, LockedOut, RequestOK, RequestFails
<1>2. \/ \E serial \in Nat : Gets(c, serial)
      \/ \E next \in SUBSET {"retry", "done"} : Fails(c, next)
  BY DEF ThrottleCancelled, LockedOut, RequestOK, RequestFails, IssuedInv
<1>3. Ended(c)
  BY <1>1, <1>2, CallEnds DEF FetchInv, Fetching
<1>4. \A d \in Caller : pc'[d] \notin {"throttle", "request"}
  BY <1>1, <1>3 DEF Ended, FetchInv, RequestInv, Fetching
<1>5. RequestInv'
  BY <1>4 DEF RequestInv
<1>6. \A w \in Worker : refreshMu'[GroupOf[w]] = w => CacheOf(c) # GroupOf[w]
  <2> SUFFICES ASSUME NEW w \in Worker, refreshMu'[GroupOf[w]] = w, CacheOf(c) = GroupOf[w]
               PROVE  FALSE
    OBVIOUS
  <2>1. w # c /\ refreshMu[GroupOf[w]] = w
    BY <1>3 DEF Ended
  <2>2. c \notin Worker
    BY <1>1, <2>1 DEF CacheOf, FetchInv, RefreshInv, Fetching
  <2>3. pc[w] = "unborn"
    BY <1>1, <2>2 DEF CacheOf, FetchInv, RefreshInv, Fetching
  <2>4. QED
    BY <2>1, <2>3 DEF FetchInv, RefreshInv, Fetching
<1>7. \A g \in Group : cache'[g] = cache[g] \/ g = CacheOf(c)
  BY DEF ThrottleCancelled, LockedOut, RequestOK, RequestFails, IssuedInv
<1>8. RefreshInv'
  BY <1>3, <1>6, <1>7 DEF Ended, FetchInv, RefreshInv
<1>9. QED
  BY <1>3, <1>5, <1>8 DEF FetchInv, Ended

\* A group outside of a fetch.
LEMMA GroupKeeps ==
  ASSUME FetchInv, NEW g \in Group, GroupStep(g)
  PROVE  FetchInv'
BY Kinds DEF GroupStep, Begin, Retry, Leave, At, FetchInv, Shape, RequestInv, RefreshInv,
             Fetching, Place, lockVars, pacingVars

\* A worker outside of a fetch.
LEMMA WorkerKeeps ==
  ASSUME FetchInv, IssuedInv, NEW w \in Worker,
         WorkerStep(w) \/ AllocateEnds(w) \/ SessionEnds(w)
  PROVE  FetchInv'
<1> USE Kinds DEF At, FetchInv, Shape, RequestInv, RefreshInv, Fetching, Place, lockVars,
                  pacingVars
<1>1. CASE StartSession(w) \/ WorkerLeaves(w) \/ ResetCount(w) \/ SessionEnds(w)
  BY <1>1 DEF StartSession, WorkerLeaves, ResetCount, SessionEnds
<1>2. CASE AllocateEnds(w)
  BY <1>2 DEF AllocateEnds, AllocateOK, Refused, AllocateFails, DialFails
<1>3. CASE AddError(w)
  BY <1>3 DEF AddError, Counted
<1>4. CASE Invalidate(w)
  BY <1>4 DEF Invalidate, IssuedInv
<1>5. CASE Forget(w)
  BY <1>5 DEF Forget, Counted
<1>6. CASE Refresh(w)
  BY <1>6 DEF Refresh
<1>7. QED
  BY <1>1, <1>2, <1>3, <1>4, <1>5, <1>6 DEF WorkerStep

\* Time, the TURN server and Core.Stop move nobody.
LEMMA WorldKeeps ==
  ASSUME FetchInv, IssuedInv,
         \/ \E g \in Group : Expire(g) \/ RefreshWindowPasses(g)
         \/ TurnRefuses \/ IntervalPasses \/ LockoutEnds \/ Stop \/ UNCHANGED vars
  PROVE  FetchInv'
<1> USE Kinds DEF FetchInv, Shape, RequestInv, RefreshInv, lockVars, pacingVars
<1>1. CASE \E g \in Group : Expire(g)
  BY <1>1 DEF Expire, IssuedInv
<1>2. CASE \E g \in Group : RefreshWindowPasses(g)
  BY <1>2 DEF RefreshWindowPasses
<1>3. CASE TurnRefuses \/ IntervalPasses \/ LockoutEnds \/ Stop \/ UNCHANGED vars
  BY <1>3 DEF TurnRefuses, IntervalPasses, LockoutEnds, Stop, vars
<1>4. QED
  BY <1>1, <1>2, <1>3

\* Serials are copied from the cache, which has them from VK.
LEMMA IssuedKeeps ==
  ASSUME IssuedInv, [Next]_vars
  PROVE  IssuedInv'
<1> USE Kinds DEF IssuedInv, vkVars, workerVars
<1>1. ASSUME NEW c \in Caller, NEW serial \in 0 .. issued', Gets(c, serial),
             issued' \in Nat, issued' >= issued
      PROVE  creds' \in [Group -> 0 .. issued']
  BY <1>1 DEF Gets, GroupGets, WorkerGets
<1>2. ASSUME NEW c \in Caller, FetchStep(c) \/ ThrottleCancelled(c)
      PROVE  IssuedInv'
  <2>1. CASE Lookup(c) \/ Recheck(c)
    BY <1>1, <2>1 DEF Lookup, Recheck
  <2>2. CASE RequestOK(c)
    BY <1>1, <2>2 DEF RequestOK
  <2>3. CASE Serialize(c) \/ Request(c)
    BY <2>3 DEF Serialize, Request
  <2>4. CASE ThrottleCancelled(c) \/ LockedOut(c) \/ RequestFails(c)
    BY <2>4 DEF ThrottleCancelled, LockedOut, RequestFails, Fails
  <2>5. QED
    BY <1>2, <2>1, <2>2, <2>3, <2>4 DEF FetchStep
<1>3. ASSUME NEW g \in Group, GroupStep(g) \/ Expire(g) \/ RefreshWindowPasses(g)
      PROVE  IssuedInv'
  BY <1>3 DEF GroupStep, Begin, Retry, Leave, Expire, RefreshWindowPasses
<1>4. ASSUME NEW w \in Worker, WorkerStep(w) \/ AllocateEnds(w) \/ SessionEnds(w)
      PROVE  IssuedInv'
  <2>1. CASE StartSession(w) \/ Invalidate(w)
    BY <2>1 DEF StartSession, Invalidate
  <2>2. CASE WorkerLeaves(w) \/ ResetCount(w) \/ AddError(w) \/ Forget(w) \/ Refresh(w)
    BY <2>2 DEF WorkerLeaves, ResetCount, AddError, Forget, Refresh
  <2>3. CASE AllocateEnds(w) \/ SessionEnds(w)
    BY <2>3 DEF AllocateEnds, AllocateOK, Refused, AllocateFails, DialFails, SessionEnds
  <2>4. QED
    BY <1>4, <2>1, <2>2, <2>3 DEF WorkerStep
<1>5. CASE TurnRefuses \/ IntervalPasses \/ LockoutEnds \/ Stop \/ UNCHANGED vars
  BY <1>5 DEF TurnRefuses, IntervalPasses, LockoutEnds, Stop, vars
<1>6. QED
  BY <1>2, <1>3, <1>4, <1>5 DEF Next

LEMMA FetchKeeps ==
  ASSUME FetchInv, IssuedInv, [Next]_vars
  PROVE  FetchInv'
BY WayToVK, BackFromVK, GroupKeeps, WorkerKeeps, WorldKeeps DEF Next, FetchStep

\* Who is where, who owns what, and which credentials exist: the inductive
\* invariant behind the theorems below.
THEOREM FetchInvariant == Spec => [](FetchInv /\ IssuedInv)
<1>1. Init => FetchInv /\ IssuedInv
  BY FetchInit DEF Init, IssuedInv
<1>2. FetchInv /\ IssuedInv /\ [Next]_vars => (FetchInv /\ IssuedInv)'
  BY FetchKeeps, IssuedKeeps
<1>3. QED
  BY <1>1, <1>2, PTL DEF Spec

-----------------------------------------------------------------------------
\* One conversation with VK at a time, and only after the interval
\* (vkRequestMu and the throttle of fetchVkCredsSerialized).
THEOREM OneRequest == Spec => []RequestsApart
<1>1. FetchInv => RequestsApart
  BY DEF FetchInv, RequestInv, RequestsApart
<1>2. QED
  BY <1>1, FetchInvariant, PTL

\* No conversation with VK while a lockout lasts, whoever began it.
THEOREM LockoutRespected == Spec => []NoRequestInLockout
<1>1. FetchInv => NoRequestInLockout
  BY DEF FetchInv, RequestInv, NoRequestInLockout
<1>2. QED
  BY <1>1, FetchInvariant, PTL

\* A refresh that succeeds brings later credentials than those its caller was
\* refused, as nobody fills the cache between its invalidation and its request.
THEOREM RefreshIsNew == Spec => RefreshBringsNew
<1> DEFINE Renewed ==
      \A w \in Worker :
        LET g == GroupOf[w] IN
        refreshMu[g] = w /\ ~refreshedRecently[g] /\ refreshedRecently'[g]
          => creds'[g] > using[w]
<1>1. ASSUME FetchInv, IssuedInv, [Next]_vars,
             NEW w \in Worker, refreshMu[GroupOf[w]] = w,
             ~refreshedRecently[GroupOf[w]], refreshedRecently'[GroupOf[w]]
      PROVE  creds'[GroupOf[w]] > using[w]
  <2>1. PICK c \in Caller, serial \in Nat :
          /\ Gets(c, serial) /\ pc[c] \in Fetching
          /\ \/ serial = issued + 1
             \/ serial = cache[CacheOf(c)] /\ serial # 0
    <3>1. PICK c \in Caller : FetchStep(c) \/ ThrottleCancelled(c)
      <4>1. \A g \in Group : GroupStep(g) \/ Expire(g) => UNCHANGED refreshedRecently
        BY DEF GroupStep, Begin, Retry, Leave, Expire
      <4>2. \A v \in Worker : WorkerStep(v) => UNCHANGED refreshedRecently
        BY DEF WorkerStep, StartSession, WorkerLeaves, ResetCount, AddError, Invalidate,
               Forget, Refresh
      <4>3. \A v \in Worker : AllocateEnds(v) \/ SessionEnds(v) => UNCHANGED refreshedRecently
        BY DEF AllocateEnds, AllocateOK, Refused, AllocateFails, DialFails, SessionEnds
      <4>4. \A g \in Group : ~RefreshWindowPasses(g)
        BY <1>1, Kinds DEF RefreshWindowPasses, FetchInv, Shape
      <4>5. TurnRefuses \/ IntervalPasses \/ LockoutEnds \/ Stop \/ UNCHANGED vars
              => UNCHANGED refreshedRecently
        BY DEF TurnRefuses, IntervalPasses, LockoutEnds, Stop, vars
      <4>6. refreshedRecently' # refreshedRecently
        BY <1>1
      <4>7. QED
        BY <1>1, <4>1, <4>2, <4>3, <4>4, <4>5, <4>6 DEF Next
    <3>2. refreshedRecently' # refreshedRecently
      BY <1>1
    <3>3. Lookup(c) \/ Recheck(c) \/ RequestOK(c)
      BY <3>1, <3>2 DEF FetchStep, ThrottleCancelled, LockedOut, RequestFails, Fails,
                        Serialize, Request
    <3>4. CASE Lookup(c) \/ Recheck(c)
      <4>1. cache[CacheOf(c)] \in Nat
        BY <1>1, Kinds DEF IssuedInv
      <4>2. Gets(c, cache[CacheOf(c)]) /\ cache[CacheOf(c)] # 0 /\ pc[c] \in Fetching
        BY <3>2, <3>4 DEF Lookup, Recheck, Fetching
      <4>3. QED
        BY <4>1, <4>2
    <3>5. CASE RequestOK(c)
      BY <1>1, <3>5 DEF RequestOK, Fetching, IssuedInv
    <3>6. QED
      BY <3>3, <3>4, <3>5
  <2>2. c \in Worker /\ GroupOf[c] = GroupOf[w]
    BY <1>1, <2>1, Kinds DEF Gets, GroupGets, WorkerGets, FetchInv, Shape
  <2>3. c = w
    BY <1>1, <2>1, <2>2 DEF FetchInv, RefreshInv
  <2>4. serial = issued + 1
    BY <1>1, <2>1, <2>3, Kinds DEF CacheOf, FetchInv, RefreshInv, Fetching
  <2>5. creds'[GroupOf[w]] = serial
    BY <1>1, <2>1, <2>2, <2>3, Kinds DEF Gets, WorkerGets, IssuedInv
  <2>6. using[w] \in 0 .. issued /\ issued \in Nat
    BY <1>1 DEF IssuedInv
  <2>7. QED
    BY <2>4, <2>5, <2>6
<1>2. FetchInv /\ IssuedInv /\ [Next]_vars => [Renewed]_vars
  BY <1>1
<1>3. QED
  BY <1>2, FetchInvariant, PTL DEF Spec, RefreshBringsNew

-----------------------------------------------------------------------------
(* The types of the other variables.                                        *)

Flags == stopped \in BOOLEAN /\ spaced \in BOOLEAN /\ lockout \in BOOLEAN

Plain ==
  /\ cacheLock \in [Group -> Caller \cup {Nobody}]
  /\ vkRequestMu \in Caller \cup {Nobody}
  /\ err \in [Worker -> Error]
  /\ issued \in 0 .. MaxIssued
  /\ refused \subseteq 1 .. issued

\* The flags are only set and cleared.
LEMMA FlagsKeep ==
  ASSUME Flags, [Next]_vars
  PROVE  Flags'
<1> USE DEF Flags, pacingVars
<1>1. ASSUME NEW c \in Caller, FetchStep(c) \/ ThrottleCancelled(c)
      PROVE  Flags'
  <2>1. CASE Lookup(c) \/ Recheck(c) \/ Serialize(c) \/ Request(c) \/ ThrottleCancelled(c)
    BY <2>1, Zenon DEF Lookup, Recheck, Serialize, Request, ThrottleCancelled
  <2>2. CASE LockedOut(c) \/ RequestOK(c) \/ RequestFails(c)
    BY <2>2, Zenon DEF LockedOut, RequestOK, RequestFails
  <2>3. QED
    BY <1>1, <2>1, <2>2 DEF FetchStep
<1>2. ASSUME NEW g \in Group, GroupStep(g) \/ Expire(g) \/ RefreshWindowPasses(g)
      PROVE  Flags'
  BY <1>2, Zenon DEF GroupStep, Begin, Retry, Leave, Expire, RefreshWindowPasses
<1>3. ASSUME NEW w \in Worker, WorkerStep(w) \/ AllocateEnds(w) \/ SessionEnds(w)
      PROVE  Flags'
  BY <1>3, Zenon
  DEF WorkerStep, StartSession, WorkerLeaves, ResetCount, AddError, Invalidate, Forget,
      Refresh, AllocateEnds, AllocateOK, Refused, AllocateFails, DialFails, SessionEnds
<1>4. CASE TurnRefuses \/ IntervalPasses \/ LockoutEnds \/ Stop \/ UNCHANGED vars
  BY <1>4, Zenon DEF TurnRefuses, IntervalPasses, LockoutEnds, Stop, vars
<1>5. QED
  BY <1>1, <1>2, <1>3, <1>4 DEF Next

\* A mutex is only taken by a caller, a serial only refused once it is issued.
LEMMA PlainKeeps ==
  ASSUME Plain, [Next]_vars
  PROVE  Plain'
<1> USE Kinds, MaxIssuedAssumption DEF Plain, vkVars, workerVars, lockVars
<1>1. ASSUME NEW c \in Caller, FetchStep(c) \/ ThrottleCancelled(c)
      PROVE  Plain'
  <2>1. CASE Lookup(c) \/ Recheck(c)
    BY <2>1 DEF Lookup, Recheck
  <2>2. CASE Serialize(c) \/ Request(c)
    BY <2>2 DEF Serialize, Request
  <2>3. CASE RequestOK(c)
    BY <2>3 DEF RequestOK, Unlock
  <2>4. CASE ThrottleCancelled(c) \/ LockedOut(c) \/ RequestFails(c)
    BY <2>4 DEF ThrottleCancelled, LockedOut, RequestFails, Unlock
  <2>5. QED
    BY <1>1, <2>1, <2>2, <2>3, <2>4 DEF FetchStep
<1>2. ASSUME NEW g \in Group, GroupStep(g) \/ Expire(g) \/ RefreshWindowPasses(g)
      PROVE  Plain'
  BY <1>2 DEF GroupStep, Begin, Retry, Leave, Expire, RefreshWindowPasses
<1>3. ASSUME NEW w \in Worker, WorkerStep(w) \/ AllocateEnds(w) \/ SessionEnds(w)
      PROVE  Plain'
  <2>1. CASE WorkerStep(w)
    BY <2>1 DEF WorkerStep, StartSession, WorkerLeaves, ResetCount, AddError, Invalidate,
                Forget, Refresh
  <2>2. CASE AllocateEnds(w) \/ SessionEnds(w)
    BY <2>2 DEF AllocateEnds, AllocateOK, Refused, AllocateFails, DialFails, SessionEnds, Error
  <2>3. QED
    BY <1>3, <2>1, <2>2
<1>4. CASE TurnRefuses \/ IntervalPasses \/ LockoutEnds \/ Stop \/ UNCHANGED vars
  BY <1>4 DEF TurnRefuses, IntervalPasses, LockoutEnds, Stop, vars
<1>5. QED
  BY <1>1, <1>2, <1>3, <1>4 DEF Next

-----------------------------------------------------------------------------
(* The error counter: it is past its limit only on account of workers that  *)
(* are about to clear it.                                                   *)

Clearing(g) == {w \in Worker : GroupOf[w] = g /\ pc[w] \in {"invalidate", "forget"}}

CountInv ==
  /\ errorCount \in [Group -> Nat]
  /\ \A g \in Group : errorCount[g] <= maxCacheErrors - 1 + Cardinality(Clearing(g))

\* The workers that clear a group's counter are finitely many.
LEMMA ClearingFinite ==
  ASSUME NEW g \in Group
  PROVE  /\ IsFiniteSet(Clearing(g)) /\ Cardinality(Clearing(g)) \in Nat
         /\ Cardinality(Clearing(g)) <= Cardinality(Worker)
         /\ IsFiniteSet(Clearing(g)') /\ Cardinality(Clearing(g)') \in Nat
<1>1. Clearing(g) \subseteq Worker /\ Clearing(g)' \subseteq Worker
  BY DEF Clearing
<1>2. QED
  BY <1>1, FiniteAssumption, FS_Subset, FS_CardinalityType

\* A step after which a group's counter is zero, or as before with nobody gone
\* from those that clear it.
LEMMA CountQuiet ==
  ASSUME CountInv, errorCount' \in [Group -> Nat],
         \A g \in Group :
           \/ errorCount'[g] = 0
           \/ errorCount'[g] = errorCount[g] /\ Clearing(g) \subseteq Clearing(g)'
  PROVE  CountInv'
<1>1. ASSUME NEW g \in Group
      PROVE  errorCount'[g] <= maxCacheErrors - 1 + Cardinality(Clearing(g)')
  <2>1. Cardinality(Clearing(g)) \in Nat /\ Cardinality(Clearing(g)') \in Nat
    BY ClearingFinite
  <2>2. Clearing(g) \subseteq Clearing(g)' => Cardinality(Clearing(g)) <= Cardinality(Clearing(g)')
    BY ClearingFinite, FS_Subset
  <2>3. errorCount[g] \in Nat /\ errorCount[g] <= maxCacheErrors - 1 + Cardinality(Clearing(g))
    BY DEF CountInv
  <2>4. QED
    BY <2>1, <2>2, <2>3 DEF maxCacheErrors
<1>2. QED
  BY <1>1 DEF CountInv

\* Another error: at the limit the worker joins those that clear the counter.
LEMMA CountAdds ==
  ASSUME CountInv, Shape, NEW w \in Worker, AddError(w)
  PROVE  CountInv'
<1> USE Kinds
<1> DEFINE h == GroupOf[w]
<1>1. /\ h \in Group /\ errorCount[h] \in Nat
      /\ errorCount' = [errorCount EXCEPT ![h] = errorCount[h] + 1]
  BY DEF AddError, CountInv
<1>2. errorCount' \in [Group -> Nat]
  BY <1>1 DEF CountInv
<1>3. ASSUME NEW g \in Group
      PROVE  errorCount'[g] <= maxCacheErrors - 1 + Cardinality(Clearing(g)')
  <2>1. /\ Cardinality(Clearing(g)) \in Nat /\ IsFiniteSet(Clearing(g))
        /\ Cardinality(Clearing(g)') \in Nat /\ IsFiniteSet(Clearing(g)')
    BY ClearingFinite
  <2>2. errorCount[g] \in Nat /\ errorCount[g] <= maxCacheErrors - 1 + Cardinality(Clearing(g))
    BY DEF CountInv
  <2>3. Clearing(g) \subseteq Clearing(g)' /\ w \notin Clearing(g)
    BY DEF AddError, At, Shape, Clearing
  <2>4. CASE g # h
    <3>1. errorCount'[g] = errorCount[g]
      BY <1>1, <2>4 DEF CountInv
    <3>2. Cardinality(Clearing(g)) <= Cardinality(Clearing(g)')
      BY <2>1, <2>3, FS_Subset
    <3>3. QED
      BY <2>1, <2>2, <3>1, <3>2 DEF maxCacheErrors
  <2>5. CASE g = h
    <3>1. errorCount'[g] = errorCount[g] + 1
      BY <1>1, <2>5 DEF CountInv
    <3>2. CASE errorCount[g] + 1 >= maxCacheErrors
      <4>1. w \in Clearing(g)'
        BY <2>5, <3>2 DEF AddError, At, Shape, Clearing
      <4>2. /\ IsFiniteSet(Clearing(g) \cup {w})
            /\ Cardinality(Clearing(g) \cup {w}) = Cardinality(Clearing(g)) + 1
        BY <2>1, <2>3, FS_AddElement
      <4>3. Clearing(g) \cup {w} \subseteq Clearing(g)'
        BY <2>3, <4>1
      <4>4. Cardinality(Clearing(g)) + 1 <= Cardinality(Clearing(g)')
        BY <2>1, <4>2, <4>3, FS_Subset
      <4>5. QED
        BY <2>1, <2>2, <3>1, <4>4 DEF maxCacheErrors
    <3>3. CASE ~(errorCount[g] + 1 >= maxCacheErrors)
      BY <2>1, <2>2, <3>1, <3>3 DEF maxCacheErrors
    <3>4. QED
      BY <3>2, <3>3
  <2>6. QED
    BY <2>4, <2>5
<1>4. QED
  BY <1>2, <1>3 DEF CountInv

\* The end of a call moves its caller, and workers that are born.
LEMMA OthersStay ==
  ASSUME Shape, RefreshInv, NEW c \in Caller, pc[c] \in Fetching,
         \/ \E serial \in Nat : Gets(c, serial)
         \/ \E next \in SUBSET {"retry", "done"} : Fails(c, next),
         NEW d \in Caller, d # c
  PROVE  pc'[d] = pc[d] \/ (pc[d] = "unborn" /\ pc'[d] = "idle")
<1> USE Kinds DEF Shape
<1>1. ASSUME c \in Group, NEW serial \in Nat, GroupGets(c, serial)
      PROVE  pc'[d] = pc[d] \/ (pc[d] = "unborn" /\ pc'[d] = "idle")
  <2>1. pc'[d] = IF d \in Worker /\ GroupOf[d] = c THEN "idle" ELSE pc[d]
    BY <1>1 DEF GroupGets
  <2>2. d \in Worker /\ GroupOf[d] = c => pc[d] = "unborn"
    BY <1>1 DEF RefreshInv
  <2>3. QED
    BY <2>1, <2>2
<1>2. ASSUME c \in Worker, NEW serial \in Nat, WorkerGets(c, serial)
      PROVE  pc'[d] = pc[d]
  BY <1>2 DEF WorkerGets
<1>3. ASSUME NEW next \in SUBSET {"retry", "done"}, Fails(c, next)
      PROVE  pc'[d] = pc[d]
  BY <1>3 DEF Fails
<1>4. QED
  BY <1>1, <1>2, <1>3 DEF Gets

\* A call of GetCreds leaves the counter alone, and nobody who clears it moves.
LEMMA CallKeepsClearing ==
  ASSUME FetchInv, IssuedInv, NEW c \in Caller, FetchStep(c) \/ ThrottleCancelled(c),
         NEW g \in Group
  PROVE  errorCount' = errorCount /\ Clearing(g) \subseteq Clearing(g)'
<1> USE Kinds
<1>1. errorCount' = errorCount
  BY DEF FetchStep, Lookup, Recheck, Serialize, Request, RequestOK, LockedOut,
         RequestFails, ThrottleCancelled
<1>2. pc[c] \in Fetching
  BY DEF FetchStep, Lookup, Recheck, Serialize, Request, RequestOK, LockedOut,
         RequestFails, ThrottleCancelled, At, Fetching
<1>3. ASSUME NEW d \in Caller, d # c
      PROVE  pc'[d] = pc[d] \/ (pc[d] = "unborn" /\ pc'[d] = "idle")
  <2>1. cache[CacheOf(c)] \in Nat /\ issued + 1 \in Nat
    BY DEF IssuedInv
  <2>2. \/ \E serial \in Nat : Gets(c, serial)
        \/ \E next \in SUBSET {"retry", "done"} : Fails(c, next)
        \/ \E from, to \in Place : At(c, from, to)
    BY <2>1 DEF FetchStep, Lookup, Recheck, Serialize, Request, RequestOK, LockedOut,
                RequestFails, ThrottleCancelled, Place, Fetching
  <2>3. CASE \E from, to \in Place : At(c, from, to)
    BY <1>3, <2>3 DEF At, FetchInv, Shape
  <2>4. QED
    BY <1>2, <1>3, <2>2, <2>3, OthersStay DEF FetchInv
<1>4. QED
  BY <1>1, <1>2, <1>3 DEF Clearing, Fetching

\* Every step keeps the bound of the counter.
LEMMA CountKeeps ==
  ASSUME CountInv, FetchInv, IssuedInv, [Next]_vars
  PROVE  CountInv'
<1> USE Kinds
<1>1. ASSUME NEW c \in Caller, FetchStep(c) \/ ThrottleCancelled(c)
      PROVE  CountInv'
  <2>1. \A g \in Group : errorCount' = errorCount /\ Clearing(g) \subseteq Clearing(g)'
    BY <1>1, CallKeepsClearing
  <2>2. errorCount' \in [Group -> Nat]
    BY <2>1, NumGroupsAssumption DEF CountInv, Group
  <2>3. QED
    BY <2>1, <2>2, CountQuiet
<1>2. ASSUME NEW g \in Group, GroupStep(g) \/ Expire(g) \/ RefreshWindowPasses(g)
      PROVE  CountInv'
  <2>1. errorCount' = errorCount
    BY <1>2 DEF GroupStep, Begin, Retry, Leave, Expire, RefreshWindowPasses
  <2>2. \A w \in Worker : pc'[w] = pc[w]
    BY <1>2 DEF GroupStep, Begin, Retry, Leave, Expire, RefreshWindowPasses, At, FetchInv,
                Shape
  <2>3. \A h \in Group : Clearing(h) \subseteq Clearing(h)'
    BY <2>2 DEF Clearing
  <2>4. QED
    BY <2>1, <2>3, CountQuiet DEF CountInv
<1>3. ASSUME NEW w \in Worker, WorkerStep(w) \/ AllocateEnds(w) \/ SessionEnds(w)
      PROVE  CountInv'
  <2>1. \A v \in Worker : v # w => pc'[v] = pc[v]
    BY <1>3 DEF WorkerStep, StartSession, WorkerLeaves, ResetCount, AddError, Invalidate,
                Forget, Refresh, AllocateEnds, AllocateOK, Refused, AllocateFails,
                DialFails, SessionEnds, At, FetchInv, Shape
  <2>2. CASE AddError(w)
    BY <2>2, CountAdds DEF FetchInv
  <2>3. CASE Forget(w)
    <3>1. errorCount' \in [Group -> Nat] /\ errorCount'[GroupOf[w]] = 0
      BY <2>3 DEF Forget, CountInv
    <3>2. \A g \in Group : g # GroupOf[w] =>
            errorCount'[g] = errorCount[g] /\ Clearing(g) \subseteq Clearing(g)'
      BY <2>1, <2>3 DEF Forget, CountInv, Clearing
    <3>3. QED
      BY <3>1, <3>2, CountQuiet
  <2>4. CASE ~AddError(w) /\ ~Forget(w)
    <3>1. pc[w] \in {"invalidate", "forget"} => pc'[w] \in {"invalidate", "forget"}
      BY <1>3, <2>4
      DEF WorkerStep, StartSession, WorkerLeaves, ResetCount, Invalidate, Refresh,
          AllocateEnds, AllocateOK, Refused, AllocateFails, DialFails, SessionEnds, At,
          FetchInv, Shape
    <3>2. \A g \in Group : Clearing(g) \subseteq Clearing(g)'
      BY <2>1, <3>1 DEF Clearing
    <3>3. \/ errorCount' = errorCount
          \/ errorCount' = [errorCount EXCEPT ![GroupOf[w]] = 0]
      BY <1>3, <2>4
      DEF WorkerStep, StartSession, WorkerLeaves, ResetCount, Invalidate, Refresh,
          AllocateEnds, AllocateOK, Refused, AllocateFails, DialFails, SessionEnds
    <3>4. /\ errorCount' \in [Group -> Nat]
          /\ \A g \in Group : errorCount'[g] \in {0, errorCount[g]}
      BY <3>3 DEF CountInv
    <3>5. QED
      BY <3>2, <3>4, CountQuiet
  <2>5. QED
    BY <2>2, <2>3, <2>4
<1>4. CASE TurnRefuses \/ IntervalPasses \/ LockoutEnds \/ Stop \/ UNCHANGED vars
  <2>1. errorCount' = errorCount /\ pc' = pc
    BY <1>4 DEF TurnRefuses, IntervalPasses, LockoutEnds, Stop, vars
  <2>2. \A g \in Group : Clearing(g) \subseteq Clearing(g)'
    BY <2>1 DEF Clearing
  <2>3. QED
    BY <2>1, <2>2, CountQuiet DEF CountInv
<1>5. QED
  BY <1>1, <1>2, <1>3, <1>4 DEF Next

\* The types, with the bound of the error counter: however many workers of a
\* group are refused at once, it is past its limit by no more than their number.
THEOREM TypeCorrect == Spec => []TypeOK
<1>1. Init => Flags /\ Plain /\ CountInv
  <2> SUFFICES ASSUME Init PROVE Flags /\ Plain /\ CountInv
    OBVIOUS
  <2>1. Flags
    BY Zenon DEF Init, Flags
  <2>2. Plain
    BY MaxIssuedAssumption DEF Init, Plain, Error
  <2>3. CountInv
    BY ClearingFinite DEF Init, CountInv, maxCacheErrors
  <2>4. QED
    BY <2>1, <2>2, <2>3
<1>2. FetchInv /\ IssuedInv /\ Flags /\ Plain /\ CountInv /\ [Next]_vars
        => (Flags /\ Plain /\ CountInv)'
  BY FlagsKeep, PlainKeeps, CountKeeps
<1>3. FetchInv /\ IssuedInv /\ Flags /\ Plain /\ CountInv => TypeOK
  <2> SUFFICES ASSUME FetchInv, IssuedInv, Flags, Plain, CountInv PROVE TypeOK
    OBVIOUS
  <2>1. errorCount \in [Group -> 0 .. maxCacheErrors - 1 + Cardinality(Worker)]
    <3>1. ASSUME NEW g \in Group
          PROVE  errorCount[g] \in 0 .. maxCacheErrors - 1 + Cardinality(Worker)
      <4>1. /\ Cardinality(Clearing(g)) \in Nat /\ Cardinality(Worker) \in Nat
            /\ Cardinality(Clearing(g)) <= Cardinality(Worker)
        BY ClearingFinite, FiniteAssumption, FS_CardinalityType
      <4>2. QED
        BY <4>1 DEF CountInv, maxCacheErrors
    <3>2. QED
      BY <3>1 DEF CountInv
  <2>2. stopped \in BOOLEAN /\ {spaced, lockout} \subseteq BOOLEAN
    BY Zenon DEF Flags
  <2>3. QED
    BY <2>1, <2>2 DEF TypeOK, Plain, FetchInv, Shape, IssuedInv, Place
<1>4. QED
  BY <1>1, <1>2, <1>3, FetchInvariant, PTL DEF Spec

-----------------------------------------------------------------------------
(* The three mutexes are taken in one order, refreshMu, the cache's,         *)
(* vkRequestMu, and given back by every end of a call: the safety behind     *)
(* AllLeave, which itself is liveness.                                       *)

\* Whoever owns vkRequestMu waits for no mutex, whoever owns a cache's at most
\* for vkRequestMu, whoever owns a refreshMu for no other group's cache and no
\* refreshMu; and whoever is in no such place owns none.
MutexesInOrder ==
  /\ \A c \in Caller : vkRequestMu = c <=> pc[c] \in {"throttle", "request"}
  /\ \A c \in Caller, g \in Group :
       cacheLock[g] = c <=> CacheOf(c) = g /\ pc[c] \in {"serialize", "throttle", "request"}
  /\ \A w \in Worker, g \in Group :
       refreshMu[g] = w => GroupOf[w] = g /\ pc[w] \in Fetching \cup {"invalidate", "forget"}

\* A step that touches no mutex, in which nobody enters or leaves the places of
\* an owner.
LEMMA MutexQuiet ==
  ASSUME MutexesInOrder, UNCHANGED lockVars,
         \A c \in Caller :
           /\ pc'[c] \in {"throttle", "request"} <=> pc[c] \in {"throttle", "request"}
           /\ pc'[c] = "serialize" <=> pc[c] = "serialize"
           /\ pc[c] \in Fetching \cup {"invalidate", "forget"}
                => pc'[c] \in Fetching \cup {"invalidate", "forget"}
  PROVE  MutexesInOrder'
BY Kinds DEF MutexesInOrder, lockVars, CacheOf

\* The end of a call: its caller owns no mutex any more, the others theirs.
LEMMA MutexBack ==
  ASSUME MutexesInOrder, FetchInv, Plain, NEW c \in Caller, pc[c] \in Fetching,
         \/ \E serial \in Nat : Gets(c, serial)
         \/ \E next \in SUBSET {"retry", "done"} : Fails(c, next),
         \/ pc[c] \in {"throttle", "request"} /\ Unlock(c)
         \/ pc[c] \in {"lookup", "recheck"} /\ UNCHANGED <<cacheLock, vkRequestMu>>
  PROVE  MutexesInOrder'
<1> USE Kinds
<1>1. Ended(c)
  BY CallEnds DEF FetchInv
<1>2. pc'[c] \notin Fetching
  BY <1>1 DEF Ended
<1>3. ASSUME NEW d \in Caller, d # c
      PROVE  pc'[d] = pc[d] \/ (pc[d] = "unborn" /\ pc'[d] = "idle")
  BY <1>3, OthersStay DEF FetchInv
<1>4. \A d \in Caller : vkRequestMu' = d <=> pc'[d] \in {"throttle", "request"}
  BY <1>2, <1>3 DEF MutexesInOrder, Unlock, Fetching
<1>5. ASSUME NEW d \in Caller, NEW g \in Group
      PROVE  cacheLock'[g] = d <=>
               CacheOf(d) = g /\ pc'[d] \in {"serialize", "throttle", "request"}
  <2>1. cacheLock'[g] = IF pc[c] \in {"throttle", "request"} /\ g = CacheOf(c)
                        THEN Nobody ELSE cacheLock[g]
    BY DEF Unlock, Plain
  <2>2. cacheLock[g] = c <=> CacheOf(c) = g /\ pc[c] \in {"throttle", "request"}
    BY DEF MutexesInOrder
  <2>3. cacheLock[g] = d <=> CacheOf(d) = g /\ pc[d] \in {"serialize", "throttle", "request"}
    BY DEF MutexesInOrder
  <2>4. QED
    BY <1>2, <1>3, <2>1, <2>2, <2>3 DEF Fetching
<1>6. ASSUME NEW w \in Worker, NEW g \in Group, refreshMu'[g] = w
      PROVE  GroupOf[w] = g /\ pc'[w] \in Fetching \cup {"invalidate", "forget"}
  <2>1. refreshMu[g] = w
    BY <1>6 DEF Gets, GroupGets, WorkerGets, Fails, FetchInv, Shape
  <2>2. GroupOf[w] = g /\ pc[w] \in Fetching \cup {"invalidate", "forget"}
    BY <2>1 DEF MutexesInOrder
  <2>3. w # c
    BY <1>1, <1>6, <2>2 DEF Ended
  <2>4. QED
    BY <1>3, <2>2, <2>3 DEF Fetching
<1>7. QED
  BY <1>4, <1>5, <1>6 DEF MutexesInOrder

\* The steps of a call.
LEMMA MutexCall ==
  ASSUME MutexesInOrder, FetchInv, IssuedInv, Plain, NEW c \in Caller,
         FetchStep(c) \/ ThrottleCancelled(c)
  PROVE  MutexesInOrder'
<1> USE Kinds
<1>1. cache[CacheOf(c)] \in Nat /\ issued + 1 \in Nat
  BY DEF IssuedInv
<1>2. CASE LockedOut(c) \/ RequestOK(c) \/ RequestFails(c) \/ ThrottleCancelled(c)
  <2>1. pc[c] \in {"throttle", "request"} /\ Unlock(c)
    BY <1>2 DEF LockedOut, RequestOK, RequestFails, ThrottleCancelled
  <2>2. \/ \E serial \in Nat : Gets(c, serial)
        \/ \E next \in SUBSET {"retry", "done"} : Fails(c, next)
    BY <1>1, <1>2 DEF LockedOut, RequestOK, RequestFails, ThrottleCancelled
  <2>3. QED
    BY <2>1, <2>2, MutexBack DEF Fetching
<1>3. CASE Gets(c, cache[CacheOf(c)]) /\ pc[c] \in {"lookup", "recheck"}
             /\ UNCHANGED <<cacheLock, vkRequestMu>>
  BY <1>1, <1>3, MutexBack DEF Fetching
<1>4. CASE /\ At(c, "lookup", "recheck") \/ At(c, "throttle", "request")
           /\ UNCHANGED lockVars
  <2>1. \A d \in Caller \ {c} : pc'[d] = pc[d]
    BY <1>4 DEF At, FetchInv, Shape
  <2>2. \/ pc[c] = "lookup" /\ pc'[c] = "recheck"
        \/ pc[c] = "throttle" /\ pc'[c] = "request"
    BY <1>4 DEF At, FetchInv, Shape
  <2>3. QED
    BY <1>4, <2>1, <2>2, MutexQuiet DEF Fetching
<1>5. CASE Recheck(c) /\ At(c, "recheck", "serialize")
  <2>1. \A d \in Caller \ {c} : pc'[d] = pc[d]
    BY <1>5 DEF At, FetchInv, Shape
  <2>2. pc[c] = "recheck" /\ pc'[c] = "serialize"
    BY <1>5 DEF At, FetchInv, Shape
  <2>3. /\ cacheLock[CacheOf(c)] = Nobody
        /\ cacheLock' = [cacheLock EXCEPT ![CacheOf(c)] = c]
        /\ vkRequestMu' = vkRequestMu /\ refreshMu' = refreshMu
    BY <1>5, <2>2 DEF Recheck, Gets, GroupGets, WorkerGets, FetchInv, Shape
  <2>4. \A g \in Group : cacheLock'[g] = IF g = CacheOf(c) THEN c ELSE cacheLock[g]
    BY <2>3 DEF Plain
  <2>5. QED
    BY <2>1, <2>2, <2>3, <2>4 DEF MutexesInOrder, Fetching
<1>6. CASE Serialize(c)
  <2>1. \A d \in Caller \ {c} : pc'[d] = pc[d]
    BY <1>6 DEF Serialize, At, FetchInv, Shape
  <2>2. pc[c] = "serialize" /\ pc'[c] = "throttle"
    BY <1>6 DEF Serialize, At, FetchInv, Shape
  <2>3. /\ vkRequestMu = Nobody /\ vkRequestMu' = c
        /\ cacheLock' = cacheLock /\ refreshMu' = refreshMu
    BY <1>6 DEF Serialize
  <2>4. QED
    BY <2>1, <2>2, <2>3 DEF MutexesInOrder, Fetching
<1>7. QED
  BY <1>2, <1>3, <1>4, <1>5, <1>6
  DEF FetchStep, Lookup, Recheck, Request, lockVars, LockedOut, RequestOK

\* A worker takes refreshMu, if it is free, and leaves it to the fetch.
LEMMA MutexWorker ==
  ASSUME MutexesInOrder, FetchInv, NEW w \in Worker,
         WorkerStep(w) \/ AllocateEnds(w) \/ SessionEnds(w)
  PROVE  MutexesInOrder'
<1> USE Kinds DEF FetchInv, Shape
<1>1. \A d \in Caller \ {w} : pc'[d] = pc[d]
  BY DEF WorkerStep, StartSession, WorkerLeaves, ResetCount, AddError, Invalidate,
         Forget, Refresh, AllocateEnds, AllocateOK, Refused, AllocateFails,
         DialFails, SessionEnds, At
<1>2. pc[w] \notin Fetching /\ pc'[w] \notin Fetching \ {"lookup"}
  BY DEF WorkerStep, StartSession, WorkerLeaves, ResetCount, AddError, Invalidate,
         Forget, Refresh, AllocateEnds, AllocateOK, Refused, AllocateFails,
         DialFails, SessionEnds, At, Fetching, Counted
<1>3. CASE Refresh(w)
  <2>1. vkRequestMu' = vkRequestMu /\ cacheLock' = cacheLock
    BY <1>3 DEF Refresh
  <2>2. \/ refreshMu' = refreshMu /\ pc[w] = "wantRefresh"
        \/ /\ refreshMu' = [refreshMu EXCEPT ![GroupOf[w]] = w]
           /\ pc'[w] = "invalidate"
    BY <1>3 DEF Refresh, At
  <2>3. QED
    BY <1>1, <1>2, <2>1, <2>2 DEF MutexesInOrder, Fetching
<1>4. CASE Forget(w)
  <2>1. UNCHANGED lockVars /\ (refreshMu[GroupOf[w]] = w => pc'[w] = "lookup")
    BY <1>4 DEF Forget, At
  <2>2. QED
    BY <1>1, <1>2, <2>1 DEF MutexesInOrder, Fetching, lockVars
<1>5. CASE ~Refresh(w) /\ ~Forget(w)
  <2>1. UNCHANGED lockVars
    BY <1>5 DEF WorkerStep, StartSession, WorkerLeaves, ResetCount, AddError, Invalidate,
                AllocateEnds, AllocateOK, Refused, AllocateFails, DialFails, SessionEnds
  <2>2. pc[w] \in {"invalidate", "forget"} => pc'[w] = "forget"
    BY <1>5 DEF WorkerStep, StartSession, WorkerLeaves, ResetCount, AddError, Invalidate,
                AllocateEnds, AllocateOK, Refused, AllocateFails, DialFails, SessionEnds, At
  <2>3. QED
    BY <1>1, <1>2, <2>1, <2>2, MutexQuiet DEF Fetching
<1>6. QED
  BY <1>3, <1>4, <1>5

LEMMA MutexKeeps ==
  ASSUME MutexesInOrder, FetchInv, IssuedInv, Plain, [Next]_vars
  PROVE  MutexesInOrder'
<1> USE Kinds
<1>1. ASSUME NEW g \in Group, GroupStep(g) \/ Expire(g) \/ RefreshWindowPasses(g)
      PROVE  MutexesInOrder'
  <2>1. UNCHANGED lockVars
    BY <1>1 DEF GroupStep, Begin, Retry, Leave, Expire, RefreshWindowPasses
  <2>2. \A c \in Caller : \/ pc'[c] = pc[c]
                        \/ /\ pc[c] \in {"waiting", "retry", "running"}
                           /\ pc'[c] \in {"lookup", "done"}
    BY <1>1 DEF GroupStep, Begin, Retry, Leave, Expire, RefreshWindowPasses, At, FetchInv,
                Shape
  <2>3. QED
    BY <2>1, <2>2, MutexQuiet DEF Fetching
<1>2. CASE TurnRefuses \/ IntervalPasses \/ LockoutEnds \/ Stop \/ UNCHANGED vars
  <2>1. UNCHANGED lockVars /\ pc' = pc
    BY <1>2 DEF TurnRefuses, IntervalPasses, LockoutEnds, Stop, vars, lockVars
  <2>2. QED
    BY <2>1, MutexQuiet
<1>3. QED
  BY <1>1, <1>2, MutexCall, MutexWorker DEF Next

\* Every mutex has one place in the order, and its owner is on the way to give it
\* back: getVkCredsCached, fetchVkCredsSerialized and refreshCreds, whatever
\* their returns, for any number of groups and workers.
THEOREM MutexOrder == Spec => []MutexesInOrder
<1>1. Init => Plain /\ MutexesInOrder
  <2> SUFFICES ASSUME Init PROVE Plain /\ MutexesInOrder
    OBVIOUS
  <2>1. Plain
    BY MaxIssuedAssumption DEF Init, Plain, Error
  <2>2. MutexesInOrder
    BY Kinds DEF Init, MutexesInOrder
  <2>3. QED
    BY <2>1, <2>2
<1>2. FetchInv /\ IssuedInv /\ Plain /\ MutexesInOrder /\ [Next]_vars
        => (Plain /\ MutexesInOrder)'
  BY PlainKeeps, MutexKeeps
<1>3. QED
  BY <1>1, <1>2, FetchInvariant, PTL DEF Spec
=============================================================================
