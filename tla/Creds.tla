------------------------------- MODULE Creds -------------------------------
(***************************************************************************)
(* The TURN credentials of the groups: wdtt-client/src/core/creds.go, and   *)
(* the callers in group.go (the group's first fetch, refreshCreds) and      *)
(* session.go (what a worker does with a refused Allocate).                 *)
(*                                                                         *)
(* A set of credentials is its serial number, in the order VK issued them.  *)
(* Each group has a cache with a mutex that stays locked during a fetch;    *)
(* one mutex for the process serialises the fetches, which are kept apart   *)
(* by an interval and suspended after a failed captcha (the lockout).       *)
(*                                                                         *)
(* Abstracted: the conversation with VK (it yields credentials or fails in  *)
(* one of the ways the callers tell apart), and durations: an interval      *)
(* passes at any moment, so do the deadlines of a call's context.           *)
(***************************************************************************)
EXTENDS Naturals, FiniteSets

CONSTANTS NumGroups,   \* groups of the core
          Worker,      \* their workers
          GroupOf,     \* the group each worker belongs to
          Nobody,      \* the owner of a free mutex
          MaxIssued    \* bound: sets of credentials VK issues

Group  == 1 .. NumGroups
Caller == Group \cup Worker   \* who calls GetCreds: a group's own goroutine, its workers

ASSUME NumGroupsAssumption == NumGroups \in Nat \ {0}
ASSUME WorkerAssumption    == Worker \cap Group = {} /\ GroupOf \in [Worker -> Group]
ASSUME FiniteAssumption    == IsFiniteSet(Worker)
ASSUME NobodyAssumption    == Nobody \notin Caller
ASSUME MaxIssuedAssumption == MaxIssued \in Nat

maxCacheErrors == 3

VARIABLES
  stopped,       \* the core's context was cancelled
  pc,            \* where each caller is
  cacheLock,     \* StreamCredentialsCache.mutex, per group: its writer
  vkRequestMu,   \* its owner
  refreshMu,     \* per group: its owner
  cache,         \* StreamCredentialsCache.creds: a serial, 0 when empty or expired
  creds,         \* the group's own copy, which its workers use; 0 before the first
  using,         \* the copy a worker's session was started with
  err,           \* why the worker's Allocate failed
  issued,        \* the last serial VK issued
  refused,       \* serials the TURN server does not accept any more
  errorCount,    \* refused Allocates counted, per group
  refreshedRecently, \* the last refresh was less than 15 s ago
  spaced,        \* minInterval has passed since globalLastVkFetchTime
  lockout        \* globalCaptchaLockout lies ahead

vars == <<stopped, pc, cacheLock, vkRequestMu, refreshMu, cache, creds, using,
          err, issued, refused, errorCount, refreshedRecently, spaced, lockout>>

lockVars   == <<cacheLock, vkRequestMu, refreshMu>>
workerVars == <<using, err>>
vkVars     == <<issued, refused>>
pacingVars == <<spaced, lockout>>

CacheOf(c) == IF c \in Group THEN c ELSE GroupOf[c]

Fetching == {"lookup", "recheck", "serialize", "throttle", "request"}
Error    == {"none", "auth", "both", "refresh"}

Init ==
  /\ stopped = FALSE
  /\ pc = [c \in Caller |-> IF c \in Group THEN "waiting" ELSE "unborn"]
  /\ cacheLock = [g \in Group |-> Nobody]
  /\ vkRequestMu = Nobody
  /\ refreshMu = [g \in Group |-> Nobody]
  /\ cache = [g \in Group |-> 0]
  /\ creds = [g \in Group |-> 0]
  /\ using = [w \in Worker |-> 0]
  /\ err = [w \in Worker |-> "none"]
  /\ issued = 0
  /\ refused = {}
  /\ errorCount = [g \in Group |-> 0]
  /\ refreshedRecently = [g \in Group |-> FALSE]
  /\ spaced = TRUE
  /\ lockout = FALSE

At(c, from, to) ==
  /\ pc[c] = from
  /\ pc' = [pc EXCEPT ![c] = to]

-----------------------------------------------------------------------------
(* What becomes of a call of GetCreds.                                      *)

\* The group keeps the credentials and starts its workers...
GroupGets(g, serial) ==
  /\ pc' = [c \in Caller |->
              IF c = g THEN "running"
              ELSE IF c \in Worker /\ GroupOf[c] = g THEN "idle" ELSE pc[c]]
  /\ creds' = [creds EXCEPT ![g] = serial]
  /\ UNCHANGED <<refreshMu, refreshedRecently>>

\* ...a refresh replaces the group's copy.
WorkerGets(w, serial) ==
  /\ pc' = [pc EXCEPT ![w] = "idle"]
  /\ creds' = [creds EXCEPT ![GroupOf[w]] = serial]
  /\ refreshedRecently' = [refreshedRecently EXCEPT ![GroupOf[w]] = TRUE]
  /\ refreshMu' = [refreshMu EXCEPT ![GroupOf[w]] = Nobody]

Gets(c, serial) ==
  \/ c \in Group /\ GroupGets(c, serial)
  \/ c \in Worker /\ WorkerGets(c, serial)

\* A group goes on as its error says, a failed refresh gives the mutex back.
Fails(c, next) ==
  /\ \/ /\ c \in Group
        /\ \E there \in next : pc' = [pc EXCEPT ![c] = there]
        /\ UNCHANGED refreshMu
     \/ /\ c \in Worker
        /\ pc' = [pc EXCEPT ![c] = "idle"]
        /\ refreshMu' = [refreshMu EXCEPT ![GroupOf[c]] = Nobody]
  /\ UNCHANGED <<creds, refreshedRecently>>

-----------------------------------------------------------------------------
(* getVkCredsCached and fetchVkCredsSerialized.                             *)

\* The look into the cache under the read lock.
Lookup(c) ==
  LET g == CacheOf(c) IN
  /\ cacheLock[g] = Nobody
  /\ \/ /\ cache[g] # 0
        /\ pc[c] = "lookup"
        /\ Gets(c, cache[g])
     \/ /\ cache[g] = 0
        /\ At(c, "lookup", "recheck")
        /\ UNCHANGED <<refreshMu, creds, refreshedRecently>>
  /\ UNCHANGED <<stopped, cacheLock, vkRequestMu, cache, workerVars, vkVars, errorCount,
                 pacingVars>>

\* The write lock and the second look.
Recheck(c) ==
  LET g == CacheOf(c) IN
  /\ cacheLock[g] = Nobody
  /\ \/ /\ cache[g] # 0
        /\ pc[c] = "recheck"
        /\ Gets(c, cache[g])
        /\ UNCHANGED cacheLock
     \/ /\ cache[g] = 0
        /\ At(c, "recheck", "serialize")
        /\ cacheLock' = [cacheLock EXCEPT ![g] = c]
        /\ UNCHANGED <<refreshMu, creds, refreshedRecently>>
  /\ UNCHANGED <<stopped, vkRequestMu, cache, workerVars, vkVars, errorCount, pacingVars>>

\* Broken variant of Serialize: the mutex of the process is missing.
SerializeNot(c) ==
  /\ At(c, "serialize", "throttle")
  /\ UNCHANGED <<stopped, cacheLock, vkRequestMu, refreshMu, cache, creds, workerVars,
                 vkVars, errorCount, refreshedRecently, pacingVars>>

Serialize(c) ==
  /\ vkRequestMu = Nobody
  /\ At(c, "serialize", "throttle")
  /\ vkRequestMu' = c
  /\ UNCHANGED <<stopped, cacheLock, refreshMu, cache, creds, workerVars, vkVars,
                 errorCount, refreshedRecently, pacingVars>>

\* Broken variant of Unlock: a return that leaves the cache locked.
UnlockVKOnly(c) ==
  /\ vkRequestMu' = Nobody
  /\ UNCHANGED cacheLock

\* The deferred calls give both mutexes back.
Unlock(c) ==
  /\ vkRequestMu' = Nobody
  /\ cacheLock' = [cacheLock EXCEPT ![CacheOf(c)] = Nobody]

\* The context ends while the call waits for the interval: its deadline, or Stop
\* for a group's own call ("context canceled").
ThrottleCancelled(c) ==
  /\ pc[c] = "throttle"
  /\ ~spaced
  /\ Unlock(c)
  /\ Fails(c, IF stopped THEN {"retry", "done"} ELSE {"retry"})
  /\ UNCHANGED <<stopped, cache, workerVars, vkVars, errorCount, pacingVars>>

\* The lockout refuses the request; the deferred call notes the time all the same.
LockedOut(c) ==
  /\ pc[c] = "throttle"
  /\ spaced
  /\ lockout
  /\ spaced' = FALSE
  /\ Unlock(c)
  /\ Fails(c, {"retry"})
  /\ UNCHANGED <<stopped, cache, workerVars, vkVars, errorCount, lockout>>

\* Broken variant of Request: the lockout is not looked at.
RequestInLockout(c) ==
  /\ spaced
  /\ At(c, "throttle", "request")
  /\ UNCHANGED <<stopped, lockVars, cache, creds, workerVars, vkVars, errorCount,
                 refreshedRecently, pacingVars>>

Request(c) ==
  /\ spaced
  /\ ~lockout
  /\ At(c, "throttle", "request")
  /\ UNCHANGED <<stopped, lockVars, cache, creds, workerVars, vkVars, errorCount,
                 refreshedRecently, pacingVars>>

\* VK issues credentials: they go into the cache and to the caller.
RequestOK(c) ==
  /\ pc[c] = "request"
  /\ issued < MaxIssued
  /\ issued' = issued + 1
  /\ cache' = [cache EXCEPT ![CacheOf(c)] = issued + 1]
  /\ spaced' = FALSE
  /\ Unlock(c)
  /\ Gets(c, issued + 1)
  /\ UNCHANGED <<stopped, workerVars, refused, errorCount, lockout>>

\* Every attempt failed, or a captcha was not solved, which begins a lockout of
\* 60 s; a dead hash or a cancelled context ends the group.
RequestFails(c) ==
  /\ pc[c] = "request"
  /\ spaced' = FALSE
  /\ Unlock(c)
  /\ \/ lockout' = TRUE /\ Fails(c, {"retry"})
     \/ UNCHANGED lockout /\ Fails(c, {"retry", "done"})
  /\ UNCHANGED <<stopped, cache, workerVars, vkVars, errorCount>>

FetchStep(c) ==
  \/ Lookup(c) \/ Recheck(c) \/ Serialize(c)
  \/ LockedOut(c) \/ Request(c) \/ RequestOK(c) \/ RequestFails(c)

-----------------------------------------------------------------------------
(* A group's goroutine.                                                     *)

\* The cascade: see StartupCascade in WorkerGroup.
Begin(g) ==
  /\ ~stopped
  /\ \A h \in Group : h < g => pc[h] \in {"running", "done"}
  /\ At(g, "waiting", "lookup")
  /\ UNCHANGED <<stopped, lockVars, cache, creds, workerVars, vkVars, errorCount,
                 refreshedRecently, pacingVars>>

Retry(g) ==
  /\ ~stopped
  /\ At(g, "retry", "lookup")
  /\ UNCHANGED <<stopped, lockVars, cache, creds, workerVars, vkVars, errorCount,
                 refreshedRecently, pacingVars>>

Leave(g) ==
  /\ \/ stopped /\ (At(g, "waiting", "done") \/ At(g, "retry", "done"))
     \/ /\ \A w \in Worker : GroupOf[w] = g => pc[w] = "done"
        /\ At(g, "running", "done")
  /\ UNCHANGED <<stopped, lockVars, cache, creds, workerVars, vkVars, errorCount,
                 refreshedRecently, pacingVars>>

GroupStep(g) == Begin(g) \/ Retry(g) \/ Leave(g)

-----------------------------------------------------------------------------
(* A worker.                                                                *)

\* The loop's head: the worker takes a copy of the group's credentials.
StartSession(w) ==
  /\ ~stopped
  /\ At(w, "idle", "allocate")
  /\ using' = [using EXCEPT ![w] = creds[GroupOf[w]]]
  /\ UNCHANGED <<stopped, lockVars, cache, creds, err, vkVars, errorCount,
                 refreshedRecently, pacingVars>>

WorkerLeaves(w) ==
  /\ stopped
  /\ At(w, "idle", "done")
  /\ UNCHANGED <<stopped, lockVars, cache, creds, workerVars, vkVars, errorCount,
                 refreshedRecently, pacingVars>>

\* Allocate succeeds: the group's error count is cleared.
AllocateOK(w) ==
  /\ using[w] \notin refused
  /\ At(w, "allocate", "session")
  /\ errorCount' = [errorCount EXCEPT ![GroupOf[w]] = 0]
  /\ UNCHANGED <<stopped, lockVars, cache, creds, workerVars, vkVars,
                 refreshedRecently, pacingVars>>

\* Refused: 401 Unauthorized is counted, "stale nonce" and "invalid credential"
\* are counted and make the worker refresh.
Refused(w) ==
  /\ using[w] \in refused
  /\ At(w, "allocate", "count")
  /\ \E e \in {"auth", "both"} : err' = [err EXCEPT ![w] = e]
  /\ UNCHANGED <<stopped, lockVars, cache, creds, using, vkVars, errorCount,
                 refreshedRecently, pacingVars>>

\* A quota, error 508, an incomplete answer: refresh, the count untouched.
AllocateFails(w) ==
  /\ At(w, "allocate", IF stopped THEN "done" ELSE "wantRefresh")
  /\ err' = [err EXCEPT ![w] = "refresh"]
  /\ UNCHANGED <<stopped, lockVars, cache, creds, using, vkVars, errorCount,
                 refreshedRecently, pacingVars>>

\* No relay was reached; without a socket the worker gives up.
DialFails(w) ==
  /\ \E there \in {"idle", "done"} : At(w, "allocate", there)
  /\ UNCHANGED <<stopped, lockVars, cache, creds, workerVars, vkVars, errorCount,
                 refreshedRecently, pacingVars>>

\* The session is over; a wrong password is the worker's end.
SessionEnds(w) ==
  /\ \E there \in {"idle", "done"} : At(w, "session", there)
  /\ UNCHANGED <<stopped, lockVars, cache, creds, workerVars, vkVars, errorCount,
                 refreshedRecently, pacingVars>>

\* handleAuthError: two steps on the counter, with those of other workers in
\* between.  errorWindow since the last error may have passed or not.
ResetCount(w) ==
  /\ At(w, "count", "add")
  /\ errorCount' \in {errorCount, [errorCount EXCEPT ![GroupOf[w]] = 0]}
  /\ UNCHANGED <<stopped, lockVars, cache, creds, workerVars, vkVars,
                 refreshedRecently, pacingVars>>

\* Where a worker goes after it has counted its error.
Counted(w) == IF stopped THEN "done"
              ELSE IF err[w] = "both" THEN "wantRefresh" ELSE "idle"

AddError(w) ==
  LET n == errorCount[GroupOf[w]] + 1 IN
  /\ At(w, "add", IF n >= maxCacheErrors THEN "invalidate" ELSE Counted(w))
  /\ errorCount' = [errorCount EXCEPT ![GroupOf[w]] = n]
  /\ UNCHANGED <<stopped, lockVars, cache, creds, workerVars, vkVars,
                 refreshedRecently, pacingVars>>

\* invalidate: the cache is emptied under its mutex...
Invalidate(w) ==
  /\ cacheLock[GroupOf[w]] = Nobody
  /\ At(w, "invalidate", "forget")
  /\ cache' = [cache EXCEPT ![GroupOf[w]] = 0]
  /\ UNCHANGED <<stopped, lockVars, creds, workerVars, vkVars, errorCount,
                 refreshedRecently, pacingVars>>

\* Broken variant of Forget: the counter is not cleared.
ForgetNothing(w) ==
  /\ At(w, "forget", IF refreshMu[GroupOf[w]] = w THEN "lookup" ELSE Counted(w))
  /\ UNCHANGED <<stopped, lockVars, cache, creds, workerVars, vkVars, errorCount,
                 refreshedRecently, pacingVars>>

\* ...and the counter cleared outside of it.
Forget(w) ==
  /\ At(w, "forget", IF refreshMu[GroupOf[w]] = w THEN "lookup" ELSE Counted(w))
  /\ errorCount' = [errorCount EXCEPT ![GroupOf[w]] = 0]
  /\ UNCHANGED <<stopped, lockVars, cache, creds, workerVars, vkVars,
                 refreshedRecently, pacingVars>>

\* Broken variant of Refresh: the cache is not emptied before the fetch.
RefreshFromCache(w) ==
  LET g == GroupOf[w] IN
  /\ refreshMu[g] = Nobody
  /\ At(w, "wantRefresh", "lookup")
  /\ refreshMu' = [refreshMu EXCEPT ![g] = w]
  /\ UNCHANGED <<stopped, cacheLock, vkRequestMu, cache, creds, workerVars, vkVars,
                 errorCount, refreshedRecently, pacingVars>>

\* refreshCreds: nothing to do within 15 s of the last refresh.
Refresh(w) ==
  LET g == GroupOf[w] IN
  /\ refreshMu[g] = Nobody
  /\ \/ /\ refreshedRecently[g]
        /\ At(w, "wantRefresh", "idle")
        /\ UNCHANGED refreshMu
     \/ /\ ~refreshedRecently[g]
        /\ At(w, "wantRefresh", "invalidate")
        /\ refreshMu' = [refreshMu EXCEPT ![g] = w]
  /\ UNCHANGED <<stopped, cacheLock, vkRequestMu, cache, creds, workerVars, vkVars,
                 errorCount, refreshedRecently, pacingVars>>

WorkerStep(w) ==
  \/ StartSession(w) \/ WorkerLeaves(w)
  \/ ResetCount(w) \/ AddError(w) \/ Invalidate(w) \/ Forget(w) \/ Refresh(w)

AllocateEnds(w) ==
  AllocateOK(w) \/ Refused(w) \/ AllocateFails(w) \/ DialFails(w)

-----------------------------------------------------------------------------
(* Time, the TURN server, Core.Stop.                                        *)

\* Credentials live for ten minutes; nine in the cache.
Expire(g) ==
  /\ cache[g] # 0
  /\ cache' = [cache EXCEPT ![g] = 0]
  /\ UNCHANGED <<stopped, pc, lockVars, creds, workerVars, vkVars, errorCount,
                 refreshedRecently, pacingVars>>

\* The last ones within the bound stay good.
TurnRefuses ==
  /\ \E s \in 1 .. issued : s < MaxIssued /\ refused' = refused \cup {s}
  /\ UNCHANGED <<stopped, pc, lockVars, cache, creds, workerVars, issued, errorCount,
                 refreshedRecently, pacingVars>>

IntervalPasses ==
  /\ spaced' = TRUE
  /\ UNCHANGED <<stopped, pc, lockVars, cache, creds, workerVars, vkVars, errorCount,
                 refreshedRecently, lockout>>

LockoutEnds ==
  /\ lockout' = FALSE
  /\ UNCHANGED <<stopped, pc, lockVars, cache, creds, workerVars, vkVars, errorCount,
                 refreshedRecently, spaced>>

RefreshWindowPasses(g) ==
  /\ refreshedRecently' = [refreshedRecently EXCEPT ![g] = FALSE]
  /\ UNCHANGED <<stopped, pc, lockVars, cache, creds, workerVars, vkVars, errorCount,
                 pacingVars>>

Stop ==
  /\ stopped' = TRUE
  /\ UNCHANGED <<pc, lockVars, cache, creds, workerVars, vkVars, errorCount,
                 refreshedRecently, pacingVars>>

Next ==
  \/ \E c \in Caller : FetchStep(c) \/ ThrottleCancelled(c)
  \/ \E g \in Group : GroupStep(g) \/ Expire(g) \/ RefreshWindowPasses(g)
  \/ \E w \in Worker : WorkerStep(w) \/ AllocateEnds(w) \/ SessionEnds(w)
  \/ TurnRefuses \/ IntervalPasses \/ LockoutEnds \/ Stop

Spec == Init /\ [][Next]_vars

-----------------------------------------------------------------------------
(* Fairness: every goroutine that can move does, intervals pass, a call of  *)
(* the TURN server or of VK ends, a session ends after Stop, and Go's       *)
(* mutexes starve nobody.  Which way a call ends is not promised.           *)

Step(c) ==
  \/ FetchStep(c)
  \/ c \in Group /\ GroupStep(c)
  \/ c \in Worker /\ (WorkerStep(c) \/ AllocateEnds(c) \/ (stopped /\ SessionEnds(c)))

Fairness == (\A c \in Caller : SF_vars(Step(c))) /\ WF_vars(IntervalPasses)

LiveSpec == Spec /\ Fairness

-----------------------------------------------------------------------------
(* Properties.                                                              *)

\* Type invariant.  The error counter outgrows its limit by no more than the
\* workers that can be on their way to invalidate the cache at once.
TypeOK ==
  /\ stopped \in BOOLEAN
  /\ pc \in [Caller -> Fetching \cup {"waiting", "retry", "running", "done", "unborn",
                                      "idle", "allocate", "session", "count", "add",
                                      "invalidate", "forget", "wantRefresh"}]
  /\ cacheLock \in [Group -> Caller \cup {Nobody}]
  /\ vkRequestMu \in Caller \cup {Nobody}
  /\ refreshMu \in [Group -> Worker \cup {Nobody}]
  /\ cache \in [Group -> 0 .. issued]
  /\ creds \in [Group -> 0 .. issued]
  /\ using \in [Worker -> 0 .. issued]
  /\ err \in [Worker -> Error]
  /\ issued \in 0 .. MaxIssued
  /\ refused \subseteq 1 .. issued
  /\ errorCount \in [Group -> 0 .. maxCacheErrors - 1 + Cardinality(Worker)]
  /\ refreshedRecently \in [Group -> BOOLEAN]
  /\ {spaced, lockout} \subseteq BOOLEAN

\* Of all groups and workers at most one at a time talks to VK, and only after
\* the interval since the one before: first fetches and refreshes of different
\* groups take different caches' mutexes and meet only at vkRequestMu.
RequestsApart ==
  \A c \in Caller : pc[c] = "request" =>
    spaced /\ \A d \in Caller : pc[d] = "request" => d = c

\* Nobody talks to VK during a lockout, although the lockout is looked at before
\* the request and may be declared by another caller's.
NoRequestInLockout == \A c \in Caller : pc[c] = "request" => ~lockout

\* A refresh that succeeds replaces the credentials that its caller was refused:
\* it never finds them in the cache again, although invalidations, expiries and
\* the fetches of other groups come in between.
RefreshBringsNew ==
  [][\A w \in Worker :
       LET g == GroupOf[w] IN
       refreshMu[g] = w /\ ~refreshedRecently[g] /\ refreshedRecently'[g]
         => creds'[g] > using[w]]_vars

-----------------------------------------------------------------------------
\* After Stop every group and every worker ends, also one that waits for a
\* mutex: the three are taken in one order (refreshMu, the cache's,
\* vkRequestMu), and every return gives back its own.
AllLeave ==
  stopped ~> \A c \in Caller : pc[c] \in {"done", "unborn"}
=============================================================================
