---------------------------- MODULE SyncTab_proofs ----------------------------
(***************************************************************************)
(* Proofs about the store of a tab, alone (SyncStore) and over the client  *)
(* that its requests share (SyncTab), for any conflicts, any number of     *)
(* cycles and any number of conflicts resolved without the user.           *)
(***************************************************************************)
EXTENDS SyncTab, SequencesExt, SequenceTheorems, TLAPS

-----------------------------------------------------------------------------
(* The store alone. *)

\* What the store works on has been reported by a cycle; a call is about one of the
\* conflicts that were pending when it was made.
KnownConflicts ==
    /\ settled \cup pending \subseteq reported
    /\ \A call \in calls : call.conflict \in call.pending /\ call.pending \subseteq reported

\* The inductive invariant.
StoreInv == TypeOK /\ SyncingIsReal /\ KnownConflicts

LEMMA InitStoreInv == Init => StoreInv
<1>1. 0 \in 0 .. MaxCycles
  BY SyncStoreAssumption
<1>2. QED
  BY <1>1 DEF Init, StoreInv, TypeOK, SyncingIsReal, KnownConflicts

(***************************************************************************)
(* Starting a cycle keeps their number in bounds.                          *)
(***************************************************************************)
LEMMA StartCounts ==
    ASSUME cycles \in 0 .. MaxCycles, NEW owner, Start(owner)
    PROVE  /\ cycles' \in 0 .. MaxCycles
           /\ cycle' = owner
           /\ overtaken' = FALSE
BY SyncStoreAssumption DEF Start

(***************************************************************************)
(* Steps that start, end or fail cycles: none of them adds a call.         *)
(***************************************************************************)
LEMMA CycleSteps ==
    ASSUME StoreInv,
           \/ SyncNow \/ PeriodicSync \/ DisableSync \/ ResetSync
           \/ \E auto \in BOOLEAN : EnableSync(auto) \/ UpdateInterval(auto)
           \/ FailCycle \/ ClearConflicts
    PROVE  StoreInv'
<1>1. CASE SyncNow
  <2>1. TypeOK'
    BY <1>1, StartCounts DEF StoreInv, TypeOK, SyncNow, CallSyncNow
  <2>2. SyncingIsReal' /\ KnownConflicts'
    BY <1>1 DEF StoreInv, SyncingIsReal, KnownConflicts, SyncNow, CallSyncNow, Start
  <2>3. QED
    BY <2>1, <2>2 DEF StoreInv
<1>2. ASSUME NEW auto \in BOOLEAN, EnableSync(auto) PROVE StoreInv'
  <2>1. TypeOK'
    BY <1>2, StartCounts DEF StoreInv, TypeOK, EnableSync, CallSyncNow
  <2>2. SyncingIsReal' /\ KnownConflicts'
    BY <1>2 DEF StoreInv, SyncingIsReal, KnownConflicts, EnableSync, CallSyncNow, Start
  <2>3. QED
    BY <2>1, <2>2 DEF StoreInv
<1>3. CASE PeriodicSync
  BY <1>3, StartCounts DEF StoreInv, TypeOK, SyncingIsReal, KnownConflicts,
                           PeriodicSync
<1>4. CASE DisableSync
  BY <1>4 DEF StoreInv, TypeOK, SyncingIsReal, KnownConflicts, DisableSync
<1>5. CASE ResetSync
  BY <1>5 DEF StoreInv, TypeOK, SyncingIsReal, KnownConflicts, ResetSync
<1>6. CASE FailCycle
  BY <1>6 DEF StoreInv, TypeOK, SyncingIsReal, KnownConflicts, FailCycle,
              AfterFailure
<1>7. CASE ClearConflicts
  BY <1>7 DEF StoreInv, TypeOK, SyncingIsReal, KnownConflicts, ClearConflicts
<1>8. ASSUME NEW auto \in BOOLEAN, UpdateInterval(auto) PROVE StoreInv'
  <2>1. TypeOK'
    BY <1>8, StartCounts DEF StoreInv, TypeOK, UpdateInterval
  <2>2. SyncingIsReal' /\ KnownConflicts'
    BY <1>8 DEF StoreInv, TypeOK, SyncingIsReal, KnownConflicts, UpdateInterval, Start
  <2>3. QED
    BY <2>1, <2>2 DEF StoreInv
<1>9. QED
  BY <1>1, <1>2, <1>3, <1>4, <1>5, <1>6, <1>7, <1>8

LEMMA FinishCycleStep ==
    ASSUME StoreInv, NEW found \in SUBSET Conflicts, FinishCycle(found)
    PROVE  StoreInv'
<1>1. TypeOK'
  BY DEF StoreInv, TypeOK, FinishCycle, StatusAfter
<1>2. SyncingIsReal' /\ KnownConflicts'
  BY DEF StoreInv, SyncingIsReal, KnownConflicts, FinishCycle
<1>3. QED
  BY <1>1, <1>2 DEF StoreInv

LEMMA ResolveConflictStep ==
    ASSUME StoreInv, NEW c \in Conflicts, ResolveConflict(c)
    PROVE  StoreInv'
<1> DEFINE new == [conflict |-> c, pending |-> pending]
<1>1. /\ new \in [conflict : Conflicts, pending : SUBSET Conflicts]
      /\ new.conflict = c /\ new.pending = pending
      /\ calls' = calls \cup {new}
  BY DEF StoreInv, TypeOK, ResolveConflict
<1>2. c \in pending /\ \A call \in calls : call.conflict # c
  BY DEF ResolveConflict, MayCall
<1>3. TypeOK'
  BY <1>1 DEF StoreInv, TypeOK, ResolveConflict
<1>4. SyncingIsReal' /\ KnownConflicts'
  BY <1>1, <1>2 DEF StoreInv, SyncingIsReal, KnownConflicts, ResolveConflict
<1>5. QED
  BY <1>3, <1>4 DEF StoreInv

LEMMA EndCallStep ==
    ASSUME StoreInv, NEW call \in calls, ResolveAnswered(call) \/ ResolveFailed(call)
    PROVE  StoreInv'
<1>1. /\ call.conflict \in Conflicts /\ call.pending \subseteq Conflicts
      /\ call.conflict \in reported /\ call.pending \subseteq reported
  BY DEF StoreInv, TypeOK, KnownConflicts
<1>2. CASE ResolveAnswered(call)
  BY <1>1, <1>2 DEF StoreInv, TypeOK, SyncingIsReal, KnownConflicts,
                    ResolveAnswered, Remaining
<1>3. CASE ResolveFailed(call)
  BY <1>3 DEF StoreInv, TypeOK, SyncingIsReal, KnownConflicts, ResolveFailed
<1>4. QED
  BY <1>2, <1>3

LEMMA NextStoreInv == StoreInv /\ [Next]_vars => StoreInv'
<1> SUFFICES ASSUME StoreInv, [Next]_vars PROVE StoreInv'
  OBVIOUS
<1>1. CASE UNCHANGED vars
  BY <1>1 DEF vars, StoreInv, TypeOK, SyncingIsReal, KnownConflicts
<1>2. CASE Next
  BY <1>2, CycleSteps, FinishCycleStep, ResolveConflictStep, EndCallStep
     DEF Next, EndCycle, EndCall
<1>3. QED
  BY <1>1, <1>2

(***************************************************************************)
(* The invariant holds in every reachable state.                           *)
(***************************************************************************)
THEOREM StoreInvariant == Spec => []StoreInv
BY InitStoreInv, NextStoreInv, PTL DEF Spec

(***************************************************************************)
(* Type correctness of the store.                                          *)
(***************************************************************************)
THEOREM StoreTypeCorrect == Spec => []TypeOK
<1>1. StoreInv => TypeOK
  BY DEF StoreInv
<1>2. QED
  BY <1>1, StoreInvariant, PTL

(***************************************************************************)
(* The syncing flag is never set without a cycle of the store behind it.   *)
(***************************************************************************)
THEOREM SyncingIsRealHolds == Spec => []SyncingIsReal
BY StoreInvariant, PTL DEF StoreInv

(***************************************************************************)
(* A settled conflict comes back only by the answer to a call for another  *)
(* conflict that was made while both were pending.                         *)
(***************************************************************************)
THEOREM ReturnsOnlyByOverlapHolds == Spec => ReturnsOnlyByOverlap
<1>1. ASSUME StoreInv, [Next]_vars,
             NEW c \in (settled' \cap pending') \ (settled \cap pending)
      PROVE  \E call \in calls \ calls' : c \in call.pending /\ call.conflict # c
  <2>1. PICK call \in calls : ResolveAnswered(call)
    <3>1. ASSUME NEW found \in SUBSET Conflicts, FinishCycle(found) PROVE FALSE
      BY <1>1, <3>1 DEF StoreInv, KnownConflicts, FinishCycle
    <3>2. ASSUME \/ SyncNow \/ PeriodicSync \/ DisableSync \/ ResetSync
                 \/ \E auto \in BOOLEAN : EnableSync(auto) \/ UpdateInterval(auto)
                 \/ FailCycle \/ ClearConflicts
                 \/ \E x \in Conflicts : ResolveConflict(x)
                 \/ \E call \in calls : ResolveFailed(call)
                 \/ UNCHANGED vars
          PROVE FALSE
      BY <1>1, <3>2 DEF SyncNow, EnableSync, PeriodicSync, DisableSync, ResetSync, UpdateInterval,
                        FailCycle, ClearConflicts, ResolveConflict, ResolveFailed, vars
    <3>3. QED
      BY <1>1, <3>1, <3>2 DEF Next, EndCycle, EndCall
  <2>2. c \in call.pending \ {call.conflict} /\ call \notin calls'
    BY <1>1, <2>1 DEF ResolveAnswered, Remaining
  <2>3. QED
    BY <2>2
<1>2. StoreInv /\ [Next]_vars =>
        [\A c \in (settled' \cap pending') \ (settled \cap pending) :
            \E call \in calls \ calls' : c \in call.pending /\ call.conflict # c]_vars
  BY <1>1
<1>3. QED
  BY <1>2, StoreInvariant, PTL DEF Spec, ReturnsOnlyByOverlap

-----------------------------------------------------------------------------
(* The store over the client. *)

\* A request that throws ends the cycle or a call, or goes unnoticed.
LEMMA ThrowsIsAllowed ==
    ASSUME NEW r, Throws(r)
    PROVE  [Next]_vars
<1>1. CASE r = Own
  BY <1>1 DEF Throws, OwnThrows, Next, EndCycle
<1>2. CASE r # Own
  BY <1>2 DEF Throws, CallThrows, CallsOf, Next, EndCall
<1>3. QED
  BY <1>1, <1>2

LEMMA TabStepIsAllowed == [TabNext]_tabVars => [Next]_vars
<1> SUFFICES ASSUME [TabNext]_tabVars PROVE [Next]_vars
  OBVIOUS
<1>1. CASE Drive
  BY <1>1 DEF Drive, Next
<1>2. CASE Local
  <2>1. CASE SendOwn
    BY <2>1 DEF SendOwn
  <2>2. CASE FailLocally
    BY <2>2 DEF FailLocally, Next, EndCycle
  <2>3. CASE Return
    BY <2>3 DEF Return, Next, EndCycle
  <2>4. QED
    BY <1>2, <2>1, <2>2, <2>3 DEF Local
<1>3. ASSUME NEW c \in Conflicts, Resolve(c) PROVE Next
  BY <1>3 DEF Resolve, Next
<1>4. ASSUME NEW c \in Conflicts, Apply(c) PROVE Next
  BY <1>4 DEF Apply, CallsOf, Next, EndCall
<1>5. ASSUME NEW r \in Conflicts \cup {Own}, Headers(r) PROVE UNCHANGED vars
  BY <1>5 DEF Headers
<1>6. ASSUME NEW r \in Conflicts \cup {Own}, NetworkError(r) PROVE [Next]_vars
  BY <1>6, ThrowsIsAllowed DEF NetworkError
<1>7. ASSUME NEW r \in Conflicts \cup {Own}, Body(r) PROVE [Next]_vars
  BY <1>7, ThrowsIsAllowed DEF Body, OwnAnswered
<1>8. CASE TimerFires
  <2> DEFINE aborted == {r \in controller : phase[r] # "idle"}
  <2>1. CASE aborted = {}
    BY <1>8, <2>1 DEF TimerFires
  <2>2. CASE aborted # {}
    <3>1. PICK r \in aborted : Throws(r)
      BY <1>8, <2>2 DEF TimerFires
    <3>2. QED
      BY <3>1, ThrowsIsAllowed
  <2>3. QED
    BY <2>1, <2>2
<1>9. CASE UNCHANGED tabVars
  BY <1>9 DEF tabVars
<1>10. QED
  BY <1>1, <1>2, <1>3, <1>4, <1>5, <1>6, <1>7, <1>8, <1>9 DEF TabNext

(***************************************************************************)
(* The safety part of ImplementsStore.                                     *)
(***************************************************************************)
THEOREM TabRefinesStore == TabSpec => Init /\ [][Next]_vars
<1>1. TabInit => Init
  BY DEF TabInit
<1>2. QED
  BY <1>1, TabStepIsAllowed, PTL DEF TabSpec

(***************************************************************************)
(* What is proved of the store alone holds of the store over its client:   *)
(* the flag is real, whatever its requests, timers and answers do.         *)
(***************************************************************************)
THEOREM TabStoreInvariant == TabSpec => [](StoreInv /\ SyncingIsReal)
<1>1. StoreInv => StoreInv /\ SyncingIsReal
  BY DEF StoreInv
<1>2. QED
  BY <1>1, TabRefinesStore, InitStoreInv, NextStoreInv, PTL

-----------------------------------------------------------------------------
(* The armed timers, a sequence without repetitions. *)

(***************************************************************************)
(* What is left of a sequence when one place is taken out.                 *)
(***************************************************************************)
LEMMA RemoveAtFacts ==
    ASSUME NEW S, NEW q \in Seq(S), NEW k \in 1 .. Len(q)
    PROVE  /\ RemoveAt(q, k) \in Seq(S)
           /\ Len(RemoveAt(q, k)) = Len(q) - 1
           /\ \A n \in 1 .. Len(q) - 1 : RemoveAt(q, k)[n] = IF n < k THEN q[n] ELSE q[n + 1]
<1> DEFINE a == SubSeq(q, 1, k - 1)
           b == SubSeq(q, k + 1, Len(q))
<1>1. Len(q) \in Nat /\ k \in Nat /\ \A n \in 1 .. Len(q) : q[n] \in S
  BY LenProperties, ElementOfSeq
<1>2. a \in Seq(S) /\ Len(a) = k - 1 /\ \A n \in 1 .. k - 1 : a[n] = q[n]
  <2>1. 1 \in Int /\ k - 1 \in Int /\ \A n \in 1 .. k - 1 : q[n] \in S
    BY <1>1
  <2>2. /\ a \in Seq(S)
        /\ Len(a) = IF 1 <= k - 1 THEN (k - 1) - 1 + 1 ELSE 0
        /\ \A n \in 1 .. (k - 1) - 1 + 1 : a[n] = q[1 + n - 1]
    BY <2>1, SubSeqProperties
  <2> HIDE DEF a
  <2>3. QED
    BY <1>1, <2>2
<1>3. /\ b \in Seq(S) /\ Len(b) = Len(q) - k
      /\ \A n \in 1 .. Len(q) - k : b[n] = q[n + k]
  <2>1. k + 1 \in Int /\ Len(q) \in Int /\ \A n \in k + 1 .. Len(q) : q[n] \in S
    BY <1>1
  <2>2. /\ b \in Seq(S)
        /\ Len(b) = IF k + 1 <= Len(q) THEN Len(q) - (k + 1) + 1 ELSE 0
        /\ \A n \in 1 .. Len(q) - (k + 1) + 1 : b[n] = q[k + 1 + n - 1]
    BY <2>1, SubSeqProperties
  <2> HIDE DEF b
  <2>3. Len(q) - (k + 1) + 1 = Len(q) - k /\ \A n \in Nat : k + 1 + n - 1 = n + k
    BY <1>1
  <2>4. Len(b) = Len(q) - k
    BY <1>1, <2>2
  <2>5. ASSUME NEW n \in 1 .. Len(q) - k PROVE b[n] = q[n + k]
    <3>1. n \in 1 .. Len(q) - (k + 1) + 1 /\ k + 1 + n - 1 = n + k
      BY <1>1, <2>3
    <3>2. b[n] = q[k + 1 + n - 1]
      BY <2>2, <3>1
    <3>3. QED
      BY <3>1, <3>2
  <2>6. QED
    BY <2>2, <2>4, <2>5
<1>4. RemoveAt(q, k) = a \o b
  BY DEF RemoveAt
<1> HIDE DEF a, b
<1>5. /\ a \o b \in Seq(S) /\ Len(a \o b) = Len(a) + Len(b)
      /\ \A n \in 1 .. Len(a) + Len(b) : (a \o b)[n] = IF n <= Len(a) THEN a[n] ELSE b[n - Len(a)]
  BY <1>2, <1>3, ConcatProperties
<1>6. ASSUME NEW n \in 1 .. Len(q) - 1
      PROVE  (a \o b)[n] = IF n < k THEN q[n] ELSE q[n + 1]
  <2>1. CASE n < k
    BY <1>1, <1>2, <1>3, <1>5, <2>1
  <2>2. CASE ~(n < k)
    <3>1. n - (k - 1) \in 1 .. Len(q) - k /\ (n - (k - 1)) + k = n + 1
      BY <1>1, <2>2
    <3>2. (a \o b)[n] = b[n - (k - 1)]
      BY <1>1, <1>2, <1>3, <1>5, <2>2
    <3>3. QED
      BY <1>3, <2>2, <3>1, <3>2
  <2>3. QED
    BY <2>1, <2>2
<1>7. QED
  BY <1>1, <1>2, <1>3, <1>4, <1>5, <1>6

(***************************************************************************)
(* Clearing takes just the one timer, and the others stay apart.           *)
(***************************************************************************)
LEMMA ClearedFacts ==
    ASSUME NEW S, NEW q \in Seq(S), IsInjective(q), NEW done,
           \A x, y \in done : x = y
    PROVE  /\ Client!Cleared(q, done) \in Seq(S)
           /\ IsInjective(Client!Cleared(q, done))
           /\ ToSet(Client!Cleared(q, done)) = ToSet(q) \ done
<1> DEFINE c == Client!Cleared(q, done)
<1>1. Len(q) \in Nat /\ DOMAIN q = 1 .. Len(q)
  BY LenProperties
<1>2. CASE ToSet(q) \cap done = {}
  <2>1. c = q
    BY <1>2 DEF Client!Cleared, Client!ToSet, ToSet
  <2>2. QED
    BY <1>2, <2>1
<1>3. CASE ToSet(q) \cap done # {}
  <2> DEFINE k == CHOOSE n \in DOMAIN q : q[n] \in done
  <2>1. \E n \in DOMAIN q : q[n] \in done
    BY <1>3 DEF ToSet
  <2>2. k \in 1 .. Len(q) /\ q[k] \in done
    BY <1>1, <2>1
  <2>3. c = RemoveAt(q, k)
    BY <1>3 DEF Client!Cleared, Client!ToSet, Client!RemoveAt, ToSet, RemoveAt
  <2> HIDE DEF k, c
  <2>4. /\ c \in Seq(S) /\ Len(c) = Len(q) - 1
        /\ \A n \in 1 .. Len(q) - 1 : c[n] = IF n < k THEN q[n] ELSE q[n + 1]
    BY <2>2, <2>3, RemoveAtFacts
  <2>5. DOMAIN c = 1 .. Len(q) - 1
    BY <2>4, LenProperties
  <2>6. \A m, n \in DOMAIN q : q[m] = q[n] => m = n
    BY DEF IsInjective
  <2>7. IsInjective(c)
    <3>1. ASSUME NEW m \in 1 .. Len(q) - 1, NEW n \in 1 .. Len(q) - 1, c[m] = c[n]
          PROVE  m = n
      <4> DEFINE at(x) == IF x < k THEN x ELSE x + 1
      <4>1. at(m) \in 1 .. Len(q) /\ at(n) \in 1 .. Len(q) /\ k \in Nat
        BY <1>1, <2>2
      <4>2. c[m] = q[at(m)] /\ c[n] = q[at(n)]
        BY <2>4
      <4>3. at(m) = at(n)
        BY <1>1, <2>6, <3>1, <4>1, <4>2
      <4>4. QED
        BY <1>1, <4>1, <4>3
    <3>2. QED
      BY <2>5, <3>1 DEF IsInjective
  <2>8. ToSet(c) \subseteq ToSet(q) \ done
    <3>1. ASSUME NEW n \in 1 .. Len(q) - 1 PROVE c[n] \in ToSet(q) /\ c[n] \notin done
      <4> DEFINE m == IF n < k THEN n ELSE n + 1
      <4>1. m \in DOMAIN q /\ m # k
        BY <1>1, <2>2
      <4>2. c[n] = q[m]
        BY <2>4
      <4> HIDE DEF m
      <4>3. q[m] # q[k]
        BY <1>1, <2>2, <2>6, <4>1
      <4>4. QED
        BY <2>2, <4>1, <4>2, <4>3 DEF ToSet
    <3>2. QED
      BY <2>5, <3>1 DEF ToSet
  <2>9. ToSet(q) \ done \subseteq ToSet(c)
    <3>1. ASSUME NEW m \in 1 .. Len(q), q[m] \notin done PROVE q[m] \in ToSet(c)
      <4> DEFINE n == IF m < k THEN m ELSE m - 1
      <4>1. m # k /\ m \in Nat /\ k \in 1 .. Len(q)
        BY <2>2, <3>1
      <4>2. n \in 1 .. Len(q) - 1 /\ (n < k => n = m) /\ (~(n < k) => n + 1 = m)
        BY <1>1, <4>1
      <4> HIDE DEF n
      <4>3. c[n] = q[m]
        BY <2>4, <4>2
      <4>4. QED
        BY <2>5, <4>2, <4>3 DEF ToSet
    <3>2. QED
      BY <1>1, <3>1 DEF ToSet
  <2>10. QED
    BY <2>4, <2>7, <2>8, <2>9 DEF c
<1>4. QED
  BY <1>2, <1>3

(***************************************************************************)
(* Arming a timer that is not armed.                                       *)
(***************************************************************************)
LEMMA ArmedFacts ==
    ASSUME NEW S, NEW q \in Seq(S), IsInjective(q), NEW r \in S, r \notin ToSet(q)
    PROVE  /\ Append(q, r) \in Seq(S)
           /\ IsInjective(Append(q, r))
           /\ ToSet(Append(q, r)) = ToSet(q) \cup {r}
<1> DEFINE a == Append(q, r)
<1>1. /\ Len(q) \in Nat /\ DOMAIN q = 1 .. Len(q)
      /\ a \in Seq(S) /\ Len(a) = Len(q) + 1
      /\ \A n \in 1 .. Len(q) : a[n] = q[n]
      /\ a[Len(q) + 1] = r
  BY LenProperties, AppendProperties
<1> HIDE DEF a
<1>2. DOMAIN a = 1 .. Len(q) + 1
  BY <1>1, LenProperties
<1>3. \A n \in 1 .. Len(q) : q[n] # r
  BY <1>1 DEF ToSet
<1>4. \A m, n \in 1 .. Len(q) : q[m] = q[n] => m = n
  BY <1>1 DEF IsInjective
<1>5. ASSUME NEW m \in 1 .. Len(q) + 1, NEW n \in 1 .. Len(q) + 1, a[m] = a[n]
      PROVE  m = n
  <2>1. CASE m \in 1 .. Len(q) /\ n \in 1 .. Len(q)
    BY <1>1, <1>4, <1>5, <2>1
  <2>2. CASE m = Len(q) + 1 \/ n = Len(q) + 1
    BY <1>1, <1>3, <1>5, <2>2
  <2>3. QED
    BY <1>1, <2>1, <2>2
<1>6. IsInjective(a)
  BY <1>2, <1>5 DEF IsInjective
<1>7. ToSet(a) = ToSet(q) \cup {r}
  <2>1. \A n \in 1 .. Len(q) + 1 : a[n] \in ToSet(q) \cup {r}
    BY <1>1 DEF ToSet
  <2>2. r \in ToSet(a) /\ \A n \in 1 .. Len(q) : q[n] \in ToSet(a)
    <3>1. Len(q) + 1 \in DOMAIN a /\ \A n \in 1 .. Len(q) : n \in DOMAIN a
      BY <1>1, <1>2
    <3>2. QED
      BY <1>1, <3>1 DEF ToSet
  <2>3. QED
    BY <1>1, <1>2, <2>1, <2>2 DEF ToSet
<1>8. QED
  BY <1>1, <1>6, <1>7 DEF a

(***************************************************************************)
(* The first timer fires.                                                  *)
(***************************************************************************)
LEMMA FiredFacts ==
    ASSUME NEW S, NEW q \in Seq(S), IsInjective(q), q # <<>>
    PROVE  /\ Tail(q) \in Seq(S)
           /\ IsInjective(Tail(q))
           /\ ToSet(Tail(q)) = ToSet(q) \ {Head(q)}
<1>1. /\ Tail(q) \in Seq(S) /\ Len(q) \in Nat \ {0} /\ DOMAIN q = 1 .. Len(q)
      /\ Len(Tail(q)) = Len(q) - 1
      /\ \A n \in 1 .. Len(q) - 1 : Tail(q)[n] = q[n + 1]
  BY LenProperties, HeadTailProperties, EmptySeq
<1>2. DOMAIN Tail(q) = 1 .. Len(q) - 1
  BY <1>1, LenProperties
<1>3. Head(q) = q[1]
  OBVIOUS
<1>4. \A m, n \in 1 .. Len(q) : q[m] = q[n] => m = n
  BY <1>1 DEF IsInjective
<1>5. ASSUME NEW m \in 1 .. Len(q) - 1, NEW n \in 1 .. Len(q) - 1, Tail(q)[m] = Tail(q)[n]
      PROVE  m = n
  <2>1. m + 1 \in 1 .. Len(q) /\ n + 1 \in 1 .. Len(q) /\ q[m + 1] = q[n + 1]
    BY <1>1, <1>5
  <2>2. m + 1 = n + 1
    BY <1>4, <2>1
  <2>3. QED
    BY <1>1, <2>2
<1>6. IsInjective(Tail(q))
  BY <1>2, <1>5 DEF IsInjective
<1>7. ToSet(Tail(q)) = ToSet(q) \ {Head(q)}
  <2>1. ASSUME NEW n \in 1 .. Len(q) - 1 PROVE Tail(q)[n] \in ToSet(q) \ {Head(q)}
    <3>1. n + 1 \in 1 .. Len(q) /\ n + 1 # 1 /\ 1 \in 1 .. Len(q) /\ Tail(q)[n] = q[n + 1]
      BY <1>1
    <3>2. q[n + 1] # q[1]
      BY <1>4, <3>1
    <3>3. QED
      BY <1>1, <1>3, <3>1, <3>2 DEF ToSet
  <2>2. ASSUME NEW m \in 1 .. Len(q), q[m] # Head(q) PROVE q[m] \in ToSet(Tail(q))
    <3>1. m - 1 \in 1 .. Len(q) - 1 /\ (m - 1) + 1 = m
      BY <1>1, <1>3, <2>2
    <3>2. Tail(q)[m - 1] = q[m]
      BY <1>1, <3>1
    <3>3. QED
      BY <1>2, <3>1, <3>2 DEF ToSet
  <2>3. QED
    BY <1>1, <1>2, <2>1, <2>2 DEF ToSet
<1>8. QED
  BY <1>1, <1>6, <1>7

-----------------------------------------------------------------------------
(* The client. *)

Requests == Conflicts \cup {Own}

\* The inductive invariant of the client: a request that waits and is not the one of the
\* controller has been overtaken, so that a timer may fire for another one.
ClientInv ==
    /\ phase \in [Requests -> {"idle", "waiting", "body"}]
    /\ controller \subseteq Requests /\ \A x, y \in controller : x = y
    /\ timers \in Seq(Requests) /\ IsInjective(timers)
    /\ ToSet(timers) \subseteq Client!Waiting
    /\ late \subseteq Requests
    /\ Client!Waiting \subseteq controller \cup late
    /\ Client!Waiting \subseteq ToSet(timers) \cup late

LEMMA ClientInvImplies == ClientInv => Client!TypeOK /\ Client!HangsOnlyWhenOvertaken
BY DEF ClientInv, Client!TypeOK, Client!HangsOnlyWhenOvertaken, Client!IsInjective,
       IsInjective, Client!ToSet, ToSet, Requests

LEMMA InitClientInv == Client!Init => ClientInv
<1> SUFFICES ASSUME Client!Init PROVE ClientInv
  OBVIOUS
<1>1. timers = <<>> /\ timers \in Seq(Requests) /\ IsInjective(timers) /\ ToSet(timers) = {}
  BY DEF Client!Init, IsInjective, ToSet
<1>2. /\ phase = [r \in Requests |-> "idle"] /\ controller = {} /\ late = {}
  BY DEF Client!Init, Requests
<1>3. Client!Waiting = {}
  BY <1>2 DEF Client!Waiting, Requests
<1>4. QED
  BY <1>1, <1>2, <1>3 DEF ClientInv

(***************************************************************************)
(* A request is sent: it takes the controller, and those that wait are     *)
(* overtaken.                                                              *)
(***************************************************************************)
LEMMA SendStep ==
    ASSUME ClientInv, NEW r \in Requests, Client!Send(r)
    PROVE  /\ ClientInv'
           /\ \A x \in Requests : phase'[x] = IF x = r THEN "waiting" ELSE phase[x]
<1>1. /\ phase[r] = "idle" /\ phase' = [phase EXCEPT ![r] = "waiting"]
      /\ controller' = {r} /\ timers' = Append(timers, r)
      /\ late' = (late \ {r}) \cup Client!Waiting
  BY DEF Client!Send
<1>2. \A x \in Requests : phase'[x] = IF x = r THEN "waiting" ELSE phase[x]
  BY <1>1 DEF ClientInv
<1>3. (Client!Waiting)' = Client!Waiting \cup {r} /\ r \notin Client!Waiting
  BY <1>1, <1>2 DEF Client!Waiting, Requests
<1>4. r \notin ToSet(timers)
  BY <1>3 DEF ClientInv
<1>5. /\ timers' \in Seq(Requests) /\ IsInjective(timers')
      /\ ToSet(timers') = ToSet(timers) \cup {r}
  BY <1>1, <1>4, ArmedFacts DEF ClientInv
<1>6. phase' \in [Requests -> {"idle", "waiting", "body"}]
  BY <1>1 DEF ClientInv
<1>7. Client!Waiting \subseteq Requests
  BY DEF Client!Waiting, Requests
<1>8. QED
  BY <1>1, <1>2, <1>3, <1>5, <1>6, <1>7 DEF ClientInv

(***************************************************************************)
(* A request goes on or ends, and its timer is cleared.                    *)
(***************************************************************************)
LEMMA ClearStep ==
    ASSUME ClientInv, NEW r \in Requests, NEW p \in {"idle", "body"},
           phase' = [phase EXCEPT ![r] = p],
           timers' = Client!Without(r),
           UNCHANGED <<controller, late>>
    PROVE  /\ ClientInv'
           /\ \A x \in Requests : phase'[x] = IF x = r THEN p ELSE phase[x]
<1>1. \A x \in Requests : phase'[x] = IF x = r THEN p ELSE phase[x]
  BY DEF ClientInv
<1>2. (Client!Waiting)' = Client!Waiting \ {r}
  BY <1>1 DEF Client!Waiting, Requests
<1>3. /\ timers' \in Seq(Requests) /\ IsInjective(timers')
      /\ ToSet(timers') = ToSet(timers) \ {r}
  <2>1. timers' = Client!Cleared(timers, {r}) /\ \A x, y \in {r} : x = y
    BY DEF Client!Without
  <2>2. QED
    BY <2>1, ClearedFacts DEF ClientInv
<1>4. phase' \in [Requests -> {"idle", "waiting", "body"}]
  BY DEF ClientInv
<1>5. QED
  BY <1>1, <1>2, <1>3, <1>4 DEF ClientInv

(***************************************************************************)
(* The first timer fires and aborts the request of the controller, its own *)
(* or not.                                                                 *)
(***************************************************************************)
LEMMA FireStep ==
    ASSUME ClientInv, Client!TimerFires
    PROVE  /\ ClientInv'
           /\ \A x \in Requests : phase'[x] = IF x \in controller THEN "idle" ELSE phase[x]
<1>1. /\ timers # <<>> /\ timers' = Client!Cleared(Tail(timers), controller)
      /\ phase' = [x \in Requests |->
                     IF x \in controller /\ phase[x] \in {"waiting", "body"} THEN "idle"
                     ELSE phase[x]]
      /\ UNCHANGED <<controller, late>>
  BY DEF Client!TimerFires, Client!Abort, Requests
<1>2. \A x \in Requests : phase'[x] = IF x \in controller THEN "idle" ELSE phase[x]
  BY <1>1 DEF ClientInv
<1>3. phase' \in [Requests -> {"idle", "waiting", "body"}]
  BY <1>1 DEF ClientInv
<1>4. (Client!Waiting)' = Client!Waiting \ controller
  BY <1>2 DEF Client!Waiting, Requests
<1>5. /\ Tail(timers) \in Seq(Requests) /\ IsInjective(Tail(timers))
      /\ ToSet(Tail(timers)) = ToSet(timers) \ {Head(timers)}
  BY <1>1, FiredFacts DEF ClientInv
<1>6. /\ timers' \in Seq(Requests) /\ IsInjective(timers')
      /\ ToSet(timers') = (ToSet(timers) \ {Head(timers)}) \ controller
  <2> DEFINE q == Tail(timers)
  <2>1. /\ q \in Seq(Requests) /\ IsInjective(q) /\ timers' = Client!Cleared(q, controller)
        /\ ToSet(q) = ToSet(timers) \ {Head(timers)}
        /\ \A x, y \in controller : x = y
    BY <1>1, <1>5 DEF ClientInv
  <2> HIDE DEF q
  <2>2. /\ Client!Cleared(q, controller) \in Seq(Requests)
        /\ IsInjective(Client!Cleared(q, controller))
        /\ ToSet(Client!Cleared(q, controller)) = ToSet(q) \ controller
    BY <2>1, ClearedFacts
  <2>3. QED
    BY <2>1, <2>2
<1>7. QED
  BY <1>1, <1>2, <1>3, <1>4, <1>6 DEF ClientInv

-----------------------------------------------------------------------------
(* The store and the client in step. *)

\* The inductive invariant: InStep, with what the client needs.
TabInv ==
    /\ ClientInv
    /\ turn \in {"none", "start", "upload", "middle", "download", "end", "resolve"}
    /\ (turn = "none") = (cycle = "none")
    /\ (phase[Own] # "idle") = (turn \in {"upload", "download", "resolve"})
    /\ \A c \in Conflicts : phase[c] # "idle" => CallsOf(c) # {}
    /\ left \in 0 .. MaxAuto

LEMMA InitTabInv == TabInit => TabInv
<1> SUFFICES ASSUME TabInit PROVE TabInv
  OBVIOUS
<1>1. ClientInv
  BY InitClientInv DEF TabInit
<1>2. \A r \in Requests : phase[r] = "idle"
  BY DEF TabInit, Client!Init, Requests
<1>3. cycle = "none" /\ turn = "none" /\ left = 0 /\ 0 \in 0 .. MaxAuto
  BY SyncTabAssumption DEF TabInit, Init
<1>4. QED
  BY <1>1, <1>2, <1>3 DEF TabInv, Requests

(***************************************************************************)
(* A request that throws, and is idle from then on, leaves the store in    *)
(* step.                                                                   *)
(***************************************************************************)
LEMMA ThrowsStep ==
    ASSUME TabInv, NEW r \in Requests, Throws(r), ClientInv', phase[r] # "idle",
           \A x \in Requests : phase'[x] = IF x = r THEN "idle" ELSE phase[x]
    PROVE  TabInv'
<1>1. CASE r = Own
  <2>1. turn \in {"upload", "download", "resolve"} /\ cycle # "none"
    BY <1>1 DEF TabInv
  <2>2. UNCHANGED calls
    BY <1>1 DEF Throws, OwnThrows, vars, FailCycle
  <2>3. \A c \in Conflicts : CallsOf(c)' = CallsOf(c)
    BY <2>2 DEF CallsOf
  <2>4. /\ turn' \in {"end", "none"} /\ (turn' = "none") = (cycle' = "none")
        /\ left' \in 0 .. MaxAuto
    <3>1. CASE turn = "resolve"
      BY <1>1, <2>1, <3>1 DEF Throws, OwnThrows, vars, TabInv
    <3>2. CASE turn # "resolve"
      BY <1>1, <3>2, SyncTabAssumption DEF Throws, OwnThrows, FailCycle
    <3>3. QED
      BY <3>1, <3>2
  <2>5. phase'[Own] = "idle" /\ \A c \in Conflicts : phase'[c] # "idle" => phase[c] # "idle"
    BY <1>1, SyncTabAssumption DEF Requests
  <2>6. \A c \in Conflicts : phase'[c] # "idle" => CallsOf(c)' # {}
    BY <2>3, <2>5 DEF TabInv
  <2>7. QED
    BY <2>4, <2>5, <2>6 DEF TabInv
<1>2. CASE r # Own
  <2>1. PICK call \in CallsOf(r) : ResolveFailed(call) /\ UNCHANGED cycleVars
    BY <1>2 DEF Throws, CallThrows
  <2>2. calls' = calls \ {call} /\ call.conflict = r /\ UNCHANGED <<cycle, turn, left>>
    BY <2>1 DEF ResolveFailed, CallsOf, cycleVars
  <2>3. phase'[Own] = phase[Own]
    BY <1>2 DEF Requests
  <2>4. ASSUME NEW c \in Conflicts, phase'[c] # "idle" PROVE CallsOf(c)' # {}
    <3>1. c # r /\ phase[c] # "idle"
      BY <2>4 DEF Requests
    <3>2. CallsOf(c)' = CallsOf(c)
      BY <2>2, <3>1 DEF CallsOf
    <3>3. QED
      BY <3>1, <3>2 DEF TabInv
  <2>5. QED
    BY <2>2, <2>3, <2>4 DEF TabInv
<1>3. QED
  BY <1>1, <1>2

(***************************************************************************)
(* The user and the interval: a cycle starts only when none runs.          *)
(***************************************************************************)
LEMMA DriveStep ==
    ASSUME TabInv, Drive
    PROVE  TabInv'
<1>1. UNCHANGED <<phase, controller, timers, late, left>>
  BY DEF Drive, clientVars
<1>2. UNCHANGED calls /\ (cycle' = cycle \/ (cycle = "none" /\ cycle' # "none"))
  <2>1. ASSUME NEW owner \in {"store", "service"}, Start(owner) PROVE cycle' # "none"
    BY <2>1 DEF Start
  <2>2. CASE SyncNow
    BY <2>1, <2>2 DEF SyncNow, CallSyncNow
  <2>3. ASSUME NEW auto \in BOOLEAN, EnableSync(auto)
        PROVE  UNCHANGED calls /\ (cycle' = cycle \/ (cycle = "none" /\ cycle' # "none"))
    BY <2>1, <2>3 DEF EnableSync, CallSyncNow
  <2>4. CASE PeriodicSync
    BY <2>1, <2>4 DEF PeriodicSync
  <2>5. CASE DisableSync
    BY <2>5 DEF DisableSync
  <2>6. CASE ResetSync
    BY <2>6 DEF ResetSync
  <2>7. CASE ClearConflicts
    BY <2>7 DEF ClearConflicts
  <2>8. ASSUME NEW auto \in BOOLEAN, UpdateInterval(auto)
        PROVE  UNCHANGED calls /\ (cycle' = cycle \/ (cycle = "none" /\ cycle' # "none"))
    BY <2>1, <2>8 DEF UpdateInterval
  <2>9. QED
    BY <2>2, <2>3, <2>4, <2>5, <2>6, <2>7, <2>8 DEF Drive
<1>3. turn' = IF cycle = "none" /\ cycle' # "none" THEN "start" ELSE turn
  BY DEF Drive
<1>4. ClientInv'
  BY <1>1 DEF TabInv, ClientInv, Client!Waiting
<1>5. \A c \in Conflicts : CallsOf(c)' = CallsOf(c)
  BY <1>2 DEF CallsOf
<1>6. QED
  BY <1>1, <1>2, <1>3, <1>4, <1>5 DEF TabInv

(***************************************************************************)
(* What the cycle does by itself between its requests.                     *)
(***************************************************************************)
LEMMA LocalStep ==
    ASSUME TabInv, Local
    PROVE  TabInv'
<1>1. CASE SendOwn
  <2>1. /\ turn \in {"start", "middle", "end"} /\ Client!Send(Own)
        /\ UNCHANGED <<cycle, calls>>
        /\ turn = "end" => left > 0
        /\ left' = IF turn = "end" THEN left - 1 ELSE left
    BY <1>1 DEF SendOwn, RequestAt, vars
  <2>2. turn' \in {"upload", "download", "resolve"}
    BY <1>1, <2>1 DEF SendOwn, RequestAt
  <2>3. ClientInv' /\ \A x \in Requests : phase'[x] = IF x = Own THEN "waiting" ELSE phase[x]
    BY <2>1, SendStep DEF TabInv, Requests
  <2>4. left' \in 0 .. MaxAuto
    BY <2>1, SyncTabAssumption DEF TabInv
  <2>5. \A c \in Conflicts : CallsOf(c)' = CallsOf(c) /\ phase'[c] = phase[c]
    BY <2>1, <2>3, SyncTabAssumption DEF CallsOf, Requests
  <2>6. phase'[Own] = "waiting"
    BY <2>3 DEF Requests
  <2>7. cycle # "none" /\ cycle' = cycle
    BY <2>1 DEF TabInv
  <2>8. \A c \in Conflicts : phase'[c] # "idle" => CallsOf(c)' # {}
    BY <2>5 DEF TabInv
  <2>9. QED
    BY <2>2, <2>3, <2>4, <2>6, <2>7, <2>8 DEF TabInv
<1>2. CASE FailLocally \/ Return
  <2>1. /\ turn \in {"start", "middle", "end"} /\ turn' = "none" /\ cycle' = "none"
        /\ left' \in {0, left}
        /\ UNCHANGED <<phase, controller, timers, late, calls>>
    BY <1>2 DEF FailLocally, Return, RequestAt, FailCycle, FinishCycle, clientVars
  <2>2. ClientInv'
    BY <2>1 DEF TabInv, ClientInv, Client!Waiting
  <2>3. \A c \in Conflicts : CallsOf(c)' = CallsOf(c)
    BY <2>1 DEF CallsOf
  <2>4. left' \in 0 .. MaxAuto
    BY <2>1, SyncTabAssumption DEF TabInv
  <2>5. phase[Own] = "idle"
    BY <2>1 DEF TabInv
  <2>6. QED
    BY <2>1, <2>2, <2>3, <2>4, <2>5 DEF TabInv
<1>3. QED
  BY <1>1, <1>2 DEF Local

(***************************************************************************)
(* The user resolves a conflict, and the answer is applied.                *)
(***************************************************************************)
LEMMA CallStep ==
    ASSUME TabInv, NEW c \in Conflicts, Resolve(c) \/ Apply(c)
    PROVE  TabInv'
<1>1. CASE Resolve(c)
  <2>1. /\ calls' = calls \cup {[conflict |-> c, pending |-> pending]}
        /\ Client!Send(c) /\ UNCHANGED <<cycle, turn, left>>
    BY <1>1 DEF Resolve, ResolveConflict, cycleVars
  <2>2. ClientInv' /\ \A x \in Requests : phase'[x] = IF x = c THEN "waiting" ELSE phase[x]
    BY <2>1, SendStep DEF TabInv, Requests
  <2>3. phase'[Own] = phase[Own]
    BY <2>2, SyncTabAssumption DEF Requests
  <2>4. CallsOf(c)' # {} /\ \A d \in Conflicts : CallsOf(d) \subseteq CallsOf(d)'
    <3> DEFINE call == [conflict |-> c, pending |-> pending]
    <3>1. call.conflict = c /\ call \in calls' /\ calls \subseteq calls'
      BY <2>1
    <3> HIDE DEF call
    <3>2. call \in CallsOf(c)'
      BY <3>1 DEF CallsOf
    <3>3. QED
      BY <3>1, <3>2 DEF CallsOf
  <2>5. \A d \in Conflicts : phase'[d] # "idle" => CallsOf(d)' # {}
    BY <2>2, <2>4 DEF TabInv, Requests
  <2>6. QED
    BY <2>1, <2>2, <2>3, <2>5 DEF TabInv
<1>2. CASE Apply(c)
  <2>1. PICK call \in CallsOf(c) : ResolveAnswered(call) \/ ResolveFailed(call)
    BY <1>2 DEF Apply
  <2>2. /\ calls' = calls \ {call} /\ call.conflict = c /\ phase[c] = "idle"
        /\ UNCHANGED <<cycle, turn, left, phase, controller, timers, late>>
    BY <1>2, <2>1 DEF Apply, ResolveAnswered, ResolveFailed, CallsOf, cycleVars, clientVars
  <2>3. ClientInv'
    BY <2>2 DEF TabInv, ClientInv, Client!Waiting
  <2>4. ASSUME NEW d \in Conflicts, phase[d] # "idle" PROVE CallsOf(d)' # {}
    <3>1. CallsOf(d)' = CallsOf(d)
      BY <2>2, <2>4 DEF CallsOf
    <3>2. QED
      BY <2>4, <3>1 DEF TabInv
  <2>5. QED
    BY <2>2, <2>3, <2>4 DEF TabInv
<1>3. QED
  BY <1>1, <1>2

(***************************************************************************)
(* The requests and their timers.                                          *)
(***************************************************************************)
LEMMA RequestStep ==
    ASSUME TabInv, NEW r \in Requests, Headers(r) \/ NetworkError(r) \/ Body(r)
    PROVE  TabInv'
<1>0. ClientInv /\ Own \in Requests /\ Conflicts \subseteq Requests
  BY DEF TabInv, Requests
<1>1. CASE Headers(r)
  <2>1. /\ phase[r] = "waiting" /\ phase' = [phase EXCEPT ![r] = "body"]
        /\ timers' = Client!Without(r) /\ UNCHANGED <<controller, late>>
        /\ UNCHANGED <<cycle, calls, turn, left>>
    BY <1>1 DEF Headers, Client!Headers, vars, cycleVars
  <2>2. ClientInv' /\ \A x \in Requests : phase'[x] = IF x = r THEN "body" ELSE phase[x]
    BY <1>0, <2>1, ClearStep
  <2>3. \A x \in Requests : (phase'[x] # "idle") = (phase[x] # "idle")
    BY <2>1, <2>2
  <2>4. \A c \in Conflicts : CallsOf(c)' = CallsOf(c)
    BY <2>1 DEF CallsOf
  <2>5. QED
    BY <1>0, <2>1, <2>2, <2>3, <2>4 DEF TabInv
<1>2. CASE NetworkError(r) \/ Body(r)
  <2>1. /\ phase[r] # "idle" /\ phase' = [phase EXCEPT ![r] = "idle"]
        /\ timers' = Client!Without(r) /\ UNCHANGED <<controller, late>>
    BY <1>2 DEF NetworkError, Body, Client!NetworkError, Client!Body
  <2>2. ClientInv' /\ \A x \in Requests : phase'[x] = IF x = r THEN "idle" ELSE phase[x]
    BY <1>0, <2>1, ClearStep
  <2>3. CASE Throws(r)
    BY <2>1, <2>2, <2>3, ThrowsStep
  <2>4. CASE r = Own /\ OwnAnswered
    <3>1. /\ turn \in {"upload", "download", "resolve"} /\ turn' \in {"middle", "end"}
          /\ UNCHANGED <<cycle, calls>>
      BY <2>1, <2>4 DEF TabInv, OwnAnswered, vars
    <3>2. left' \in 0 .. MaxAuto
      BY <2>4 DEF OwnAnswered, TabInv
    <3>3. \A c \in Conflicts : CallsOf(c)' = CallsOf(c) /\ phase'[c] = phase[c]
      BY <1>0, <2>2, <2>4, <3>1, SyncTabAssumption DEF CallsOf
    <3>4. phase'[Own] = "idle" /\ cycle # "none"
      BY <1>0, <2>2, <2>4, <3>1 DEF TabInv
    <3>5. \A c \in Conflicts : phase'[c] # "idle" => CallsOf(c)' # {}
      BY <3>3 DEF TabInv
    <3>6. QED
      BY <2>2, <3>1, <3>2, <3>4, <3>5 DEF TabInv
  <2>5. CASE r # Own /\ UNCHANGED <<vars, cycleVars>>
    <3>1. UNCHANGED <<cycle, calls, turn, left>>
      BY <2>5 DEF vars, cycleVars
    <3>2. phase'[Own] = phase[Own]
      BY <1>0, <2>2, <2>5
    <3>3. \A c \in Conflicts : CallsOf(c)' = CallsOf(c) /\ (phase'[c] # "idle" => phase[c] # "idle")
      BY <1>0, <2>2, <3>1 DEF CallsOf
    <3>4. \A c \in Conflicts : phase'[c] # "idle" => CallsOf(c)' # {}
      BY <3>3 DEF TabInv
    <3>5. QED
      BY <2>2, <3>1, <3>2, <3>4 DEF TabInv
  <2>6. QED
    BY <1>2, <2>3, <2>4, <2>5 DEF NetworkError, Body
<1>3. QED
  BY <1>1, <1>2

LEMMA TimerStep ==
    ASSUME TabInv, TimerFires
    PROVE  TabInv'
<1> DEFINE aborted == {r \in controller : phase[r] # "idle"}
<1>0. ClientInv /\ Own \in Requests /\ Conflicts \subseteq Requests
  BY DEF TabInv, Requests
<1>1. ClientInv' /\ \A x \in Requests : phase'[x] = IF x \in controller THEN "idle" ELSE phase[x]
  BY <1>0, FireStep DEF TimerFires
<1>2. CASE aborted = {}
  <2>1. UNCHANGED <<cycle, calls, turn, left>>
    BY <1>2 DEF TimerFires, vars, cycleVars
  <2>2. \A x \in Requests : phase'[x] = phase[x]
    BY <1>1, <1>2
  <2>3. \A c \in Conflicts : CallsOf(c)' = CallsOf(c)
    BY <2>1 DEF CallsOf
  <2>4. QED
    BY <1>0, <1>1, <2>1, <2>2, <2>3 DEF TabInv
<1>3. CASE aborted # {}
  <2>1. PICK r \in aborted : Throws(r)
    BY <1>3 DEF TimerFires
  <2>2. r \in Requests /\ controller = {r} /\ phase[r] # "idle"
    BY <1>0 DEF ClientInv
  <2>3. \A x \in Requests : phase'[x] = IF x = r THEN "idle" ELSE phase[x]
    BY <1>1, <2>2
  <2>4. QED
    BY <1>1, <2>1, <2>2, <2>3, ThrowsStep
<1>4. QED
  BY <1>2, <1>3

LEMMA NextTabInv == TabInv /\ [TabNext]_tabVars => TabInv'
<1> SUFFICES ASSUME TabInv, [TabNext]_tabVars PROVE TabInv'
  OBVIOUS
<1>1. CASE UNCHANGED tabVars
  <2>1. UNCHANGED <<phase, controller, timers, late, calls, cycle, turn, left>>
    BY <1>1 DEF tabVars, vars, clientVars, cycleVars
  <2>2. ClientInv'
    BY <2>1 DEF TabInv, ClientInv, Client!Waiting
  <2>3. \A c \in Conflicts : CallsOf(c)' = CallsOf(c)
    BY <2>1 DEF CallsOf
  <2>4. QED
    BY <2>1, <2>2, <2>3 DEF TabInv
<1>2. CASE TabNext
  BY <1>2, DriveStep, LocalStep, CallStep, RequestStep, TimerStep, Zenon DEF TabNext, Requests
<1>3. QED
  BY <1>1, <1>2

THEOREM TabInvariance == TabSpec => []TabInv
BY InitTabInv, NextTabInv, PTL DEF TabSpec

(***************************************************************************)
(* The requests of the client are those that the store waits for, however  *)
(* timers, answers and errors of one controller are interleaved.           *)
(***************************************************************************)
THEOREM InStepHolds == TabSpec => []InStep
<1>1. TabInv => InStep
  BY ClientInvImplies DEF TabInv, InStep
<1>2. QED
  BY <1>1, TabInvariance, PTL

(***************************************************************************)
(* A request waits without a timer only if another one was sent while it   *)
(* waited (the one abortController of SyncClient.request).                 *)
(***************************************************************************)
THEOREM HangsOnlyWhenOvertakenHolds == TabSpec => []HangsOnlyWhenOvertaken
<1>1. TabInv => HangsOnlyWhenOvertaken
  BY ClientInvImplies DEF TabInv, HangsOnlyWhenOvertaken
<1>2. QED
  BY <1>1, TabInvariance, PTL

(***************************************************************************)
(* Nothing waits for nothing: a cycle, and a call of resolveConflict, that *)
(* was not overtaken has a local step to take, or its body is being read,  *)
(* or a timer is armed. CallEnds and the fairness of ImplementsStore rest  *)
(* on it (syncRequest, sync-client.ts).                                    *)
(***************************************************************************)
THEOREM NeverStuck ==
    TabSpec => [](/\ cycle # "none" =>
                       \/ turn \in DOMAIN RequestAt \/ phase[Own] = "body"
                       \/ timers # <<>> \/ Own \in late
                  /\ \A c \in Conflicts : CallsOf(c) # {} =>
                       phase[c] \in {"idle", "body"} \/ timers # <<>> \/ c \in late)
<1> SUFFICES ASSUME TabInv
             PROVE  /\ cycle # "none" =>
                         \/ turn \in DOMAIN RequestAt \/ phase[Own] = "body"
                         \/ timers # <<>> \/ Own \in late
                    /\ \A c \in Conflicts : CallsOf(c) # {} =>
                         phase[c] \in {"idle", "body"} \/ timers # <<>> \/ c \in late
  BY TabInvariance, PTL
<1>1. ClientInv /\ Own \in Requests /\ Conflicts \subseteq Requests
  BY DEF TabInv, Requests
<1>2. ASSUME NEW r \in Requests, phase[r] = "waiting", r \notin late
      PROVE  timers # <<>>
  <2>1. r \in ToSet(timers)
    BY <1>1, <1>2 DEF ClientInv, Client!Waiting, Requests
  <2>2. QED
    BY <2>1 DEF ToSet
<1>3. \A r \in Requests : phase[r] \in {"idle", "waiting", "body"}
  BY <1>1 DEF ClientInv
<1>4. ASSUME cycle # "none", turn \notin DOMAIN RequestAt
      PROVE  phase[Own] # "idle"
  <2>1. turn \notin {"start", "middle", "end", "none"}
    BY <1>4 DEF RequestAt, TabInv
  <2>2. QED
    BY <2>1 DEF TabInv
<1>5. QED
  BY <1>1, <1>2, <1>3, <1>4

(***************************************************************************)
(* Whichever timer fires, it aborts every request that waits and was not   *)
(* overtaken, its own or not: all of them are the shared controller's      *)
(* (this.abortController.abort() in syncRequest, sync-client.ts).          *)
(***************************************************************************)
THEOREM AnyTimerEndsTheRest ==
    TabSpec => [][TimerFires => \A r \in Requests \ late : phase'[r] # "waiting"]_tabVars
<1>1. TabInv /\ [TabNext]_tabVars =>
        [TimerFires => \A r \in Requests \ late : phase'[r] # "waiting"]_tabVars
  <2> SUFFICES ASSUME TabInv, TimerFires, NEW r \in Requests \ late
               PROVE  phase'[r] # "waiting"
    OBVIOUS
  <2>1. ClientInv /\ phase'[r] = IF r \in controller THEN "idle" ELSE phase[r]
    BY FireStep DEF TabInv, TimerFires
  <2>2. QED
    BY <2>1 DEF ClientInv, Client!Waiting, Requests
<1>2. QED
  BY <1>1, TabInvariance, PTL DEF TabSpec

=============================================================================
