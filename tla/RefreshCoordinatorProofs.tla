---------------------- MODULE RefreshCoordinatorProofs ----------------------
(***************************************************************************)
(* Proofs about RefreshCoordinator, for every set of sources, any number   *)
(* of overlapping calls and every bound on the generations.                *)
(*                                                                         *)
(* The argument of the coordinator is "a request may act only while its    *)
(* generation is the newest of its source".  The inductive invariant says  *)
(* why that suffices: calls in flight have distinct generations, none is   *)
(* ahead of the counter, and nothing the user sees is as new as a call     *)
(* that is still awaiting.  The second part is about the chains of cache   *)
(* operations: their order and what a deletion leaves.  On both rests the  *)
(* third, that the coordinator with its cache implements LastKnownGood.    *)
(***************************************************************************)
EXTENDS RefreshCoordinator, SequenceTheorems, TLAPS

-----------------------------------------------------------------------------
(* Chains of cache operations.                                             *)

\* Appending keeps what is there and puts the operation last.
LEMMA AppendedChain ==
  ASSUME NEW q \in Seq(CacheOp), NEW op \in CacheOp
  PROVE  /\ Append(q, op) \in Seq(CacheOp)
         /\ Len(Append(q, op)) = Len(q) + 1
         /\ \A i \in 1..Len(q) : Append(q, op)[i] = q[i]
         /\ Append(q, op)[Len(q) + 1] = op
  BY AppendProperties

\* What is left of a chain when its first n operations have settled.
LEMMA SettledChain ==
  ASSUME NEW q \in Seq(CacheOp), NEW n \in 1..Len(q)
  PROVE  /\ SubSeq(q, n + 1, Len(q)) \in Seq(CacheOp)
         /\ Len(SubSeq(q, n + 1, Len(q))) = Len(q) - n
         /\ \A i \in 1..Len(q) - n : SubSeq(q, n + 1, Len(q))[i] = q[i + n]
<1>1. Len(q) \in Nat /\ \A i \in n + 1..Len(q) : q[i] \in CacheOp
  BY LenProperties, ElementOfSeq
<1>2. /\ SubSeq(q, n + 1, Len(q)) \in Seq(CacheOp)
      /\ Len(SubSeq(q, n + 1, Len(q))) =
           IF n + 1 <= Len(q) THEN Len(q) - (n + 1) + 1 ELSE 0
      /\ \A i \in 1..Len(q) - (n + 1) + 1 :
           SubSeq(q, n + 1, Len(q))[i] = q[n + 1 + i - 1]
  <2>1. n + 1 \in Int /\ Len(q) \in Int
    BY <1>1
  <2>2. QED  BY <1>1, <2>1, SubSeqProperties
<1>3. QED  BY <1>1, <1>2

\* The head of a chain with work to do is one of its operations.
LEMMA HeadOfChain ==
  ASSUME NEW q \in Seq(CacheOp), q # <<>>
  PROVE  Head(q) \in CacheOp /\ Head(q) = q[1] /\ Len(q) \in Nat \ {0}
BY HeadTailProperties, EmptySeq, LenProperties

LEMMA OpTypes ==
  /\ NoSnapshot \in Snapshot
  /\ Delete \in CacheOp
  /\ \A g \in Nat : Clear(g) \in CacheOp
  /\ \A g \in Nat, s \in Snapshot : Write(g, s) \in CacheOp
BY DEF NoSnapshot, Snapshot, Quality, Delete, Clear, Write, CacheOp

-----------------------------------------------------------------------------
(* Type correctness.                                                       *)

\* A refresh that parsed its body has a verdict on it, and an invalid one
\* does not get as far as the diff.
AnswerInv ==
    \A r \in Reqs :
      /\ pc[r] \in {"digesting", "diffing"} => candidate[r] # "none"
      /\ pc[r] = "diffing" => candidate[r] # "invalid"

TypeInv == TypeOK /\ AnswerInv

LEMMA TypeInvInit == Init => TypeInv
BY EmptySeq DEF Init, TypeInv, TypeOK, AnswerInv, NoSnapshot, Snapshot,
                Quality, Awaiting

LEMMA TypeInvStep == TypeInv /\ [Next]_vars => TypeInv'
<1> SUFFICES ASSUME TypeInv, [Next]_vars PROVE TypeInv'
  OBVIOUS
<1> USE DEF TypeInv, TypeOK, AnswerInv
<1>1. ASSUME NEW r \in Reqs, NEW k \in Keys, Refresh(r, k) PROVE TypeInv'
  <2>1. NextGen(k) \in Nat /\ active[k].quality \in Quality
    <3>1. generations[k] \in Nat /\ active[k] \in Snapshot
      OBVIOUS
    <3>2. NextGen(k) \in Nat
      BY <3>1, Z3 DEF NextGen
    <3>3. active[k].quality \in Quality
      BY <3>1, Z3 DEF Snapshot
    <3>4. QED  BY <3>2, <3>3
  <2>2. captured' \in [Reqs -> Quality]
    BY <1>1, <2>1 DEF Refresh
  <2>3. /\ candidate' \in [Reqs -> Quality \cup {"invalid"}]
        /\ pc' \in [Reqs -> Awaiting \cup {"idle", "persisting"}]
    BY <1>1 DEF Refresh, MoveTo, Awaiting, Quality
  <2>4. QED
    BY <1>1, <2>1, <2>2, <2>3 DEF Refresh, MoveTo, ownerVars, repoVars
<1>2. ASSUME NEW r \in Reqs, Superseded(r) PROVE TypeInv'
  BY <1>2 DEF Superseded, Finish, ownerVars, repoVars
<1>3. ASSUME NEW r \in Reqs, Start(r) PROVE TypeInv'
  BY <1>3 DEF Start, MoveTo, Awaiting, coordVars, repoVars
<1>4. ASSUME NEW r \in Reqs, Fetched(r) PROVE TypeInv'
  BY <1>4 DEF Fetched, MoveTo, Awaiting, Quality, coordVars, ownerVars,
              repoVars
<1>5. ASSUME NEW r \in Reqs, Digested(r) PROVE TypeInv'
  BY <1>5 DEF Digested, MoveTo, Awaiting, coordVars, ownerVars, repoVars
<1>6. ASSUME NEW r \in Reqs, Failed(r) PROVE TypeInv'
  BY <1>6 DEF Failed, Finish, ownerVars, repoVars
<1>7. ASSUME NEW r \in Reqs, AskConfirmation(r) PROVE TypeInv'
  BY <1>7 DEF AskConfirmation, Finish, repoVars
<1>8. ASSUME NEW r \in Reqs, Commit(r) PROVE TypeInv'
  <2> DEFINE k == reqKey[r]
             s == [gen |-> reqGen[r], quality |-> candidate[r]]
  <2>1. k \in Keys /\ s \in Snapshot
    BY <1>8 DEF Commit, Snapshot, Quality
  <2>2. Append(cacheWrites[k], Write(reqGen[r], s)) \in Seq(CacheOp)
    BY <2>1, OpTypes, AppendedChain
  <2>3. cacheWrites' \in [Keys -> Seq(CacheOp)]
    BY <1>8, <2>1, <2>2 DEF Commit, Enqueue
  <2>4. /\ active' \in [Keys -> Snapshot] /\ pending' \in [Keys -> Nat]
        /\ cacheError' \in [Keys -> BOOLEAN]
    <3>1. CASE Listening(r)
      <4>1. /\ active' = [active EXCEPT ![k] = s]
            /\ pending' = [pending EXCEPT ![k] = 0]
            /\ cacheError' = [cacheError EXCEPT ![k] = FALSE]
        BY <1>8, <3>1, Zenon DEF Commit
      <4>2. QED  BY <2>1, <4>1
    <3>2. CASE ~Listening(r)
      BY <1>8, <3>2 DEF Commit, Listening
    <3>3. QED  BY <3>1, <3>2
  <2>5. QED
    BY <1>8, <2>3, <2>4 DEF Commit, MoveTo, repoVars
<1>9. ASSUME NEW r \in Reqs, Persisted(r) PROVE TypeInv'
  BY <1>9 DEF Persisted, Finish, ownerVars, repoVars
<1>10. ASSUME NEW k \in Keys, Cancel(k) PROVE TypeInv'
  BY <1>10, OpTypes DEF Cancel, Outdate, NextGen, reqVars, repoVars
<1>11. ASSUME NEW k \in Keys, DeleteSource(k) PROVE TypeInv'
  <2>1. cacheWrites' \in [Keys -> Seq(CacheOp)]
    BY <1>11, OpTypes, AppendedChain DEF DeleteSource, Enqueue
  <2>2. active' \in [Keys -> Snapshot] /\ deletedSources' \subseteq Keys
    BY <1>11, OpTypes DEF DeleteSource
  <2>3. QED
    BY <1>11, <2>1, <2>2 DEF DeleteSource, Outdate, NextGen, reqVars, repoVars
<1>12. ASSUME NEW k \in Keys, Adopt(k) PROVE TypeInv'
  <2>1. PICK q \in {"usable", "empty"} :
          LET s == [gen |-> NextGen(k), quality |-> q] IN
          /\ active' = [active EXCEPT ![k] = s]
          /\ \/ UNCHANGED cacheWrites
             \/ Enqueue(k, Write(0, s))
    BY <1>12 DEF Adopt
  <2> DEFINE s == [gen |-> NextGen(k), quality |-> q]
  <2>2. s \in Snapshot
    BY DEF Snapshot, Quality, NextGen
  <2>3. Append(cacheWrites[k], Write(0, s)) \in Seq(CacheOp)
    BY <2>2, OpTypes, AppendedChain
  <2>4. cacheWrites' \in [Keys -> Seq(CacheOp)]
    BY <2>1, <2>3 DEF Enqueue
  <2>5. active' \in [Keys -> Snapshot]
    BY <2>1, <2>2
  <2>6. QED
    BY <1>12, <2>4, <2>5 DEF Adopt, Outdate, NextGen, reqVars, repoVars
<1>13. ASSUME NEW k \in Keys, ApplyEmpty(k) PROVE TypeInv'
  <2> DEFINE s == [gen |-> pending[k], quality |-> "empty"]
  <2>1. s \in Snapshot
    BY DEF Snapshot, Quality
  <2>2. Append(cacheWrites[k], Write(pending[k], s)) \in Seq(CacheOp)
    BY <2>1, OpTypes, AppendedChain
  <2>3. cacheWrites' \in [Keys -> Seq(CacheOp)]
    BY <1>13, <2>2 DEF ApplyEmpty, Enqueue
  <2>4. QED
    BY <1>13, <2>1, <2>3 DEF ApplyEmpty, reqVars, repoVars
<1>14. ASSUME NEW k \in Keys, KeepCurrent(k) PROVE TypeInv'
  BY <1>14 DEF KeepCurrent, coordVars, reqVars, repoVars
<1>15. ASSUME NEW k \in Keys, ClearCache(k) PROVE TypeInv'
  <2>1. NextGen(k) \in Nat
    BY DEF NextGen
  <2>2. cacheWrites' \in [Keys -> Seq(CacheOp)]
    BY <1>15, <2>1, OpTypes, AppendedChain DEF ClearCache, Enqueue
  <2>3. QED
    BY <1>15, <2>1, <2>2 DEF ClearCache, Outdate, reqVars, ownerVars,
                              repoVars
<1>16. ASSUME NEW k \in Keys, NEW kind, NEW ok \in BOOLEAN,
              Settle(k, kind, ok)
       PROVE  /\ cacheWrites' \in [Keys -> Seq(CacheOp)]
              /\ stored' \in [Keys -> Snapshot]
              /\ storageFailed' \in [Keys -> BOOLEAN]
  <2>1. Head(cacheWrites[k]).snap \in Snapshot
    BY <1>16, HeadOfChain DEF Settle, CacheOp
  <2>2. cacheWrites' \in [Keys -> Seq(CacheOp)]
    BY <1>16, SettledChain DEF Settle
  <2>3. QED  BY <1>16, <2>1, <2>2 DEF Settle
<1>17. ASSUME NEW k \in Keys, CacheStep(k) PROVE TypeInv'
  <2>1. CASE SettleWrite(k)
    <3>1. PICK ok \in BOOLEAN, heard \in BOOLEAN :
            /\ Settle(k, "write", ok)
            /\ cacheError' = [cacheError EXCEPT ![k] = @ \/ heard]
      BY <2>1, Zenon DEF SettleWrite
    <3>2. UNCHANGED <<active, requestGeneration, pending>>
      BY <2>1, Zenon DEF SettleWrite
    <3>3. cacheError' \in [Keys -> BOOLEAN]
      <4>1. cacheError \in [Keys -> BOOLEAN]
        OBVIOUS
      <4>2. QED  BY <3>1, <4>1, Zenon
    <3>4. UNCHANGED <<generations, activeRequests, deletedSources, reqVars>>
      BY <3>1, Zenon DEF Settle
    <3>5. /\ cacheWrites' \in [Keys -> Seq(CacheOp)]
          /\ stored' \in [Keys -> Snapshot]
          /\ storageFailed' \in [Keys -> BOOLEAN]
      BY <1>16, <3>1
    <3>6. QED  BY <3>2, <3>3, <3>4, <3>5 DEF reqVars
  <2>2. CASE SettleDelete(k)
    BY <1>16, <2>2 DEF SettleDelete, Settle, reqVars, ownerVars
  <2>3. CASE SettleClear(k)
    <3>1. PICK ok \in BOOLEAN :
            /\ Settle(k, "clear", ok)
            /\ \/ /\ active' = [active EXCEPT ![k] = NoSnapshot]
                  /\ requestGeneration' = [requestGeneration EXCEPT ![k] = 0]
                  /\ pending' = [pending EXCEPT ![k] = 0]
                  /\ cacheError' = [cacheError EXCEPT ![k] = ~ok]
               \/ UNCHANGED ownerVars
      BY <2>3, Zenon DEF SettleClear
    <3>2. \/ /\ active' = [active EXCEPT ![k] = NoSnapshot]
             /\ requestGeneration' = [requestGeneration EXCEPT ![k] = 0]
             /\ pending' = [pending EXCEPT ![k] = 0]
          \/ UNCHANGED <<active, requestGeneration, pending>>
      BY <3>1, Zenon DEF ownerVars
    <3>3. cacheError' \in [Keys -> BOOLEAN]
      <4>1. cacheError \in [Keys -> BOOLEAN]
        OBVIOUS
      <4>2. [cacheError EXCEPT ![k] = ~ok] \in [Keys -> BOOLEAN]
        BY <4>1, Zenon
      <4>3. QED  BY <3>1, <4>1, <4>2, Zenon DEF ownerVars
    <3>4. /\ active' \in [Keys -> Snapshot]
          /\ requestGeneration' \in [Keys -> Nat]
          /\ pending' \in [Keys -> Nat]
      <4>1. NoSnapshot \in Snapshot
        BY OpTypes
      <4>2. CASE UNCHANGED <<active, requestGeneration, pending>>
        BY <4>2
      <4>3. CASE /\ active' = [active EXCEPT ![k] = NoSnapshot]
                 /\ requestGeneration' = [requestGeneration EXCEPT ![k] = 0]
                 /\ pending' = [pending EXCEPT ![k] = 0]
        BY <4>1, <4>3
      <4>4. QED  BY <3>2, <4>2, <4>3
    <3>5. /\ UNCHANGED <<generations, activeRequests, deletedSources, reqVars>>
          /\ cacheWrites' \in [Keys -> Seq(CacheOp)]
          /\ stored' \in [Keys -> Snapshot]
          /\ storageFailed' \in [Keys -> BOOLEAN]
      BY <1>16, <3>1, Zenon DEF Settle
    <3>6. QED  BY <3>3, <3>4, <3>5 DEF reqVars
  <2>4. QED  BY <1>17, <2>1, <2>2, <2>3 DEF CacheStep
<1>18. CASE UNCHANGED vars
  BY <1>18 DEF vars, coordVars, reqVars, ownerVars, repoVars
<1>19. QED
  BY <1>1, <1>2, <1>3, <1>4, <1>5, <1>6, <1>7, <1>8, <1>9, <1>10, <1>11,
     <1>12, <1>13, <1>14, <1>15, <1>17, <1>18 DEF Next, Progress, User

LEMMA TypeInvariance == Spec => []TypeInv
BY TypeInvInit, TypeInvStep, PTL DEF Spec

\* Every variable of the coordinator, its chains and the store keeps its type.
THEOREM TypeCorrect == Spec => []TypeOK
<1>1. TypeInv => TypeOK
  BY DEF TypeInv
<1>2. QED  BY <1>1, TypeInvariance, PTL

-----------------------------------------------------------------------------
(* Calls in flight.                                                        *)

\* No call is ahead of the generation counter of its source, and no two
\* calls for one source have the same generation.
RequestInv ==
    /\ \A r \in Reqs : InFlight(r) =>
         reqGen[r] > 0 /\ reqGen[r] <= generations[reqKey[r]]
    /\ \A r, s \in Reqs :
         /\ InFlight(r) /\ InFlight(s)
         /\ reqKey[r] = reqKey[s] /\ reqGen[r] = reqGen[s]
         => r = s

CallInv == RequestInv /\ RegisteredIsInFlight

LEMMA CallInvInit == Init => CallInv
BY DEF Init, CallInv, RequestInv, RegisteredIsInFlight, InFlight

LEMMA CallTypes ==
  ASSUME TypeInv
  PROVE  /\ \A r \in Reqs : reqKey[r] \in Keys /\ reqGen[r] \in Nat
         /\ \A k \in Keys : generations[k] \in Nat /\ activeRequests[k] \in Nat
BY DEF TypeInv, TypeOK

LEMMA CallDomains ==
  ASSUME TypeInv
  PROVE  /\ DOMAIN pc = Reqs /\ DOMAIN reqKey = Reqs /\ DOMAIN reqGen = Reqs
         /\ DOMAIN generations = Keys /\ DOMAIN activeRequests = Keys
         /\ pc = [r \in Reqs |-> pc[r]]
         /\ reqKey = [r \in Reqs |-> reqKey[r]]
         /\ reqGen = [r \in Reqs |-> reqGen[r]]
         /\ generations = [k \in Keys |-> generations[k]]
         /\ activeRequests = [k \in Keys |-> activeRequests[k]]
BY DEF TypeInv, TypeOK

LEMMA CallInvStep == TypeInv /\ CallInv /\ [Next]_vars => CallInv'
<1> SUFFICES ASSUME TypeInv, CallInv, [Next]_vars PROVE CallInv'
  OBVIOUS
<1>t. /\ \A r \in Reqs : reqKey[r] \in Keys /\ reqGen[r] \in Nat
      /\ \A k \in Keys : generations[k] \in Nat /\ activeRequests[k] \in Nat
  BY CallTypes
<1> USE DEF CallInv, RequestInv, RegisteredIsInFlight, InFlight
<1>1. ASSUME NEW r \in Reqs, NEW k \in Keys, Refresh(r, k) PROVE CallInv'
  <2>1. /\ pc[r] = "idle"
        /\ \A s \in Reqs :
             /\ pc'[s] = IF s = r THEN "hashing" ELSE pc[s]
             /\ reqKey'[s] = IF s = r THEN k ELSE reqKey[s]
             /\ reqGen'[s] = IF s = r THEN generations[k] + 1 ELSE reqGen[s]
    BY <1>1, CallDomains DEF Refresh, NextGen, MoveTo
  <2>2. \A l \in Keys :
          /\ generations'[l] =
               IF l = k THEN generations[k] + 1 ELSE generations[l]
          /\ activeRequests'[l] =
               IF l = k THEN generations[k] + 1 ELSE activeRequests[l]
    BY <1>1, CallDomains DEF Refresh, NextGen
  <2>3. RequestInv'
    BY <1>t, <2>1, <2>2
  <2>4. RegisteredIsInFlight'
    BY <1>t, <2>1, <2>2
  <2>5. QED  BY <2>3, <2>4
\* A call that goes on to its next await stays in flight.
<1>2. ASSUME NEW r \in Reqs, pc[r] # "idle",
             \/ MoveTo(r, "fetching")  \/ MoveTo(r, "digesting")
             \/ MoveTo(r, "diffing")   \/ MoveTo(r, "persisting"),
             UNCHANGED <<generations, activeRequests, reqKey, reqGen>>
      PROVE  CallInv'
  <2>1. \A s \in Reqs : (pc'[s] # "idle") <=> (pc[s] # "idle")
    BY <1>2, CallDomains DEF MoveTo
  <2>2. QED  BY <1>2, <2>1
\* A call that returns unregisters itself, and only itself.
<1>3. ASSUME NEW r \in Reqs, pc[r] # "idle", Finish(r),
             UNCHANGED <<generations, reqKey, reqGen>>
      PROVE  CallInv'
  <2>1. \A s \in Reqs : pc'[s] = IF s = r THEN "idle" ELSE pc[s]
    BY <1>3, CallDomains DEF Finish
  <2>2. RequestInv'
    BY <1>3, <2>1
  <2>3. ASSUME NEW k \in Keys, activeRequests'[k] # 0
        PROVE  /\ activeRequests'[k] = activeRequests[k]
               /\ k = reqKey[r] => generations[k] # reqGen[r]
    BY <1>3, <2>3, CallDomains DEF Finish, IsCurrent
  <2>4. RegisteredIsInFlight'
    BY <1>3, <2>1, <2>3
  <2>5. QED  BY <2>2, <2>4
\* Outdating a source unregisters its newest call.
<1>4. ASSUME NEW k \in Keys, Outdate(k), UNCHANGED reqVars
      PROVE  CallInv'
  <2>1. \A l \in Keys :
          /\ generations'[l] =
               IF l = k THEN generations[k] + 1 ELSE generations[l]
          /\ activeRequests'[l] = IF l = k THEN 0 ELSE activeRequests[l]
    BY <1>4, CallDomains DEF Outdate, NextGen
  <2>2. QED  BY <1>4, <1>t, <2>1 DEF reqVars
<1>5. ASSUME UNCHANGED <<generations, activeRequests, reqVars>>
      PROVE  CallInv'
  BY <1>5 DEF reqVars
<1>6. ASSUME NEW r \in Reqs, Progress(r) PROVE CallInv'
  <2>1. CASE Superseded(r)
    BY <2>1, <1>3 DEF Superseded, Awaiting
  <2>2. CASE Start(r)
    BY <2>2, <1>2 DEF Start, coordVars
  <2>3. CASE Fetched(r)
    BY <2>3, <1>2 DEF Fetched, coordVars
  <2>4. CASE Digested(r)
    BY <2>4, <1>2 DEF Digested, coordVars
  <2>5. CASE Failed(r)
    BY <2>5, <1>3 DEF Failed
  <2>6. CASE AskConfirmation(r)
    BY <2>6, <1>3 DEF AskConfirmation
  <2>7. CASE Commit(r)
    BY <2>7, <1>2 DEF Commit
  <2>8. CASE Persisted(r)
    BY <2>8, <1>3 DEF Persisted
  <2>9. QED
    BY <1>6, <2>1, <2>2, <2>3, <2>4, <2>5, <2>6, <2>7, <2>8 DEF Progress
<1>7. ASSUME NEW k \in Keys, CacheStep(k) PROVE CallInv'
  BY <1>5, <1>7 DEF CacheStep, SettleWrite, SettleDelete, SettleClear, Settle
<1>8. ASSUME NEW k \in Keys, User(k) PROVE CallInv'
  <2>1. CASE \E r \in Reqs : Refresh(r, k)
    BY <1>1, <2>1
  <2>2. CASE Cancel(k)
    BY <1>4, <2>2 DEF Cancel
  <2>3. CASE DeleteSource(k)
    BY <1>4, <2>3 DEF DeleteSource
  <2>4. CASE Adopt(k)
    BY <1>4, <2>4 DEF Adopt
  <2>5. CASE ApplyEmpty(k)
    BY <1>5, <2>5 DEF ApplyEmpty
  <2>6. CASE KeepCurrent(k)
    BY <1>5, <2>6 DEF KeepCurrent, coordVars
  <2>7. CASE ClearCache(k)
    BY <1>4, <2>7 DEF ClearCache
  <2>8. QED
    BY <1>8, <2>1, <2>2, <2>3, <2>4, <2>5, <2>6, <2>7 DEF User
<1>9. CASE UNCHANGED vars
  BY <1>5, <1>9 DEF vars, coordVars
<1>10. QED
  BY <1>6, <1>7, <1>8, <1>9 DEF Next

\* What is registered in activeRequests is always the newest call of its
\* source and still running: no way out of refresh() leaves an entry behind
\* or takes away the entry of another call.
THEOREM RegistrationCorrect == Spec => []RegisteredIsInFlight
<1>1. CallInv => RegisteredIsInFlight
  BY DEF CallInv
<1>2. QED
  BY <1>1, CallInvInit, CallInvStep, TypeInvariance, PTL DEF Spec

-----------------------------------------------------------------------------
(* What the user sees, against the calls still awaiting.                   *)

\* Nothing shown or offered is newer than the counter, an offer is newer
\* than what is shown, and the call that may still act is newer than both
\* and knows of a usable snapshot if one is shown.
SnapshotInv ==
    /\ \A k \in Keys :
         /\ active[k].gen <= generations[k]
         /\ pending[k] <= generations[k]
         /\ pending[k] # 0 => active[k].gen < pending[k]
    /\ \A r \in Reqs : pc[r] \in Awaiting /\ IsCurrent(r) =>
         /\ active[reqKey[r]].gen < reqGen[r]
         /\ pending[reqKey[r]] < reqGen[r]
         /\ active[reqKey[r]].quality = "usable" => captured[r] = "usable"

LEMMA SnapshotTypes ==
  ASSUME TypeInv
  PROVE  /\ \A k \in Keys : active[k].gen \in Nat /\ pending[k] \in Nat
         /\ DOMAIN active = Keys /\ DOMAIN pending = Keys
         /\ DOMAIN captured = Reqs /\ DOMAIN requestGeneration = Keys
BY DEF TypeInv, TypeOK, Snapshot

LEMMA SnapshotInvInit == Init => SnapshotInv
BY DEF Init, SnapshotInv, NoSnapshot, Awaiting

LEMMA SnapshotInvStep ==
  TypeInv /\ CallInv /\ SnapshotInv /\ [Next]_vars => SnapshotInv'
<1> SUFFICES ASSUME TypeInv, CallInv, SnapshotInv, [Next]_vars
             PROVE  SnapshotInv'
  OBVIOUS
<1>t. /\ \A r \in Reqs : reqKey[r] \in Keys /\ reqGen[r] \in Nat
      /\ \A k \in Keys : generations[k] \in Nat
      /\ \A k \in Keys : active[k].gen \in Nat /\ pending[k] \in Nat
  BY CallTypes, SnapshotTypes
<1>r. \A r \in Reqs : pc[r] \in Awaiting =>
        reqGen[r] > 0 /\ reqGen[r] <= generations[reqKey[r]]
  BY DEF CallInv, RequestInv, InFlight, Awaiting
<1>u. \A r, s \in Reqs :
        /\ pc[r] \in Awaiting /\ pc[s] \in Awaiting
        /\ reqKey[r] = reqKey[s] /\ reqGen[r] = reqGen[s]
        => r = s
  BY DEF CallInv, RequestInv, InFlight, Awaiting
<1> USE DEF SnapshotInv, IsCurrent
<1>1. ASSUME NEW r \in Reqs, NEW k \in Keys, Refresh(r, k)
      PROVE  SnapshotInv'
  <2>1. \A s \in Reqs :
          /\ pc'[s] = IF s = r THEN "hashing" ELSE pc[s]
          /\ reqKey'[s] = IF s = r THEN k ELSE reqKey[s]
          /\ reqGen'[s] = IF s = r THEN generations[k] + 1 ELSE reqGen[s]
          /\ captured'[s] = IF s = r THEN active[k].quality ELSE captured[s]
    BY <1>1, CallDomains, SnapshotTypes DEF Refresh, NextGen, MoveTo
  <2>2. \A l \in Keys : generations'[l] =
               IF l = k THEN generations[k] + 1 ELSE generations[l]
    BY <1>1, CallDomains DEF Refresh, NextGen
  <2>3. UNCHANGED <<active, pending>>
    BY <1>1 DEF Refresh, ownerVars
  <2>4. QED  BY <1>t, <1>r, <2>1, <2>2, <2>3
\* A step of a call that touches nothing the user sees.
<1>2. ASSUME NEW r \in Reqs,
             \A s \in Reqs : pc'[s] \in Awaiting => pc[s] \in Awaiting,
             UNCHANGED <<generations, reqKey, reqGen, captured, active,
                         pending>>
      PROVE  SnapshotInv'
  BY <1>2
<1>3. ASSUME NEW r \in Reqs, pc[r] \in Awaiting,
             \E label : MoveTo(r, label) \/ Finish(r)
      PROVE  \A s \in Reqs : pc'[s] \in Awaiting => pc[s] \in Awaiting
  BY <1>3, CallDomains DEF MoveTo, Finish
<1>4. ASSUME NEW r \in Reqs, Start(r) PROVE SnapshotInv'
  <2>1. \A s \in Reqs : pc'[s] \in Awaiting => pc[s] \in Awaiting
    BY <1>4, CallDomains DEF Start, MoveTo, Awaiting
  <2>2. \A k \in Keys :
          pending'[k] = IF k = reqKey[r] THEN 0 ELSE pending[k]
    BY <1>4, SnapshotTypes DEF Start
  <2>3. UNCHANGED <<generations, reqKey, reqGen, captured, active>>
    BY <1>4 DEF Start, coordVars
  <2>4. QED  BY <1>t, <1>r, <2>1, <2>2, <2>3
\* The offer is as new as the call that makes it; any other current call of
\* the source would be the same call.
<1>5. ASSUME NEW r \in Reqs, AskConfirmation(r) PROVE SnapshotInv'
  <2>1. /\ pc[r] \in Awaiting
        /\ reqGen[r] = generations[reqKey[r]]
        /\ \A s \in Reqs : pc'[s] = IF s = r THEN "idle" ELSE pc[s]
    BY <1>5, CallDomains DEF AskConfirmation, Finish, Awaiting
  <2>2. \A k \in Keys :
          \/ pending'[k] = pending[k]
          \/ k = reqKey[r] /\ pending'[k] = reqGen[r]
    BY <1>5, SnapshotTypes DEF AskConfirmation
  <2>3. UNCHANGED <<generations, reqKey, reqGen, captured, active>>
    BY <1>5 DEF AskConfirmation
  <2>4. "idle" \notin Awaiting
    BY DEF Awaiting
  <2>5. QED  BY <1>t, <1>r, <1>u, <2>1, <2>2, <2>3, <2>4
<1>6. ASSUME NEW r \in Reqs, Commit(r) PROVE SnapshotInv'
  <2>1. /\ pc[r] \in Awaiting
        /\ reqGen[r] = generations[reqKey[r]]
        /\ \A s \in Reqs : pc'[s] = IF s = r THEN "persisting" ELSE pc[s]
    BY <1>6, CallDomains DEF Commit, MoveTo, Awaiting
  <2>2. \A k \in Keys :
          \/ active'[k] = active[k] /\ pending'[k] = pending[k]
          \/ k = reqKey[r] /\ active'[k].gen = reqGen[r] /\ pending'[k] = 0
    <3>1. CASE Listening(r)
      <4>1. /\ active' = [active EXCEPT ![reqKey[r]] =
                           [gen |-> reqGen[r], quality |-> candidate[r]]]
            /\ pending' = [pending EXCEPT ![reqKey[r]] = 0]
        BY <1>6, <3>1, Zenon DEF Commit
      <4>2. QED  BY <4>1, <1>t, SnapshotTypes
    <3>2. CASE ~Listening(r)
      BY <1>6, <3>2 DEF Commit, Listening
    <3>3. QED  BY <3>1, <3>2
  <2>3. UNCHANGED <<generations, reqKey, reqGen, captured>>
    BY <1>6 DEF Commit
  <2>4. "persisting" \notin Awaiting
    BY DEF Awaiting
  <2>5. QED  BY <1>t, <1>r, <1>u, <2>1, <2>2, <2>3, <2>4
<1>7. ASSUME NEW r \in Reqs, Progress(r) PROVE SnapshotInv'
  <2>1. CASE Superseded(r)
    BY <1>2, <1>3, <2>1 DEF Superseded, ownerVars
  <2>2. CASE Fetched(r)
    <3>1. pc[r] \in Awaiting
      BY <2>2 DEF Fetched, Awaiting
    <3>2. QED  BY <1>2, <1>3, <2>2, <3>1 DEF Fetched, coordVars, ownerVars
  <2>3. CASE Digested(r)
    <3>1. pc[r] \in Awaiting
      BY <2>3 DEF Digested, Awaiting
    <3>2. QED  BY <1>2, <1>3, <2>3, <3>1 DEF Digested, coordVars, ownerVars
  <2>4. CASE Failed(r)
    <3>1. pc[r] \in Awaiting
      BY <2>4 DEF Failed, Awaiting
    <3>2. QED  BY <1>2, <1>3, <2>4, <3>1 DEF Failed, ownerVars
  <2>5. CASE Persisted(r)
    <3>1. \A s \in Reqs : pc'[s] \in Awaiting => pc[s] \in Awaiting
      BY <2>5, CallDomains DEF Persisted, Finish, Awaiting
    <3>2. QED  BY <1>2, <2>5, <3>1 DEF Persisted, ownerVars
  <2>6. QED
    BY <1>4, <1>5, <1>6, <1>7, <2>1, <2>2, <2>3, <2>4, <2>5 DEF Progress
\* A step that outdates the calls of a source may show what it likes.
<1>8. ASSUME NEW k \in Keys, Outdate(k), UNCHANGED reqVars,
             active'[k].gen <= generations[k] + 1,
             pending'[k] <= generations[k] + 1,
             pending'[k] # 0 => active'[k].gen < pending'[k],
             \A l \in Keys \ {k} : /\ active'[l] = active[l]
                                   /\ pending'[l] = pending[l]
      PROVE  SnapshotInv'
  <2>1. \A l \in Keys : generations'[l] =
               IF l = k THEN generations[k] + 1 ELSE generations[l]
    BY <1>8, CallDomains DEF Outdate, NextGen
  <2>2. QED  BY <1>8, <1>t, <1>r, <2>1 DEF reqVars
\* A step that withdraws the offer and shows no other snapshot, or the one
\* that was on offer.
<1>9. ASSUME NEW k \in Keys, UNCHANGED <<generations, reqVars>>,
             \/ active'[k] = active[k]
             \/ active'[k] = NoSnapshot
             \/ /\ active'[k].gen = pending[k]
                /\ active'[k].quality = "empty",
             pending'[k] = 0,
             \A l \in Keys \ {k} : /\ active'[l] = active[l]
                                   /\ pending'[l] = pending[l]
      PROVE  SnapshotInv'
  BY <1>9, <1>t, <1>r DEF reqVars, NoSnapshot
<1>10. ASSUME UNCHANGED <<generations, reqVars, active, pending>>
       PROVE  SnapshotInv'
  BY <1>10 DEF reqVars
<1>11. ASSUME NEW k \in Keys, CacheStep(k) PROVE SnapshotInv'
  <2>1. UNCHANGED <<generations, reqVars>>
    BY <1>11 DEF CacheStep, SettleWrite, SettleDelete, SettleClear, Settle
  <2>2. \/ UNCHANGED <<active, pending>>
        \/ /\ active' = [active EXCEPT ![k] = NoSnapshot]
           /\ pending' = [pending EXCEPT ![k] = 0]
    BY <1>11, Zenon
       DEF CacheStep, SettleWrite, SettleDelete, SettleClear, ownerVars
  <2>3. CASE UNCHANGED <<active, pending>>
    BY <1>10, <2>1, <2>3
  <2>4. CASE /\ active' = [active EXCEPT ![k] = NoSnapshot]
             /\ pending' = [pending EXCEPT ![k] = 0]
    BY <1>9, <2>1, <2>4, SnapshotTypes
  <2>5. QED  BY <2>2, <2>3, <2>4
<1>12. ASSUME NEW k \in Keys, User(k) PROVE SnapshotInv'
  <2>1. CASE Cancel(k)
    BY <1>8, <1>t, <2>1, SnapshotTypes DEF Cancel, NoSnapshot
  <2>2. CASE DeleteSource(k)
    BY <1>8, <1>t, <2>2, SnapshotTypes DEF DeleteSource, NoSnapshot
  <2>3. CASE Adopt(k)
    <3>1. PICK q \in {"usable", "empty"} :
            active' = [active EXCEPT ![k] =
                         [gen |-> NextGen(k), quality |-> q]]
      BY <2>3 DEF Adopt
    <3>2. /\ active'[k].gen = generations[k] + 1
          /\ \A l \in Keys \ {k} : active'[l] = active[l]
      BY <3>1, SnapshotTypes DEF NextGen
    <3>3. /\ pending'[k] = 0
          /\ \A l \in Keys \ {k} : pending'[l] = pending[l]
      BY <2>3, SnapshotTypes DEF Adopt
    <3>4. Outdate(k) /\ UNCHANGED reqVars
      BY <2>3 DEF Adopt
    <3>5. QED  BY <1>8, <1>t, <3>2, <3>3, <3>4
  <2>4. CASE ApplyEmpty(k)
    BY <1>9, <2>4, SnapshotTypes DEF ApplyEmpty
  <2>5. CASE KeepCurrent(k)
    BY <1>9, <2>5, SnapshotTypes DEF KeepCurrent, coordVars
  <2>6. CASE ClearCache(k)
    BY <1>8, <1>t, <2>6 DEF ClearCache, ownerVars
  <2>7. QED
    BY <1>1, <1>12, <2>1, <2>2, <2>3, <2>4, <2>5, <2>6 DEF User
<1>13. CASE UNCHANGED vars
  BY <1>10, <1>13 DEF vars, coordVars, ownerVars
<1>14. QED
  BY <1>7, <1>11, <1>12, <1>13 DEF Next

LEMMA SnapshotInvariance == Spec => [](TypeInv /\ CallInv /\ SnapshotInv)
BY CallInvInit, CallInvStep, SnapshotInvInit, SnapshotInvStep,
   TypeInvariance, PTL DEF Spec

-----------------------------------------------------------------------------
(* What a step may show.                                                   *)

\* How a step can change the snapshot of a source: not at all, to nothing,
\* to the result of the newest call, to the accepted offer, or to an adopted
\* snapshot.
LEMMA ShownBy ==
  ASSUME TypeInv, [Next]_vars, NEW k \in Keys, active'[k] # active[k]
  PROVE  \/ active'[k] = NoSnapshot
         \/ \E r \in Reqs :
              /\ pc[r] = "diffing" /\ IsCurrent(r) /\ reqKey[r] = k
              /\ ~NeedsConfirmation(r)
              /\ requestGeneration[k] = reqGen[r]
              /\ active'[k] = [gen |-> reqGen[r], quality |-> candidate[r]]
         \/ /\ pending[k] # 0
            /\ active'[k] = [gen |-> pending[k], quality |-> "empty"]
         \/ /\ active'[k].gen = generations[k] + 1
            /\ requestGeneration'[k] = 0
<1>1. ASSUME NEW r \in Reqs, Commit(r)
      PROVE  /\ reqKey[r] = k
             /\ requestGeneration[k] = reqGen[r]
             /\ active'[k] = [gen |-> reqGen[r], quality |-> candidate[r]]
  <2>1. Listening(r)
    BY <1>1 DEF Commit, Listening
  <2>2. active' = [active EXCEPT ![reqKey[r]] =
                     [gen |-> reqGen[r], quality |-> candidate[r]]]
    BY <1>1, <2>1, Zenon DEF Commit
  <2>3. QED  BY <2>1, <2>2, SnapshotTypes, CallTypes DEF Listening
<1>2. ASSUME NEW r \in Reqs, Progress(r), ~Commit(r) PROVE FALSE
  BY <1>2 DEF Progress, Superseded, Start, Fetched, Digested, Failed,
              AskConfirmation, Persisted, ownerVars
<1>3. ASSUME NEW l \in Keys, CacheStep(l) PROVE active'[k] = NoSnapshot
  <2>1. \/ UNCHANGED active
        \/ active' = [active EXCEPT ![l] = NoSnapshot]
    BY <1>3, Zenon
       DEF CacheStep, SettleWrite, SettleDelete, SettleClear, ownerVars
  <2>2. QED  BY <2>1, SnapshotTypes
<1>4. ASSUME NEW l \in Keys, Cancel(l) \/ DeleteSource(l)
      PROVE  active'[k] = NoSnapshot
  BY <1>4, SnapshotTypes DEF Cancel, DeleteSource
<1>5. ASSUME NEW l \in Keys, ApplyEmpty(l)
      PROVE  /\ pending[k] # 0
             /\ active'[k] = [gen |-> pending[k], quality |-> "empty"]
  BY <1>5, SnapshotTypes DEF ApplyEmpty
<1>6. ASSUME NEW l \in Keys, Adopt(l)
      PROVE  /\ active'[k].gen = generations[k] + 1
             /\ requestGeneration'[k] = 0
  <2>1. PICK q \in {"usable", "empty"} :
          active' = [active EXCEPT ![l] =
                       [gen |-> NextGen(l), quality |-> q]]
    BY <1>6 DEF Adopt
  <2>2. l = k
    BY <2>1, SnapshotTypes
  <2>3. QED  BY <1>6, <2>1, <2>2, SnapshotTypes DEF Adopt, NextGen
<1>7. ASSUME NEW l \in Keys,
             \/ \E r \in Reqs : Refresh(r, l)
             \/ KeepCurrent(l)
             \/ ClearCache(l)
      PROVE  FALSE
  BY <1>7 DEF Refresh, KeepCurrent, ClearCache, ownerVars
<1>8. CASE UNCHANGED vars
  BY <1>8 DEF vars, ownerVars
<1>9. CASE \E r \in Reqs : Progress(r)
  BY <1>1, <1>2, <1>9 DEF Commit
<1>10. CASE \E l \in Keys : CacheStep(l)
  BY <1>3, <1>10
<1>11. CASE \E l \in Keys : User(l)
  BY <1>4, <1>5, <1>6, <1>7, <1>11 DEF User
<1>12. QED
  BY <1>8, <1>9, <1>10, <1>11 DEF Next

\* Whatever completes in whatever order, the snapshot of a source is only
\* replaced by a newer one.
THEOREM NoLateAnswerWins == Spec => NoLateAnswer
<1>1. ASSUME TypeInv, SnapshotInv, [Next]_vars, NEW k \in Keys,
             active'[k] # active[k]
      PROVE  \/ active'[k] = NoSnapshot
             \/ active'[k].gen > active[k].gen
  <2>1. CASE \E r \in Reqs :
               /\ pc[r] = "diffing" /\ IsCurrent(r) /\ reqKey[r] = k
               /\ active'[k] = [gen |-> reqGen[r], quality |-> candidate[r]]
    BY <1>1, <2>1, SnapshotTypes, CallTypes DEF SnapshotInv, Awaiting
  <2>2. CASE /\ pending[k] # 0
             /\ active'[k] = [gen |-> pending[k], quality |-> "empty"]
    BY <1>1, <2>2, SnapshotTypes DEF SnapshotInv
  <2>3. CASE active'[k].gen = generations[k] + 1
    BY <1>1, <2>3, SnapshotTypes, CallTypes DEF SnapshotInv
  <2>4. QED  BY <1>1, <2>1, <2>2, <2>3, ShownBy
<1>2. TypeInv /\ SnapshotInv /\ [Next]_vars =>
        [\A k \in Keys : active'[k] # active[k] =>
           \/ active'[k] = NoSnapshot
           \/ active'[k].gen > active[k].gen]_active
  BY <1>1
<1>3. QED
  BY <1>2, SnapshotInvariance, PTL DEF Spec, NoLateAnswer

\* No usable snapshot gives way to an empty one the user was not asked
\* about, even though a refresh compares its result with the snapshot it
\* captured before its first await.
THEOREM EmptyNeedsConfirmation == Spec => EmptyIsConfirmed
<1>1. ASSUME TypeInv, SnapshotInv, [Next]_vars, NEW k \in Keys,
             active[k].quality = "usable", active'[k].quality = "empty"
      PROVE  \/ pending[k] = active'[k].gen
             \/ requestGeneration'[k] = 0
  <2>1. active'[k] # active[k] /\ active'[k] # NoSnapshot
    BY <1>1 DEF NoSnapshot
  <2>2. ASSUME NEW r \in Reqs,
               pc[r] = "diffing", IsCurrent(r), reqKey[r] = k,
               ~NeedsConfirmation(r),
               active'[k] = [gen |-> reqGen[r], quality |-> candidate[r]]
        PROVE  FALSE
    BY <1>1, <2>2 DEF SnapshotInv, NeedsConfirmation, Awaiting
  <2>3. CASE active'[k] = [gen |-> pending[k], quality |-> "empty"]
    BY <2>3
  <2>4. QED  BY <1>1, <2>1, <2>2, <2>3, ShownBy
<1>2. TypeInv /\ SnapshotInv /\ [Next]_vars =>
        [\A k \in Keys :
           (active[k].quality = "usable" /\ active'[k].quality = "empty")
           => \/ pending[k] = active'[k].gen
              \/ requestGeneration'[k] = 0]_active
  BY <1>1
<1>3. QED
  BY <1>2, SnapshotInvariance, PTL DEF Spec, EmptyIsConfirmed

-----------------------------------------------------------------------------
(* Chains in front of a cache row: q is the chain, s the row.              *)

Writes(q) == {i \in 1..Len(q) : q[i].kind = "write"}

\* g is newer than all the cache holds or will hold.
Newer(q, s, g) ==
    /\ s.gen < g
    /\ \A i \in Writes(q) : q[i].snap.gen < g

\* The writes of a chain are in the order of their snapshots, all newer than
\* the row; every other operation leaves no row.
Ordered(q, s) ==
    /\ \A i \in Writes(q) : s.gen < q[i].snap.gen
    /\ \A i, j \in Writes(q) : i < j => q[i].snap.gen < q[j].snap.gen
    /\ \A i \in 1..Len(q) : q[i].kind # "write" => q[i].snap = NoSnapshot

\* Behind every write a deletion is queued.
Deleting(q) ==
    \A i \in Writes(q) : \E j \in 1..Len(q) : i < j /\ q[j].kind = "delete"

LEMMA ChainElements ==
  ASSUME NEW q \in Seq(CacheOp)
  PROVE  /\ Len(q) \in Nat
         /\ \A i \in 1..Len(q) :
              /\ q[i] \in CacheOp
              /\ q[i].snap \in Snapshot
              /\ q[i].snap.gen \in Nat
<1>1. Len(q) \in Nat /\ \A i \in 1..Len(q) : q[i] \in CacheOp
  BY LenProperties, ElementOfSeq
<1>2. \A op \in CacheOp : op.snap \in Snapshot /\ op.snap.gen \in Nat
  BY DEF CacheOp, Snapshot
<1>3. QED  BY <1>1, <1>2

\* An operation that joins the chain is as new as the chain allows.
LEMMA OrderedAppend ==
  ASSUME NEW q \in Seq(CacheOp), NEW s \in Snapshot, NEW op \in CacheOp,
         Ordered(q, s),
         \/ op.kind = "write" /\ Newer(q, s, op.snap.gen)
         \/ op.kind # "write" /\ op.snap = NoSnapshot
  PROVE  Ordered(Append(q, op), s)
<1> DEFINE p == Append(q, op)
<1>1. /\ Len(p) = Len(q) + 1 /\ p[Len(q) + 1] = op
      /\ \A i \in 1..Len(q) : p[i] = q[i]
  BY AppendedChain
<1>2. \A i \in 1..Len(p) : i \in 1..Len(q) \/ i = Len(q) + 1
  BY <1>1, ChainElements
<1>3. \A i \in Writes(p) :
        \/ i \in Writes(q) /\ p[i] = q[i]
        \/ i = Len(q) + 1 /\ p[i] = op /\ op.kind = "write"
  BY <1>1, <1>2 DEF Writes
<1>4. \A i \in Writes(q) : i < Len(q) + 1
  BY ChainElements DEF Writes
<1> HIDE DEF p
<1>5. \A i \in Writes(p) : s.gen < p[i].snap.gen
  BY <1>3 DEF Ordered, Newer
<1>6. \A i, j \in Writes(p) : i < j => p[i].snap.gen < p[j].snap.gen
  <2> SUFFICES ASSUME NEW i \in Writes(p), NEW j \in Writes(p), i < j
               PROVE  p[i].snap.gen < p[j].snap.gen
    OBVIOUS
  <2>1. i \in Writes(q)
    BY <1>3, <1>4, ChainElements DEF Writes
  <2>2. i # Len(q) + 1
    BY <2>1, ChainElements DEF Writes
  <2>3. CASE j \in Writes(q) /\ p[j] = q[j]
    BY <1>3, <2>1, <2>2, <2>3 DEF Ordered
  <2>4. CASE j = Len(q) + 1 /\ p[j] = op /\ op.kind = "write"
    BY <1>3, <2>1, <2>2, <2>4 DEF Newer
  <2>5. QED  BY <1>3, <2>3, <2>4
<1>7. \A i \in 1..Len(p) : p[i].kind # "write" => p[i].snap = NoSnapshot
  BY <1>1, <1>2 DEF Ordered
<1>8. Ordered(p, s)
  BY <1>5, <1>6, <1>7 DEF Ordered
<1>9. QED  BY <1>8 DEF p

LEMMA NewerAppend ==
  ASSUME NEW q \in Seq(CacheOp), NEW s \in Snapshot, NEW op \in CacheOp,
         NEW g \in Nat, Newer(q, s, g),
         op.kind = "write" => op.snap.gen < g
  PROVE  Newer(Append(q, op), s, g)
<1>1. /\ Len(Append(q, op)) = Len(q) + 1 /\ Append(q, op)[Len(q) + 1] = op
      /\ \A i \in 1..Len(q) : Append(q, op)[i] = q[i]
  BY AppendedChain
<1>2. \A i \in 1..Len(q) + 1 : i \in 1..Len(q) \/ i = Len(q) + 1
  BY ChainElements
<1>3. QED  BY <1>1, <1>2 DEF Newer, Writes

LEMMA NewerLater ==
  ASSUME NEW q \in Seq(CacheOp), NEW s \in Snapshot, NEW g \in Nat,
         NEW h \in Nat, Newer(q, s, g), g <= h
  PROVE  Newer(q, s, h)
BY ChainElements DEF Newer, Snapshot, Writes

\* The head of a chain settles and takes the place of the row, or fails.
LEMMA OrderedSettled ==
  ASSUME NEW q \in Seq(CacheOp), NEW s \in Snapshot, NEW n \in 1..Len(q),
         NEW t, t = s \/ t = Head(q).snap,
         Ordered(q, s)
  PROVE  /\ t \in Snapshot
         /\ t = NoSnapshot \/ t.gen >= s.gen
         /\ Ordered(SubSeq(q, n + 1, Len(q)), t)
         /\ \A g \in Nat : Newer(q, s, g)
              => Newer(SubSeq(q, n + 1, Len(q)), t, g)
<1> DEFINE p == SubSeq(q, n + 1, Len(q))
<1>1. /\ Len(p) = Len(q) - n
      /\ \A i \in 1..Len(q) - n : p[i] = q[i + n]
  BY SettledChain
<1>2. Len(q) \in Nat /\ n \in Nat /\ 1 \in 1..Len(q)
  BY ChainElements
<1>3. \A i \in 1..Len(p) : i + n \in 1..Len(q) /\ p[i] = q[i + n] /\ 1 < i + n
  BY <1>1, <1>2
<1>4. \A i \in Writes(p) : i + n \in Writes(q) /\ p[i] = q[i + n] /\ 1 < i + n
                           /\ i \in Nat
  BY <1>2, <1>3 DEF Writes
<1>5. Head(q) = q[1]
  BY <1>2, EmptySeq, HeadOfChain
<1>6. \/ t = s
      \/ 1 \in Writes(q) /\ t = q[1].snap
      \/ t = NoSnapshot
  BY <1>2, <1>5 DEF Ordered, Writes
<1>7. t \in Snapshot
  BY <1>6, OpTypes, ChainElements DEF Writes
<1>8. s.gen \in Nat /\ NoSnapshot.gen = 0
  BY DEF Snapshot, NoSnapshot
<1> HIDE DEF p
<1>9. t = NoSnapshot \/ t.gen >= s.gen
  BY <1>6, <1>8, ChainElements DEF Ordered, Writes
<1>10. Ordered(p, t)
  <2>1. \A i \in Writes(p) : t.gen < p[i].snap.gen
    <3> SUFFICES ASSUME NEW i \in Writes(p) PROVE t.gen < p[i].snap.gen
      OBVIOUS
    <3>1. /\ i + n \in Writes(q) /\ p[i] = q[i + n] /\ 1 < i + n
          /\ q[i + n].snap.gen \in Nat
      BY <1>4, ChainElements DEF Writes
    <3>2. CASE t = s
      BY <3>1, <3>2 DEF Ordered
    <3>3. CASE 1 \in Writes(q) /\ t = q[1].snap
      BY <3>1, <3>3 DEF Ordered
    <3>4. CASE t = NoSnapshot
      BY <1>8, <3>1, <3>4 DEF Ordered
    <3>5. QED  BY <1>6, <3>2, <3>3, <3>4
  <2>2. \A i, j \in Writes(p) : i < j => p[i].snap.gen < p[j].snap.gen
    BY <1>2, <1>4 DEF Ordered
  <2>3. \A i \in 1..Len(p) : p[i].kind # "write" => p[i].snap = NoSnapshot
    BY <1>3 DEF Ordered
  <2>4. QED  BY <2>1, <2>2, <2>3 DEF Ordered
<1>11. ASSUME NEW g \in Nat, Newer(q, s, g) PROVE Newer(p, t, g)
  <2>1. t.gen < g
    BY <1>6, <1>8, <1>11 DEF Newer
  <2>2. QED  BY <1>4, <1>11, <2>1 DEF Newer
<1>12. QED  BY <1>7, <1>9, <1>10, <1>11 DEF p

-----------------------------------------------------------------------------
(* What a step does to calls, offers and chains.                           *)

LEMMA ChainTypes ==
  ASSUME TypeInv
  PROVE  /\ \A k \in Keys : /\ cacheWrites[k] \in Seq(CacheOp)
                            /\ stored[k] \in Snapshot
         /\ DOMAIN cacheWrites = Keys /\ DOMAIN stored = Keys
         /\ DOMAIN storageFailed = Keys
         /\ deletedSources \subseteq Keys
BY DEF TypeInv, TypeOK

\* A counter counts by one, and a call that awaits did so before or is new.
LEMMA CallStep ==
  ASSUME TypeInv, [Next]_vars
  PROVE  /\ \A k \in Keys : \/ generations'[k] = generations[k]
                            \/ generations'[k] = generations[k] + 1
         /\ \A r \in Reqs : pc'[r] \in Awaiting =>
              \/ /\ pc[r] \in Awaiting
                 /\ reqKey'[r] = reqKey[r] /\ reqGen'[r] = reqGen[r]
              \/ /\ \E k \in Keys : Refresh(r, k) /\ reqKey'[r] = k
                 /\ reqGen'[r] = generations[reqKey'[r]] + 1
                 /\ generations'[reqKey'[r]] = reqGen'[r]
<1>d. /\ DOMAIN pc = Reqs /\ DOMAIN reqKey = Reqs /\ DOMAIN reqGen = Reqs
      /\ DOMAIN generations = Keys
      /\ \A r \in Reqs : reqKey[r] \in Keys
  BY CallDomains, CallTypes
<1>1. ASSUME NEW r \in Reqs, NEW k \in Keys, Refresh(r, k)
      PROVE  /\ reqKey'[r] = k /\ reqGen'[r] = generations[k] + 1
             /\ \A l \in Keys : generations'[l] =
                  IF l = k THEN generations[k] + 1 ELSE generations[l]
             /\ \A q \in Reqs \ {r} :
                  /\ pc'[q] = pc[q] /\ reqKey'[q] = reqKey[q]
                  /\ reqGen'[q] = reqGen[q]
  BY <1>1, <1>d DEF Refresh, NextGen, MoveTo
<1>2. ASSUME NEW r \in Reqs, Progress(r)
      PROVE  /\ UNCHANGED <<generations, reqKey, reqGen>>
             /\ \A q \in Reqs : pc'[q] \in Awaiting => pc[q] \in Awaiting
  BY <1>2, <1>d
     DEF Progress, Superseded, Start, Fetched, Digested, Failed,
         AskConfirmation, Commit, Persisted, Finish, MoveTo, Awaiting,
         coordVars
<1>3. ASSUME NEW k \in Keys, CacheStep(k)
      PROVE  UNCHANGED <<generations, reqVars>>
  BY <1>3 DEF CacheStep, SettleWrite, SettleDelete, SettleClear, Settle
<1>4. ASSUME NEW k \in Keys, User(k), \A r \in Reqs : ~Refresh(r, k)
      PROVE  /\ UNCHANGED reqVars
             /\ \/ UNCHANGED generations
                \/ generations' = [generations EXCEPT ![k] = @ + 1]
  BY <1>4 DEF User, Cancel, DeleteSource, Adopt, ApplyEmpty, KeepCurrent,
              ClearCache, Outdate, NextGen, coordVars
<1>5. CASE \E r \in Reqs, k \in Keys : Refresh(r, k)
  BY <1>1, <1>5
<1>6. CASE \E r \in Reqs : Progress(r)
  BY <1>2, <1>6
<1>7. CASE \E k \in Keys : CacheStep(k)
  BY <1>3, <1>7 DEF reqVars
<1>8. CASE \E k \in Keys : User(k) /\ \A r \in Reqs : ~Refresh(r, k)
  BY <1>4, <1>8, <1>d DEF reqVars
<1>9. CASE UNCHANGED vars
  BY <1>9 DEF vars, coordVars, reqVars
<1>10. QED  BY <1>5, <1>6, <1>7, <1>8, <1>9 DEF Next

\* Who makes an operation join a chain.
QueuedBy(k, op) ==
    \/ /\ k \notin deletedSources
       /\ \E r \in Reqs :
            /\ Commit(r) /\ reqKey[r] = k
            /\ op = Write(reqGen[r], [gen |-> reqGen[r],
                                      quality |-> candidate[r]])
    \/ /\ k \notin deletedSources
       /\ Adopt(k)
       /\ \E q \in {"usable", "empty"} :
            /\ op = Write(0, [gen |-> generations[k] + 1, quality |-> q])
            /\ active'[k] = op.snap
    \/ /\ k \notin deletedSources
       /\ ApplyEmpty(k) /\ generations[k] = pending[k]
       /\ op = Write(pending[k], [gen |-> pending[k], quality |-> "empty"])
    \/ DeleteSource(k) /\ op = Delete
    \/ ClearCache(k) /\ op = Clear(generations[k] + 1)

\* A chain stays, is joined by an operation, or loses its head and what was
\* dropped behind it; only then does the row change.
LEMMA ChainStep ==
  ASSUME TypeInv, [Next]_vars, NEW k \in Keys
  PROVE  \/ /\ cacheWrites'[k] = cacheWrites[k] /\ stored'[k] = stored[k]
            /\ storageFailed'[k] = storageFailed[k]
         \/ /\ stored'[k] = stored[k]
            /\ storageFailed'[k] = storageFailed[k]
            /\ \E op \in CacheOp :
                 /\ cacheWrites'[k] = Append(cacheWrites[k], op)
                 /\ QueuedBy(k, op)
         \/ /\ CacheStep(k)
            /\ cacheWrites[k] # <<>>
            /\ \E n \in 1..Len(cacheWrites[k]) :
                 /\ Leave(k, cacheWrites[k], n)
                 /\ cacheWrites'[k] =
                      SubSeq(cacheWrites[k], n + 1, Len(cacheWrites[k]))
            /\ \/ stored'[k] = stored[k] /\ storageFailed'[k]
               \/ stored'[k] = Head(cacheWrites[k]).snap
<1>d. /\ DOMAIN cacheWrites = Keys /\ DOMAIN stored = Keys
      /\ DOMAIN storageFailed = Keys
      /\ \A r \in Reqs : reqKey[r] \in Keys /\ reqGen[r] \in Nat
      /\ generations[k] \in Nat /\ pending[k] \in Nat
      /\ DOMAIN active = Keys
  BY ChainTypes, CallTypes, SnapshotTypes
<1>1. ASSUME NEW r \in Reqs, Progress(r), ~Commit(r)
      PROVE  UNCHANGED <<cacheWrites, repoVars>>
  BY <1>1 DEF Progress, Superseded, Start, Fetched, Digested, Failed,
              AskConfirmation, Persisted, coordVars, repoVars
<1>2. ASSUME NEW r \in Reqs, Commit(r)
      PROVE  /\ UNCHANGED repoVars
             /\ \/ cacheWrites'[k] = cacheWrites[k]
                \/ \E op \in CacheOp :
                     /\ cacheWrites'[k] = Append(cacheWrites[k], op)
                     /\ QueuedBy(k, op)
  <2> DEFINE s == [gen |-> reqGen[r], quality |-> candidate[r]]
             op == Write(reqGen[r], s)
  <2>1. s \in Snapshot
    BY <1>2, <1>d DEF Commit, Snapshot, Quality, TypeInv, TypeOK, AnswerInv
  <2>2. op \in CacheOp
    BY <1>d, <2>1, OpTypes
  <2>3. UNCHANGED repoVars
    BY <1>2 DEF Commit
  <2>4. CASE reqKey[r] = k /\ k \notin deletedSources
    <3>1. cacheWrites'[k] = Append(cacheWrites[k], op)
      BY <1>2, <1>d, <2>4 DEF Commit, Enqueue
    <3>2. QueuedBy(k, op)
      BY <1>2, <2>4 DEF QueuedBy
    <3>3. QED  BY <2>2, <2>3, <3>1, <3>2
  <2>5. CASE reqKey[r] # k \/ k \in deletedSources
    BY <1>2, <1>d, <2>3, <2>5 DEF Commit, Enqueue
  <2>6. QED  BY <2>4, <2>5
<1>3. ASSUME NEW l \in Keys, CacheStep(l)
      PROVE  \/ /\ cacheWrites'[k] = cacheWrites[k] /\ stored'[k] = stored[k]
                /\ storageFailed'[k] = storageFailed[k]
             \/ /\ l = k
                /\ cacheWrites[k] # <<>>
                /\ \E n \in 1..Len(cacheWrites[k]) :
                     /\ Leave(k, cacheWrites[k], n)
                     /\ cacheWrites'[k] =
                          SubSeq(cacheWrites[k], n + 1, Len(cacheWrites[k]))
                /\ \/ stored'[k] = stored[k] /\ storageFailed'[k]
                   \/ stored'[k] = Head(cacheWrites[k]).snap
  <2>1. PICK kind \in {"write", "delete", "clear"}, ok \in BOOLEAN :
          Settle(l, kind, ok)
    BY <1>3, Zenon DEF CacheStep, SettleWrite, SettleDelete, SettleClear
  <2>2. PICK n \in 1..Len(cacheWrites[l]) :
          /\ Leave(l, cacheWrites[l], n)
          /\ cacheWrites' =
               [cacheWrites EXCEPT
                  ![l] = SubSeq(cacheWrites[l], n + 1, Len(cacheWrites[l]))]
    BY <2>1 DEF Settle
  <2>3. /\ cacheWrites[l] # <<>>
        /\ \/ ~ok /\ stored' = stored
           \/ ok /\ stored' = [stored EXCEPT ![l] = Head(cacheWrites[l]).snap]
        /\ storageFailed' = [storageFailed EXCEPT ![l] = ~ok]
    BY <2>1 DEF Settle
  <2>4. CASE l = k
    BY <1>d, <2>2, <2>3, <2>4
  <2>5. CASE l # k
    BY <1>d, <2>2, <2>3, <2>5
  <2>6. QED  BY <2>4, <2>5
<1>4. ASSUME NEW l \in Keys, User(l)
      PROVE  /\ UNCHANGED repoVars
             /\ \/ cacheWrites'[k] = cacheWrites[k]
                \/ \E op \in CacheOp :
                     /\ cacheWrites'[k] = Append(cacheWrites[k], op)
                     /\ QueuedBy(k, op)
  <2>1. UNCHANGED repoVars
    BY <1>4 DEF User, Refresh, Cancel, DeleteSource, Adopt, ApplyEmpty,
                KeepCurrent, ClearCache
  <2>2. CASE \/ \E r \in Reqs : Refresh(r, l)
             \/ Cancel(l) \/ KeepCurrent(l)
    BY <2>1, <2>2 DEF Refresh, Cancel, KeepCurrent, coordVars
  <2>3. CASE l # k
    <3>1. ASSUME NEW op, Enqueue(l, op)
          PROVE  cacheWrites'[k] = cacheWrites[k]
      BY <1>d, <2>3, <3>1, SMTT(30) DEF Enqueue
    <3>2. CASE DeleteSource(l) \/ ClearCache(l)
      BY <2>1, <3>1, <3>2 DEF DeleteSource, ClearCache
    <3>3. CASE Adopt(l) \/ ApplyEmpty(l)
      <4>1. cacheWrites' = cacheWrites \/ \E op : Enqueue(l, op)
        BY <3>3, Zenon DEF Adopt, ApplyEmpty
      <4>2. QED  BY <2>1, <3>1, <4>1
    <3>4. QED  BY <1>4, <2>2, <3>2, <3>3 DEF User
  <2>4. CASE DeleteSource(l) /\ l = k
    BY <1>d, <2>1, <2>4, OpTypes DEF DeleteSource, Enqueue, QueuedBy
  <2>5. CASE ClearCache(l) /\ l = k
    <3> DEFINE op == Clear(generations[k] + 1)
    <3>1. op \in CacheOp
      BY <1>d, OpTypes
    <3>2. cacheWrites'[k] = Append(cacheWrites[k], op)
      BY <1>d, <2>5 DEF ClearCache, Enqueue, NextGen
    <3>3. QueuedBy(k, op)
      BY <2>5 DEF QueuedBy
    <3>4. QED  BY <2>1, <3>1, <3>2, <3>3
  <2>6. CASE Adopt(l) /\ l = k
    <3>1. PICK q \in {"usable", "empty"} :
            LET s == [gen |-> NextGen(k), quality |-> q] IN
            /\ active' = [active EXCEPT ![k] = s]
            /\ IF k \in deletedSources THEN UNCHANGED cacheWrites
                                       ELSE Enqueue(k, Write(0, s))
      BY <2>6 DEF Adopt
    <3> DEFINE s == [gen |-> generations[k] + 1, quality |-> q]
               op == Write(0, s)
    <3>2. CASE k \in deletedSources
      BY <2>1, <3>1, <3>2
    <3>3. CASE k \notin deletedSources
      <4>1. s \in Snapshot /\ op \in CacheOp /\ op.snap = s
        BY <1>d, OpTypes DEF Snapshot, Quality, Write
      <4>2. /\ cacheWrites'[k] = Append(cacheWrites[k], op)
            /\ active'[k] = s
        BY <1>d, <3>1, <3>3 DEF Enqueue, NextGen
      <4>3. QueuedBy(k, op)
        BY <2>6, <3>3, <4>1, <4>2 DEF QueuedBy
      <4>4. QED  BY <2>1, <4>1, <4>2, <4>3
    <3>4. QED  BY <3>2, <3>3
  <2>7. CASE ApplyEmpty(l) /\ l = k
    <3> DEFINE s == [gen |-> pending[k], quality |-> "empty"]
               op == Write(pending[k], s)
    <3>1. op \in CacheOp
      BY <1>d, OpTypes DEF Snapshot, Quality
    <3>2. CASE k \in deletedSources \/ generations[k] # pending[k]
      BY <2>1, <2>7, <3>2 DEF ApplyEmpty
    <3>3. CASE k \notin deletedSources /\ generations[k] = pending[k]
      <4>1. cacheWrites'[k] = Append(cacheWrites[k], op)
        BY <1>d, <2>7, <3>3 DEF ApplyEmpty, Enqueue
      <4>2. QueuedBy(k, op)
        BY <2>7, <3>3 DEF QueuedBy
      <4>3. QED  BY <2>1, <3>1, <4>1, <4>2
    <3>4. QED  BY <3>2, <3>3
  <2>8. QED
    BY <1>4, <2>2, <2>3, <2>4, <2>5, <2>6, <2>7 DEF User
<1>5. CASE UNCHANGED vars
  BY <1>5 DEF vars, coordVars, repoVars
<1>6. QED
  BY <1>1, <1>2, <1>3, <1>4, <1>5 DEF Next, repoVars

-----------------------------------------------------------------------------
(* Which refresh the store listens to.                                     *)

\* A clear with generation g outdates every call that is still awaiting.
Outdates(k, g) ==
    /\ g <= generations[k]
    /\ \A r \in Reqs : pc[r] \in Awaiting /\ reqKey[r] = k => reqGen[r] # g

ClearInv ==
    \A k \in Keys : \A i \in 1..Len(cacheWrites[k]) :
      cacheWrites[k][i].kind = "clear" => Outdates(k, cacheWrites[k][i].guard)

LEMMA ClearInvInit == Init => ClearInv
<1>1. 1..Len(<<>>) = {}
  OBVIOUS
<1>2. QED  BY <1>1 DEF Init, ClearInv

LEMMA ClearInvStep == TypeInv /\ CallInv /\ ClearInv /\ [Next]_vars => ClearInv'
<1> SUFFICES ASSUME TypeInv, CallInv, ClearInv, [Next]_vars, NEW k \in Keys
             PROVE  \A i \in 1..Len(cacheWrites'[k]) :
                      cacheWrites'[k][i].kind = "clear"
                      => Outdates(k, cacheWrites[k][i].guard)'
  BY DEF ClearInv
<1>t. /\ \A r \in Reqs : reqKey[r] \in Keys /\ reqGen[r] \in Nat
      /\ generations[k] \in Nat
      /\ cacheWrites[k] \in Seq(CacheOp)
  BY CallTypes, ChainTypes
<1>g. \A op \in CacheOp : op.guard \in Nat
  BY DEF CacheOp
<1>1. ASSUME NEW g \in Nat, Outdates(k, g) PROVE Outdates(k, g)'
  BY <1>1, <1>t, CallStep DEF Outdates
<1>2. \A i \in 1..Len(cacheWrites[k]) :
        /\ cacheWrites[k][i].guard \in Nat
        /\ cacheWrites[k][i].kind = "clear"
           => Outdates(k, cacheWrites[k][i].guard)
  BY <1>g, <1>t, ChainElements DEF ClearInv
<1>3. CASE cacheWrites'[k] = cacheWrites[k]
  BY <1>1, <1>2, <1>3 DEF Outdates
<1>4. ASSUME NEW op \in CacheOp, QueuedBy(k, op),
             cacheWrites'[k] = Append(cacheWrites[k], op)
      PROVE  \A i \in 1..Len(cacheWrites'[k]) :
               cacheWrites'[k][i].kind = "clear"
               => Outdates(k, cacheWrites[k][i].guard)'
  <2>1. /\ Len(cacheWrites'[k]) = Len(cacheWrites[k]) + 1
        /\ cacheWrites'[k][Len(cacheWrites[k]) + 1] = op
        /\ \A i \in 1..Len(cacheWrites[k]) :
             cacheWrites'[k][i] = cacheWrites[k][i]
    BY <1>4, <1>t, AppendedChain
  <2>2. op.kind = "clear" => Outdates(k, op.guard)'
    <3> SUFFICES ASSUME op.kind = "clear" PROVE Outdates(k, op.guard)'
      OBVIOUS
    <3>1. ClearCache(k) /\ op.guard = generations[k] + 1
      BY <1>4 DEF QueuedBy, Write, Delete, Clear
    <3>2. generations'[k] = op.guard /\ UNCHANGED reqVars
      BY <3>1, CallDomains DEF ClearCache, Outdate, NextGen
    <3>3. \A r \in Reqs : pc[r] \in Awaiting => reqGen[r] <= generations[reqKey[r]]
      BY DEF CallInv, RequestInv, InFlight, Awaiting
    <3>4. QED  BY <1>t, <3>1, <3>2, <3>3 DEF Outdates, reqVars
  <2>3. \A i \in 1..Len(cacheWrites'[k]) :
          i \in 1..Len(cacheWrites[k]) \/ i = Len(cacheWrites[k]) + 1
    BY <1>t, <2>1, ChainElements
  <2>4. QED  BY <1>1, <1>2, <2>1, <2>2, <2>3
<1>5. ASSUME NEW n \in 1..Len(cacheWrites[k]),
             cacheWrites'[k] = SubSeq(cacheWrites[k], n + 1, Len(cacheWrites[k]))
      PROVE  \A i \in 1..Len(cacheWrites'[k]) :
               cacheWrites'[k][i].kind = "clear"
               => Outdates(k, cacheWrites[k][i].guard)'
  <2>1. /\ Len(cacheWrites'[k]) = Len(cacheWrites[k]) - n
        /\ \A i \in 1..Len(cacheWrites[k]) - n :
             cacheWrites'[k][i] = cacheWrites[k][i + n]
    BY <1>5, <1>t, SettledChain
  <2>2. \A i \in 1..Len(cacheWrites'[k]) : i + n \in 1..Len(cacheWrites[k])
    BY <1>t, <2>1, ChainElements
  <2>3. QED  BY <1>1, <1>2, <2>1, <2>2
<1>6. QED  BY <1>3, <1>4, <1>5, ChainStep

\* The store listens to the newest call from its start on and to no other;
\* what it offers is the result of the call it listens to.
ListenInv ==
    /\ \A k \in Keys :
         /\ requestGeneration[k] <= generations[k]
         /\ pending[k] # 0 => pending[k] = requestGeneration[k]
    /\ \A r \in Reqs : pc[r] \in Awaiting /\ IsCurrent(r) =>
         IF pc[r] = "hashing" THEN requestGeneration[reqKey[r]] < reqGen[r]
                              ELSE Listening(r)

LEMMA ListenInvInit == Init => ListenInv
BY DEF Init, ListenInv, Awaiting

LEMMA ListenTypes ==
  ASSUME TypeInv
  PROVE  /\ \A k \in Keys : /\ requestGeneration[k] \in Nat
                            /\ pending[k] \in Nat /\ generations[k] \in Nat
         /\ \A r \in Reqs : reqKey[r] \in Keys /\ reqGen[r] \in Nat
         /\ DOMAIN requestGeneration = Keys /\ DOMAIN pending = Keys
BY DEF TypeInv, TypeOK

LEMMA ListenInvStep ==
  TypeInv /\ CallInv /\ ClearInv /\ ListenInv /\ [Next]_vars => ListenInv'
<1> SUFFICES ASSUME TypeInv, CallInv, ClearInv, ListenInv, [Next]_vars
             PROVE  ListenInv'
  OBVIOUS
<1>t. /\ \A k \in Keys : /\ requestGeneration[k] \in Nat
                         /\ pending[k] \in Nat /\ generations[k] \in Nat
      /\ \A r \in Reqs : reqKey[r] \in Keys /\ reqGen[r] \in Nat
      /\ DOMAIN requestGeneration = Keys /\ DOMAIN pending = Keys
  BY ListenTypes
<1>r. \A r \in Reqs : pc[r] \in Awaiting =>
        reqGen[r] > 0 /\ reqGen[r] <= generations[reqKey[r]]
  BY DEF CallInv, RequestInv, InFlight, Awaiting
<1>u. \A r, s \in Reqs :
        /\ pc[r] \in Awaiting /\ pc[s] \in Awaiting
        /\ reqKey[r] = reqKey[s] /\ reqGen[r] = reqGen[s]
        => r = s
  BY DEF CallInv, RequestInv, InFlight, Awaiting
<1> USE DEF ListenInv, Listening, IsCurrent
<1>1. ASSUME NEW r \in Reqs, NEW k \in Keys, Refresh(r, k)
      PROVE  ListenInv'
  <2>1. \A s \in Reqs :
          /\ pc'[s] = IF s = r THEN "hashing" ELSE pc[s]
          /\ reqKey'[s] = IF s = r THEN k ELSE reqKey[s]
          /\ reqGen'[s] = IF s = r THEN generations[k] + 1 ELSE reqGen[s]
    BY <1>1, CallDomains DEF Refresh, NextGen, MoveTo
  <2>2. \A l \in Keys : generations'[l] =
               IF l = k THEN generations[k] + 1 ELSE generations[l]
    BY <1>1, CallDomains DEF Refresh, NextGen
  <2>3. UNCHANGED <<requestGeneration, pending>>
    BY <1>1 DEF Refresh, ownerVars
  <2>4. QED  BY <1>t, <1>r, <2>1, <2>2, <2>3
\* A call goes on to a later await, or leaves.
<1>2. ASSUME UNCHANGED <<generations, reqKey, reqGen, requestGeneration>>,
             \A k \in Keys : \/ pending'[k] = pending[k]
                             \/ pending'[k] = 0
                             \/ pending'[k] = requestGeneration[k],
             \A s \in Reqs : \/ pc'[s] = pc[s]
                             \/ pc'[s] \notin Awaiting
                             \/ /\ pc[s] \in Awaiting \ {"hashing"}
                                /\ pc'[s] # "hashing"
      PROVE  ListenInv'
  BY <1>2, <1>t
<1>3. ASSUME NEW r \in Reqs, Start(r) PROVE ListenInv'
  <2>1. /\ pc[r] \in Awaiting /\ reqGen[r] = generations[reqKey[r]]
        /\ \A s \in Reqs : pc'[s] = IF s = r THEN "fetching" ELSE pc[s]
    BY <1>3, CallDomains DEF Start, MoveTo, Awaiting
  <2>2. \A k \in Keys :
          /\ pending'[k] = IF k = reqKey[r] THEN 0 ELSE pending[k]
          /\ requestGeneration'[k] =
               IF k = reqKey[r] THEN reqGen[r] ELSE requestGeneration[k]
    BY <1>3, <1>t DEF Start
  <2>3. UNCHANGED <<generations, reqKey, reqGen>>
    BY <1>3 DEF Start, coordVars
  <2>4. QED  BY <1>t, <1>r, <1>u, <2>1, <2>2, <2>3
<1>4. ASSUME NEW r \in Reqs, Progress(r) PROVE ListenInv'
  <2>1. CASE Superseded(r) \/ Failed(r) \/ Persisted(r)
    <3>1. \A s \in Reqs : pc'[s] = pc[s] \/ pc'[s] \notin Awaiting
      BY <2>1, CallDomains DEF Superseded, Failed, Persisted, Finish, Awaiting
    <3>2. QED
      BY <1>2, <2>1, <3>1 DEF Superseded, Failed, Persisted, ownerVars
  <2>2. CASE Fetched(r) \/ Digested(r)
    <3>1. \A s \in Reqs : \/ pc'[s] = pc[s]
                          \/ /\ pc[s] \in Awaiting \ {"hashing"}
                             /\ pc'[s] # "hashing"
      BY <2>2, CallDomains DEF Fetched, Digested, MoveTo, Awaiting
    <3>2. QED  BY <1>2, <2>2, <3>1 DEF Fetched, Digested, coordVars, ownerVars
  <2>3. CASE AskConfirmation(r)
    <3>1. \A s \in Reqs : pc'[s] = pc[s] \/ pc'[s] \notin Awaiting
      BY <2>3, CallDomains DEF AskConfirmation, Finish, Awaiting
    <3>2. \A k \in Keys : \/ pending'[k] = pending[k]
                          \/ pending'[k] = requestGeneration[k]
      BY <2>3, <1>t DEF AskConfirmation
    <3>3. QED  BY <1>2, <2>3, <3>1, <3>2 DEF AskConfirmation
  <2>4. CASE Commit(r)
    <3>1. \A s \in Reqs : pc'[s] = pc[s] \/ pc'[s] \notin Awaiting
      BY <2>4, CallDomains DEF Commit, MoveTo, Awaiting
    <3>2. \/ UNCHANGED pending
          \/ pending' = [pending EXCEPT ![reqKey[r]] = 0]
      BY <2>4, Zenon DEF Commit
    <3>3. \A k \in Keys : pending'[k] = pending[k] \/ pending'[k] = 0
      BY <1>t, <3>2
    <3>4. UNCHANGED <<generations, reqKey, reqGen, requestGeneration>>
      BY <2>4 DEF Commit
    <3>5. QED  BY <1>2, <3>1, <3>3, <3>4
  <2>5. QED
    BY <1>3, <1>4, <2>1, <2>2, <2>3, <2>4 DEF Progress
\* A step that outdates the calls of a source, whether the store forgets the
\* one it listens to or not.
<1>5. ASSUME NEW k \in Keys, Outdate(k), UNCHANGED reqVars,
             \/ UNCHANGED <<requestGeneration, pending>>
             \/ /\ requestGeneration' = [requestGeneration EXCEPT ![k] = 0]
                /\ pending' = [pending EXCEPT ![k] = 0]
      PROVE  ListenInv'
  <2>1. \A l \in Keys : generations'[l] =
               IF l = k THEN generations[k] + 1 ELSE generations[l]
    BY <1>5, CallDomains DEF Outdate, NextGen
  <2>2. \A l \in Keys :
          \/ /\ requestGeneration'[l] = requestGeneration[l]
             /\ pending'[l] = pending[l]
          \/ l = k /\ requestGeneration'[l] = 0 /\ pending'[l] = 0
    BY <1>5, <1>t
  <2>3. QED  BY <1>5, <1>t, <1>r, <2>1, <2>2 DEF reqVars
\* A clear that blanks the store has outdated whoever awaits.
<1>6. ASSUME NEW k \in Keys, SettleClear(k) PROVE ListenInv'
  <2>1. /\ cacheWrites[k] # <<>> /\ Head(cacheWrites[k]).kind = "clear"
        /\ UNCHANGED <<generations, reqVars>>
    BY <1>6 DEF SettleClear, Settle
  <2>2. \/ UNCHANGED <<requestGeneration, pending>>
        \/ /\ Head(cacheWrites[k]).guard = generations[k]
           /\ requestGeneration' = [requestGeneration EXCEPT ![k] = 0]
           /\ pending' = [pending EXCEPT ![k] = 0]
    BY <1>6, Zenon DEF SettleClear, ownerVars
  <2>3. CASE UNCHANGED <<requestGeneration, pending>>
    BY <1>2, <2>1, <2>3 DEF reqVars
  <2>4. CASE /\ Head(cacheWrites[k]).guard = generations[k]
             /\ requestGeneration' = [requestGeneration EXCEPT ![k] = 0]
             /\ pending' = [pending EXCEPT ![k] = 0]
    <3>1. Outdates(k, generations[k])
      <4>1. /\ Head(cacheWrites[k]) = cacheWrites[k][1]
            /\ 1 \in 1..Len(cacheWrites[k])
        BY <2>1, HeadOfChain, ChainTypes
      <4>2. QED  BY <2>1, <2>4, <4>1 DEF ClearInv
    <3>2. \A r \in Reqs : pc[r] \in Awaiting /\ reqKey[r] = k => ~IsCurrent(r)
      BY <3>1 DEF Outdates
    <3>3. \A l \in Keys :
            \/ /\ l # k /\ requestGeneration'[l] = requestGeneration[l]
               /\ pending'[l] = pending[l]
            \/ l = k /\ requestGeneration'[l] = 0 /\ pending'[l] = 0
      BY <1>t, <2>4
    <3>4. QED  BY <1>t, <2>1, <3>2, <3>3 DEF reqVars
  <2>5. QED  BY <2>2, <2>3, <2>4
<1>7. ASSUME NEW k \in Keys, CacheStep(k) PROVE ListenInv'
  <2>1. CASE SettleWrite(k) \/ SettleDelete(k)
    BY <1>2, <2>1 DEF SettleWrite, SettleDelete, Settle, reqVars, ownerVars
  <2>2. QED  BY <1>6, <1>7, <2>1 DEF CacheStep
<1>8. ASSUME NEW k \in Keys, User(k) PROVE ListenInv'
  <2>1. CASE Cancel(k) \/ DeleteSource(k)
    BY <1>5, <2>1 DEF Cancel, DeleteSource
  <2>2. CASE Adopt(k)
    <3>1. /\ Outdate(k) /\ UNCHANGED reqVars
          /\ requestGeneration' = [requestGeneration EXCEPT ![k] = 0]
          /\ pending' = [pending EXCEPT ![k] = 0]
      BY <2>2, Zenon DEF Adopt
    <3>2. QED  BY <1>5, <3>1
  <2>3. CASE ApplyEmpty(k) \/ KeepCurrent(k)
    <3>1. \A l \in Keys : pending'[l] = pending[l] \/ pending'[l] = 0
      BY <1>t, <2>3 DEF ApplyEmpty, KeepCurrent
    <3>2. QED
      BY <1>2, <2>3, <3>1 DEF ApplyEmpty, KeepCurrent, coordVars, reqVars
  <2>4. CASE ClearCache(k)
    BY <1>5, <2>4 DEF ClearCache, ownerVars
  <2>5. QED  BY <1>1, <1>8, <2>1, <2>2, <2>3, <2>4 DEF User
<1>9. CASE UNCHANGED vars
  BY <1>2, <1>9 DEF vars, coordVars, reqVars, ownerVars
<1>10. QED
  BY <1>4, <1>7, <1>8, <1>9 DEF Next

-----------------------------------------------------------------------------
(* The order of the chains.                                                *)

\* Chains are in order, and what may still be written is newer than all that
\* is queued: the next snapshot, an offer, the result of a current call.
ChainInv ==
    /\ \A k \in Keys :
         /\ Ordered(cacheWrites[k], stored[k])
         /\ Newer(cacheWrites[k], stored[k], generations[k] + 1)
         /\ pending[k] # 0 => Newer(cacheWrites[k], stored[k], pending[k])
    /\ \A r \in Reqs : pc[r] \in Awaiting /\ IsCurrent(r) =>
         Newer(cacheWrites[reqKey[r]], stored[reqKey[r]], reqGen[r])

LEMMA ChainInvInit == Init => ChainInv
<1>1. Writes(<<>>) = {} /\ 1..Len(<<>>) = {}
  BY DEF Writes
<1>2. Ordered(<<>>, NoSnapshot) /\ Newer(<<>>, NoSnapshot, 1)
  BY <1>1 DEF Ordered, Newer, NoSnapshot
<1>3. QED  BY <1>2 DEF Init, ChainInv, Awaiting

\* What is newer than a chain stays so unless a write as new joins it.
LEMMA ChainNewer ==
  ASSUME TypeInv, ChainInv, [Next]_vars, NEW k \in Keys, NEW g \in Nat,
         Newer(cacheWrites[k], stored[k], g),
         \A op \in CacheOp : QueuedBy(k, op) /\ op.kind = "write"
                             => op.snap.gen < g
  PROVE  Newer(cacheWrites'[k], stored'[k], g)
<1>t. cacheWrites[k] \in Seq(CacheOp) /\ stored[k] \in Snapshot
  BY ChainTypes
<1>1. CASE cacheWrites'[k] = cacheWrites[k] /\ stored'[k] = stored[k]
  BY <1>1
<1>2. ASSUME NEW op \in CacheOp, stored'[k] = stored[k], QueuedBy(k, op),
             cacheWrites'[k] = Append(cacheWrites[k], op)
      PROVE  Newer(cacheWrites'[k], stored'[k], g)
  BY <1>2, <1>t, NewerAppend
<1>3. ASSUME NEW n \in 1..Len(cacheWrites[k]),
             cacheWrites'[k] =
               SubSeq(cacheWrites[k], n + 1, Len(cacheWrites[k])),
             \/ stored'[k] = stored[k]
             \/ stored'[k] = Head(cacheWrites[k]).snap
      PROVE  Newer(cacheWrites'[k], stored'[k], g)
  <2>1. Ordered(cacheWrites[k], stored[k])
    BY DEF ChainInv
  <2>2. QED  BY <1>3, <1>t, <2>1, OrderedSettled
<1>4. QED  BY <1>1, <1>2, <1>3, ChainStep

\* A write is newer than the chain it joins, and it settles what was open:
\* no offer and no current call remains.
LEMMA QueuedWrite ==
  ASSUME TypeInv, CallInv, SnapshotInv, ListenInv, ChainInv, [Next]_vars,
         NEW k \in Keys, NEW op \in CacheOp, QueuedBy(k, op)
  PROVE  \/ op.kind # "write" /\ op.snap = NoSnapshot
         \/ /\ op.kind = "write"
            /\ Newer(cacheWrites[k], stored[k], op.snap.gen)
            /\ op.snap.gen <= generations'[k]
            /\ pending'[k] = 0
            /\ \A r \in Reqs : pc'[r] \in Awaiting /\ reqKey'[r] = k
                               => reqGen'[r] # generations'[k]
<1>t. /\ \A l \in Keys : generations[l] \in Nat /\ pending[l] \in Nat
      /\ \A r \in Reqs : reqKey[r] \in Keys /\ reqGen[r] \in Nat
  BY ListenTypes
<1>r. \A r \in Reqs : pc[r] \in Awaiting => reqGen[r] <= generations[reqKey[r]]
  BY DEF CallInv, RequestInv, InFlight, Awaiting
<1>1. CASE DeleteSource(k) /\ op = Delete
  BY <1>1 DEF Delete
<1>2. CASE ClearCache(k) /\ op = Clear(generations[k] + 1)
  BY <1>2 DEF Clear
<1>3. ASSUME NEW r \in Reqs, Commit(r), reqKey[r] = k,
             op = Write(reqGen[r], [gen |-> reqGen[r],
                                    quality |-> candidate[r]])
      PROVE  /\ op.kind = "write"
             /\ Newer(cacheWrites[k], stored[k], op.snap.gen)
             /\ op.snap.gen <= generations'[k]
             /\ pending'[k] = 0
             /\ \A x \in Reqs : pc'[x] \in Awaiting /\ reqKey'[x] = k
                                => reqGen'[x] # generations'[k]
  <2>1. /\ op.kind = "write" /\ op.snap.gen = reqGen[r]
        /\ pc[r] = "diffing" /\ pc[r] \in Awaiting /\ IsCurrent(r)
        /\ UNCHANGED <<generations, reqKey, reqGen>>
        /\ \A x \in Reqs : pc'[x] = IF x = r THEN "persisting" ELSE pc[x]
    BY <1>3, CallDomains DEF Write, Commit, Awaiting, MoveTo
  <2>2. Newer(cacheWrites[k], stored[k], op.snap.gen)
    BY <1>3, <2>1 DEF ChainInv
  <2>3. Listening(r)
    BY <2>1 DEF ListenInv
  <2>4. pending' = [pending EXCEPT ![k] = 0]
    BY <1>3, <2>3, Zenon DEF Commit
  <2>5. pending'[k] = 0
    BY <2>4, ListenTypes
  <2>6. reqGen[r] = generations[k]
    BY <1>3, <2>1 DEF IsCurrent
  <2>7. ASSUME NEW x \in Reqs, pc'[x] \in Awaiting, reqKey'[x] = k
        PROVE  reqGen'[x] # generations'[k]
    <3>1. x # r /\ pc[x] \in Awaiting /\ reqKey[x] = k
      BY <2>1, <2>7 DEF Awaiting
    <3>2. reqGen[x] # reqGen[r]
      BY <1>3, <2>1, <3>1 DEF CallInv, RequestInv, InFlight, Awaiting
    <3>3. QED  BY <2>1, <2>6, <3>2
  <2>8. QED  BY <1>t, <2>1, <2>2, <2>5, <2>6, <2>7
<1>4. ASSUME Adopt(k), NEW q,
             op = Write(0, [gen |-> generations[k] + 1, quality |-> q])
      PROVE  /\ op.kind = "write"
             /\ Newer(cacheWrites[k], stored[k], op.snap.gen)
             /\ op.snap.gen <= generations'[k]
             /\ pending'[k] = 0
             /\ \A x \in Reqs : pc'[x] \in Awaiting /\ reqKey'[x] = k
                                => reqGen'[x] # generations'[k]
  <2>1. op.kind = "write" /\ op.snap.gen = generations[k] + 1
    BY <1>4 DEF Write
  <2>2. Outdate(k) /\ UNCHANGED reqVars /\ pending' = [pending EXCEPT ![k] = 0]
    BY <1>4, Zenon DEF Adopt
  <2>3. generations'[k] = generations[k] + 1 /\ pending'[k] = 0
    BY <2>2, CallDomains, ListenTypes DEF Outdate, NextGen
  <2>4. QED  BY <1>t, <1>r, <2>1, <2>2, <2>3 DEF ChainInv, reqVars
<1>5. ASSUME ApplyEmpty(k), generations[k] = pending[k],
             op = Write(pending[k], [gen |-> pending[k], quality |-> "empty"])
      PROVE  /\ op.kind = "write"
             /\ Newer(cacheWrites[k], stored[k], op.snap.gen)
             /\ op.snap.gen <= generations'[k]
             /\ pending'[k] = 0
             /\ \A x \in Reqs : pc'[x] \in Awaiting /\ reqKey'[x] = k
                                => reqGen'[x] # generations'[k]
  <2>1. /\ op.kind = "write" /\ op.snap.gen = pending[k]
        /\ pending[k] # 0 /\ pending'[k] = 0
        /\ UNCHANGED <<generations, reqVars>>
    BY <1>5, ListenTypes DEF Write, ApplyEmpty
  <2>2. \A x \in Reqs : pc[x] \in Awaiting /\ reqKey[x] = k
                        => reqGen[x] # generations[k]
    BY <1>5, <1>t DEF SnapshotInv, IsCurrent
  <2>3. QED  BY <1>t, <1>5, <2>1, <2>2 DEF ChainInv, reqVars
<1>6. QED  BY <1>1, <1>2, <1>3, <1>4, <1>5 DEF QueuedBy

\* An offer was there before, or is the result of the current call.
LEMMA OfferStep ==
  ASSUME TypeInv, [Next]_vars, NEW k \in Keys, pending'[k] # 0
  PROVE  \/ pending'[k] = pending[k]
         \/ \E r \in Reqs :
              /\ AskConfirmation(r) /\ reqKey[r] = k /\ Listening(r)
              /\ pending'[k] = reqGen[r]
<1>d. DOMAIN pending = Keys
  BY ListenTypes
<1>1. ASSUME NEW r \in Reqs, AskConfirmation(r), pending'[k] # pending[k]
      PROVE  reqKey[r] = k /\ Listening(r) /\ pending'[k] = reqGen[r]
  <2>1. Listening(r) /\ pending' = [pending EXCEPT ![reqKey[r]] = reqGen[r]]
    BY <1>1 DEF AskConfirmation, Listening
  <2>2. QED  BY <1>1, <1>d, <2>1
<1>2. ASSUME NEW r \in Reqs, Progress(r), ~AskConfirmation(r)
      PROVE  \/ UNCHANGED pending
             \/ pending' = [pending EXCEPT ![reqKey[r]] = 0]
  <2>1. CASE Commit(r)
    BY <2>1, Zenon DEF Commit
  <2>2. CASE ~Commit(r)
    BY <1>2, <2>2 DEF Progress, Superseded, Start, Fetched, Digested, Failed,
                      Persisted, ownerVars
  <2>3. QED  BY <2>1, <2>2
<1>3. ASSUME NEW l \in Keys, CacheStep(l)
      PROVE  UNCHANGED pending \/ pending' = [pending EXCEPT ![l] = 0]
  BY <1>3, Zenon
     DEF CacheStep, SettleWrite, SettleDelete, SettleClear, ownerVars
<1>4. ASSUME NEW l \in Keys, User(l)
      PROVE  UNCHANGED pending \/ pending' = [pending EXCEPT ![l] = 0]
  BY <1>4, Zenon
     DEF User, Refresh, Cancel, DeleteSource, Adopt, ApplyEmpty, KeepCurrent,
         ClearCache, ownerVars
<1>5. CASE \E l : \/ UNCHANGED pending
                  \/ pending' = [pending EXCEPT ![l] = 0]
  <2>1. PICK l : UNCHANGED pending \/ pending' = [pending EXCEPT ![l] = 0]
    BY <1>5
  <2>2. CASE l = k
    BY <1>d, <2>1, <2>2
  <2>3. CASE l # k
    BY <1>d, <2>1, <2>3
  <2>4. QED  BY <2>2, <2>3
<1>6. CASE UNCHANGED vars
  BY <1>6 DEF vars, ownerVars
<1>7. CASE \E r \in Reqs : Progress(r)
  BY <1>1, <1>2, <1>5, <1>7
<1>8. CASE \E l \in Keys : CacheStep(l) \/ User(l)
  BY <1>3, <1>4, <1>5, <1>8
<1>9. QED  BY <1>6, <1>7, <1>8 DEF Next

LEMMA ChainInvStep ==
  TypeInv /\ CallInv /\ SnapshotInv /\ ListenInv /\ ChainInv /\ [Next]_vars
    => ChainInv'
<1> SUFFICES ASSUME TypeInv, CallInv, SnapshotInv, ListenInv, ChainInv,
                    [Next]_vars
             PROVE  ChainInv'
  OBVIOUS
<1>t. /\ \A l \in Keys : generations[l] \in Nat /\ pending[l] \in Nat
      /\ \A r \in Reqs : reqKey[r] \in Keys /\ reqGen[r] \in Nat
  BY ListenTypes
<1>p. TypeInv'
  BY TypeInvStep
<1>q. /\ \A l \in Keys : generations'[l] \in Nat /\ pending'[l] \in Nat
      /\ \A r \in Reqs : reqKey'[r] \in Keys /\ reqGen'[r] \in Nat
  BY <1>p DEF TypeInv, TypeOK
<1>g. \A l \in Keys : generations[l] <= generations'[l]
  BY <1>t, CallStep
<1>1. ASSUME NEW k \in Keys PROVE Ordered(cacheWrites'[k], stored'[k])
  <2>t. /\ cacheWrites[k] \in Seq(CacheOp) /\ stored[k] \in Snapshot
        /\ Ordered(cacheWrites[k], stored[k])
    BY ChainTypes DEF ChainInv
  <2>1. CASE cacheWrites'[k] = cacheWrites[k] /\ stored'[k] = stored[k]
    BY <2>1, <2>t
  <2>2. ASSUME NEW op \in CacheOp, stored'[k] = stored[k], QueuedBy(k, op),
               cacheWrites'[k] = Append(cacheWrites[k], op)
        PROVE  Ordered(cacheWrites'[k], stored'[k])
    BY <2>2, <2>t, OrderedAppend, QueuedWrite
  <2>3. ASSUME NEW n \in 1..Len(cacheWrites[k]),
               cacheWrites'[k] =
                 SubSeq(cacheWrites[k], n + 1, Len(cacheWrites[k])),
               \/ stored'[k] = stored[k]
               \/ stored'[k] = Head(cacheWrites[k]).snap
        PROVE  Ordered(cacheWrites'[k], stored'[k])
    BY <2>3, <2>t, OrderedSettled
  <2>4. QED  BY <2>1, <2>2, <2>3, ChainStep
<1>2. ASSUME NEW k \in Keys
      PROVE  Newer(cacheWrites'[k], stored'[k], generations'[k] + 1)
  <2>1. Newer(cacheWrites[k], stored[k], generations'[k] + 1)
    <3>1. generations[k] + 1 \in Nat /\ generations'[k] + 1 \in Nat
      BY <1>t, <1>q
    <3>2. generations[k] + 1 <= generations'[k] + 1
      BY <1>t, <1>q, <1>g
    <3>3. QED  BY <3>1, <3>2, ChainTypes, NewerLater DEF ChainInv
  <2>2. \A op \in CacheOp : QueuedBy(k, op) /\ op.kind = "write"
                            => op.snap.gen < generations'[k] + 1
    <3>1. \A op \in CacheOp : op.snap.gen \in Nat
      BY DEF CacheOp, Snapshot
    <3>2. QED  BY <1>q, <3>1, QueuedWrite
  <2>3. generations'[k] + 1 \in Nat
    BY <1>q
  <2>4. QED  BY <2>1, <2>2, <2>3, ChainNewer
<1>3. ASSUME NEW k \in Keys, pending'[k] # 0
      PROVE  Newer(cacheWrites'[k], stored'[k], pending'[k])
  <2>1. \A op \in CacheOp : ~(QueuedBy(k, op) /\ op.kind = "write")
    BY <1>3, QueuedWrite
  <2>2. Newer(cacheWrites[k], stored[k], pending'[k])
    <3>1. CASE pending'[k] = pending[k]
      BY <1>3, <3>1 DEF ChainInv
    <3>2. ASSUME NEW r \in Reqs, AskConfirmation(r), reqKey[r] = k,
                 pending'[k] = reqGen[r]
          PROVE  Newer(cacheWrites[k], stored[k], pending'[k])
      BY <3>2 DEF ChainInv, AskConfirmation, Awaiting
    <3>3. QED  BY <1>3, <3>1, <3>2, OfferStep
  <2>3. QED  BY <1>q, <2>1, <2>2, ChainNewer
<1>4. ASSUME NEW r \in Reqs, pc'[r] \in Awaiting,
             generations'[reqKey'[r]] = reqGen'[r]
      PROVE  Newer(cacheWrites'[reqKey'[r]], stored'[reqKey'[r]], reqGen'[r])
  <2> DEFINE k == reqKey'[r]
  <2>k. k \in Keys
    BY <1>q
  <2>1. \A op \in CacheOp : ~(QueuedBy(k, op) /\ op.kind = "write")
    BY <1>4, <2>k, QueuedWrite
  <2>2. Newer(cacheWrites[k], stored[k], reqGen'[r])
    <3>1. CASE /\ pc[r] \in Awaiting
               /\ reqKey'[r] = reqKey[r] /\ reqGen'[r] = reqGen[r]
      <4>1. reqGen[r] <= generations[k]
        BY <3>1 DEF CallInv, RequestInv, InFlight, Awaiting
      <4>2. IsCurrent(r)
        BY <1>t, <1>q, <1>g, <1>4, <2>k, <3>1, <4>1 DEF IsCurrent
      <4>3. QED  BY <3>1, <4>2 DEF ChainInv
    <3>2. CASE reqGen'[r] = generations[k] + 1
      BY <2>k, <3>2 DEF ChainInv
    <3>3. QED  BY <1>4, <3>1, <3>2, CallStep
  <2>3. QED  BY <1>q, <2>k, <2>1, <2>2, ChainNewer
<1>5. QED  BY <1>1, <1>2, <1>3, <1>4 DEF ChainInv, IsCurrent

Invariants == TypeInv /\ CallInv /\ SnapshotInv /\ ClearInv /\ ListenInv
              /\ ChainInv

LEMMA ChainInvariance == Spec => []Invariants
<1>1. Init => Invariants
  BY TypeInvInit, CallInvInit, SnapshotInvInit, ClearInvInit, ListenInvInit,
     ChainInvInit DEF Invariants
<1>2. Invariants /\ [Next]_vars => Invariants'
  BY TypeInvStep, CallInvStep, SnapshotInvStep, ClearInvStep, ListenInvStep,
     ChainInvStep DEF Invariants
<1>3. QED  BY <1>1, <1>2, PTL DEF Spec

\* Writes land in the order of the refreshes they belong to, however long
\* each of them takes: the row of a source is replaced only by a newer
\* snapshot.
THEOREM CacheKeepsOrder == Spec => CacheMovesForward
<1>1. ASSUME TypeInv, ChainInv, [Next]_vars, NEW k \in Keys
      PROVE  \/ stored'[k] = NoSnapshot
             \/ stored'[k].gen >= stored[k].gen
  <2>t. /\ cacheWrites[k] \in Seq(CacheOp) /\ stored[k] \in Snapshot
        /\ Ordered(cacheWrites[k], stored[k])
    BY <1>1, ChainTypes DEF ChainInv
  <2>1. CASE stored'[k] = stored[k]
    <3>1. stored[k].gen \in Nat
      BY <2>t DEF Snapshot
    <3>2. QED  BY <2>1, <3>1
  <2>2. ASSUME NEW n \in 1..Len(cacheWrites[k]),
               stored'[k] = Head(cacheWrites[k]).snap
        PROVE  stored'[k] = NoSnapshot \/ stored'[k].gen >= stored[k].gen
    BY <2>2, <2>t, OrderedSettled
  <2>3. QED  BY <1>1, <2>1, <2>2, ChainStep
<1>2. TypeInv /\ ChainInv /\ [Next]_vars =>
        [\A k \in Keys : \/ stored'[k] = NoSnapshot
                         \/ stored'[k].gen >= stored[k].gen]_stored
  BY <1>1
<1>3. Invariants => TypeInv /\ ChainInv
  BY DEF Invariants
<1>4. QED
  BY <1>2, <1>3, ChainInvariance, PTL DEF Spec, CacheMovesForward

-----------------------------------------------------------------------------
(* Deletion.                                                               *)

DeleteQueued(q) == \E i \in 1..Len(q) : q[i].kind = "delete"

\* A deletion follows all that may still be written for a deleted source,
\* and what its row holds.
DeletionInv ==
    \A k \in deletedSources :
      /\ Deleting(cacheWrites[k])
      /\ stored[k] # NoSnapshot
           => storageFailed[k] \/ DeleteQueued(cacheWrites[k])

LEMMA DeletionInvInit == Init => DeletionInv
BY DEF Init, DeletionInv

\* Operations of another kind that join a chain leave its deletions last.
LEMMA DeletingAppend ==
  ASSUME NEW q \in Seq(CacheOp), NEW op \in CacheOp, op.kind # "write",
         Deleting(q) \/ op.kind = "delete"
  PROVE  /\ Deleting(Append(q, op))
         /\ DeleteQueued(q) \/ op.kind = "delete"
              => DeleteQueued(Append(q, op))
<1> DEFINE p == Append(q, op)
<1>1. /\ Len(p) = Len(q) + 1 /\ p[Len(q) + 1] = op
      /\ \A i \in 1..Len(q) : p[i] = q[i]
      /\ Len(q) \in Nat
  BY AppendedChain, ChainElements
<1>2. \A i \in Writes(p) : i \in Writes(q) /\ i < Len(p)
  BY <1>1 DEF Writes
<1>3. Len(p) \in 1..Len(p) /\ 1..Len(q) \subseteq 1..Len(p)
  BY <1>1
<1> HIDE DEF p
<1>4. Deleting(p)
  BY <1>1, <1>2, <1>3 DEF Deleting
<1>5. DeleteQueued(q) \/ op.kind = "delete" => DeleteQueued(p)
  BY <1>1, <1>3 DEF DeleteQueued
<1>6. QED  BY <1>4, <1>5 DEF p

\* Operations that leave a chain do not take its deletions with them.
LEMMA DeletingSettled ==
  ASSUME NEW k \in Keys, NEW q \in Seq(CacheOp), NEW n \in 1..Len(q),
         Leave(k, q, n), Deleting(q)
  PROVE  /\ Deleting(SubSeq(q, n + 1, Len(q)))
         /\ Head(q).kind = "write" => DeleteQueued(SubSeq(q, n + 1, Len(q)))
<1> DEFINE p == SubSeq(q, n + 1, Len(q))
<1>1. /\ Len(p) = Len(q) - n
      /\ \A i \in 1..Len(q) - n : p[i] = q[i + n]
  BY SettledChain
<1>2. Len(q) \in Nat /\ n \in Nat /\ 1 \in 1..Len(q)
  BY ChainElements
<1>3. \A j \in 1..Len(q) : j > 1 /\ q[j].kind = "delete"
                           => j - n \in 1..Len(p) /\ p[j - n] = q[j]
  <2> SUFFICES ASSUME NEW j \in 1..Len(q), j > 1, q[j].kind = "delete"
               PROVE  j - n \in 1..Len(p) /\ p[j - n] = q[j]
    OBVIOUS
  <2>1. j \notin 2..n
    BY DEF Leave, Runs
  <2>2. j > n
    BY <1>2, <2>1
  <2>3. j - n \in 1..Len(p) /\ (j - n) + n = j
    BY <1>1, <1>2, <2>2
  <2>4. QED  BY <1>1, <2>3
<1>4. \A i \in Writes(p) : /\ i + n \in Writes(q) /\ i + n > 1
                           /\ i \in Nat
  BY <1>1, <1>2 DEF Writes
<1> HIDE DEF p
<1>5. Deleting(p)
  <2> SUFFICES ASSUME NEW i \in Writes(p)
               PROVE  \E j \in 1..Len(p) : i < j /\ p[j].kind = "delete"
    BY DEF Deleting
  <2>1. PICK j \in 1..Len(q) : i + n < j /\ q[j].kind = "delete"
    BY <1>4 DEF Deleting
  <2>2. j > 1 /\ i < j - n
    BY <1>2, <1>4, <2>1
  <2>3. QED  BY <1>3, <2>1, <2>2
<1>6. ASSUME Head(q).kind = "write" PROVE DeleteQueued(p)
  <2>1. 1 \in Writes(q)
    BY <1>2, <1>6, HeadOfChain, EmptySeq DEF Writes
  <2>2. PICK j \in 1..Len(q) : 1 < j /\ q[j].kind = "delete"
    BY <2>1 DEF Deleting
  <2>3. QED  BY <1>3, <2>2 DEF DeleteQueued
<1>7. QED  BY <1>5, <1>6 DEF p

LEMMA DeletionInvStep ==
  TypeInv /\ ChainInv /\ DeletionInv /\ [Next]_vars => DeletionInv'
<1> SUFFICES ASSUME TypeInv, ChainInv, DeletionInv, [Next]_vars,
                    NEW k, k \in deletedSources'
             PROVE  /\ Deleting(cacheWrites'[k])
                    /\ stored'[k] # NoSnapshot
                         => storageFailed'[k] \/ DeleteQueued(cacheWrites'[k])
  BY DEF DeletionInv
<1>1. k \in deletedSources \/ (k \in Keys /\ DeleteSource(k))
  <2>1. ASSUME NEW r \in Reqs, Progress(r) PROVE UNCHANGED deletedSources
    BY <2>1 DEF Progress, Superseded, Start, Fetched, Digested, Failed,
                AskConfirmation, Commit, Persisted, coordVars
  <2>2. ASSUME NEW l \in Keys, CacheStep(l) PROVE UNCHANGED deletedSources
    BY <2>2 DEF CacheStep, SettleWrite, SettleDelete, SettleClear, Settle
  <2>3. ASSUME NEW l \in Keys, User(l)
        PROVE  k \in deletedSources \/ (k \in Keys /\ DeleteSource(k))
    <3>1. CASE DeleteSource(l)
      BY <3>1 DEF DeleteSource
    <3>2. CASE ~DeleteSource(l)
      BY <2>3, <3>2 DEF User, Refresh, Cancel, Adopt, ApplyEmpty, KeepCurrent,
                        ClearCache, coordVars
    <3>3. QED  BY <3>1, <3>2
  <2>4. CASE UNCHANGED vars
    BY <2>4 DEF vars, coordVars
  <2>5. QED  BY <2>1, <2>2, <2>3, <2>4 DEF Next
<1>2. k \in Keys /\ cacheWrites[k] \in Seq(CacheOp)
  BY <1>1, ChainTypes
<1>3. CASE DeleteSource(k)
  <2>1. cacheWrites'[k] = Append(cacheWrites[k], Delete)
    BY <1>2, <1>3, ChainTypes DEF DeleteSource, Enqueue
  <2>2. Delete \in CacheOp /\ Delete.kind = "delete"
    BY OpTypes DEF Delete
  <2>3. QED  BY <1>2, <2>1, <2>2, DeletingAppend
<1>4. CASE k \in deletedSources
  <2>t. /\ Deleting(cacheWrites[k])
        /\ stored[k] # NoSnapshot
             => storageFailed[k] \/ DeleteQueued(cacheWrites[k])
    BY <1>4 DEF DeletionInv
  <2>1. CASE /\ cacheWrites'[k] = cacheWrites[k] /\ stored'[k] = stored[k]
             /\ storageFailed'[k] = storageFailed[k]
    BY <2>1, <2>t
  <2>2. ASSUME NEW op \in CacheOp, QueuedBy(k, op), stored'[k] = stored[k],
               storageFailed'[k] = storageFailed[k],
               cacheWrites'[k] = Append(cacheWrites[k], op)
        PROVE  /\ Deleting(cacheWrites'[k])
               /\ stored'[k] # NoSnapshot
                    => storageFailed'[k] \/ DeleteQueued(cacheWrites'[k])
    <3>1. op.kind # "write"
      BY <1>4, <2>2 DEF QueuedBy, Delete, Clear
    <3>2. QED  BY <1>2, <2>t, <2>2, <3>1, DeletingAppend
  <2>3. ASSUME NEW n \in 1..Len(cacheWrites[k]), cacheWrites[k] # <<>>,
               Leave(k, cacheWrites[k], n),
               cacheWrites'[k] =
                 SubSeq(cacheWrites[k], n + 1, Len(cacheWrites[k])),
               \/ stored'[k] = stored[k] /\ storageFailed'[k]
               \/ stored'[k] = Head(cacheWrites[k]).snap
        PROVE  /\ Deleting(cacheWrites'[k])
               /\ stored'[k] # NoSnapshot
                    => storageFailed'[k] \/ DeleteQueued(cacheWrites'[k])
    <3>1. /\ Deleting(cacheWrites'[k])
          /\ Head(cacheWrites[k]).kind = "write"
               => DeleteQueued(cacheWrites'[k])
      BY <1>2, <2>t, <2>3, DeletingSettled
    <3>2. Head(cacheWrites[k]).kind # "write"
            => Head(cacheWrites[k]).snap = NoSnapshot
      <4>1. /\ Head(cacheWrites[k]) = cacheWrites[k][1]
            /\ 1 \in 1..Len(cacheWrites[k])
        BY <1>2, <2>3, HeadOfChain
      <4>2. QED  BY <1>2, <4>1 DEF ChainInv, Ordered
    <3>3. QED  BY <2>3, <3>1, <3>2
  <2>4. QED  BY <1>2, <2>1, <2>2, <2>3, ChainStep
<1>5. QED  BY <1>1, <1>3, <1>4

\* A deletion is final: neither a write that was queued before it nor one
\* that a late refresh, an accepted offer or a restored snapshot would queue
\* afterwards brings the source back.
THEOREM DeletionIsFinal == Spec => []DeletedStaysDeleted
<1>1. DeletionInv => DeletedStaysDeleted
  BY DEF DeletionInv, DeletedStaysDeleted, DeleteQueued
<1>2. Invariants => TypeInv /\ ChainInv
  BY DEF Invariants
<1>3. QED
  BY <1>1, <1>2, ChainInvariance, DeletionInvInit, DeletionInvStep, PTL
     DEF Spec

-----------------------------------------------------------------------------
(* What is shown reaches the cache.                                        *)

\* An operation writes s for the newest generation of k.
Saves(k, op, s) ==
    /\ op.kind = "write"
    /\ op.snap = s
    /\ op.guard \in {0, generations[k]}

\* The newest snapshot of a source is last in its chain, or it has left the
\* chain through the cache.
SavedInv ==
    \A k \in Keys \ deletedSources :
      active[k] # NoSnapshot /\ active[k].gen = generations[k] =>
        \/ /\ cacheWrites[k] # <<>>
           /\ Saves(k, cacheWrites[k][Len(cacheWrites[k])], active[k])
        \/ cacheWrites[k] = <<>> /\ (stored[k] = active[k] \/ storageFailed[k])

LEMMA SavedInvInit == Init => SavedInv
BY DEF Init, SavedInv

\* A write that joins a chain carries what is shown from then on.
LEMMA QueuedShown ==
  ASSUME TypeInv, SnapshotInv, ListenInv, [Next]_vars, NEW k \in Keys,
         NEW op \in CacheOp, QueuedBy(k, op), k \notin deletedSources',
         active'[k].gen = generations'[k]
  PROVE  \/ Saves(k, op, active[k])'
         \/ generations'[k] = generations[k] + 1 /\ active'[k] = active[k]
<1>t. generations[k] \in Nat /\ DOMAIN active = Keys
  BY CallTypes, SnapshotTypes
<1>1. ASSUME NEW r \in Reqs, Commit(r), reqKey[r] = k,
             op = Write(reqGen[r], [gen |-> reqGen[r],
                                    quality |-> candidate[r]])
      PROVE  Saves(k, op, active[k])'
  <2>1. Listening(r) /\ IsCurrent(r) /\ UNCHANGED generations
    BY <1>1 DEF ListenInv, Commit, Awaiting
  <2>2. active' = [active EXCEPT ![k] = [gen |-> reqGen[r],
                                         quality |-> candidate[r]]]
    BY <1>1, <2>1, Zenon DEF Commit
  <2>3. /\ op.kind = "write" /\ op.guard = reqGen[r]
        /\ op.snap = [gen |-> reqGen[r], quality |-> candidate[r]]
    BY <1>1 DEF Write
  <2>4. QED  BY <1>1, <1>t, <2>1, <2>2, <2>3 DEF Saves, IsCurrent
<1>2. ASSUME Adopt(k), NEW s, op = Write(0, s), active'[k] = op.snap
      PROVE  Saves(k, op, active[k])'
  BY <1>2 DEF Write, Saves
<1>3. ASSUME ApplyEmpty(k), generations[k] = pending[k],
             op = Write(pending[k], [gen |-> pending[k], quality |-> "empty"])
      PROVE  Saves(k, op, active[k])'
  BY <1>3, <1>t DEF Write, Saves, ApplyEmpty
<1>4. CASE DeleteSource(k)
  BY <1>4 DEF DeleteSource
<1>5. CASE ClearCache(k)
  BY <1>5, CallDomains DEF ClearCache, Outdate, NextGen, ownerVars
<1>6. QED  BY <1>1, <1>2, <1>3, <1>4, <1>5 DEF QueuedBy

\* Whoever shows a newest snapshot makes its write join the chain.
LEMMA ShownIsQueued ==
  ASSUME TypeInv, SnapshotInv, ListenInv, [Next]_vars, NEW k \in Keys,
         k \notin deletedSources',
         active'[k] # active[k], active'[k] # NoSnapshot,
         active'[k].gen = generations'[k]
  PROVE  \E op : cacheWrites'[k] = Append(cacheWrites[k], op)
<1>d. /\ DOMAIN active = Keys /\ DOMAIN cacheWrites = Keys
      /\ generations[k] \in Nat /\ pending[k] \in Nat
      /\ DOMAIN generations = Keys
  BY SnapshotTypes, ChainTypes, ListenTypes, CallDomains
<1>1. ASSUME NEW r \in Reqs, Commit(r)
      PROVE  \E op : cacheWrites'[k] = Append(cacheWrites[k], op)
  <2>1. Listening(r) /\ UNCHANGED deletedSources
    BY <1>1 DEF Commit, ListenInv, Awaiting
  <2>2. \E s : active' = [active EXCEPT ![reqKey[r]] = s]
    BY <1>1, <2>1, Zenon DEF Commit
  <2>3. reqKey[r] = k
    BY <1>d, <2>2
  <2>4. \E op : Enqueue(k, op)
    BY <1>1, <2>1, <2>3, Zenon DEF Commit
  <2>5. QED  BY <1>d, <2>4 DEF Enqueue
<1>2. ASSUME NEW l \in Keys, Adopt(l)
      PROVE  \E op : cacheWrites'[k] = Append(cacheWrites[k], op)
  <2>1. /\ \E s : active' = [active EXCEPT ![l] = s]
        /\ UNCHANGED deletedSources
        /\ l \in deletedSources \/ \E op : Enqueue(l, op)
    BY <1>2, Zenon DEF Adopt
  <2>2. l = k
    BY <1>d, <2>1
  <2>3. QED  BY <1>d, <2>1, <2>2 DEF Enqueue
<1>3. ASSUME NEW l \in Keys, ApplyEmpty(l)
      PROVE  \E op : cacheWrites'[k] = Append(cacheWrites[k], op)
  <2>1. /\ active' = [active EXCEPT ![l] = [gen |-> pending[l],
                                            quality |-> "empty"]]
        /\ UNCHANGED <<generations, deletedSources>>
    BY <1>3 DEF ApplyEmpty
  <2>2. l = k /\ generations[k] = pending[k]
    BY <1>d, <2>1
  <2>3. \E op : Enqueue(k, op)
    BY <1>3, <2>1, <2>2, Zenon DEF ApplyEmpty
  <2>4. QED  BY <1>d, <2>3 DEF Enqueue
<1>4. ASSUME NEW r \in Reqs, Progress(r), ~Commit(r) PROVE FALSE
  BY <1>4 DEF Progress, Superseded, Start, Fetched, Digested, Failed,
              AskConfirmation, Persisted, ownerVars
<1>5. ASSUME NEW l \in Keys, CacheStep(l) PROVE FALSE
  <2>1. UNCHANGED active \/ active' = [active EXCEPT ![l] = NoSnapshot]
    BY <1>5, Zenon
       DEF CacheStep, SettleWrite, SettleDelete, SettleClear, ownerVars
  <2>2. QED  BY <1>d, <2>1
<1>6. ASSUME NEW l \in Keys, User(l), ~Adopt(l), ~ApplyEmpty(l) PROVE FALSE
  <2>1. UNCHANGED active \/ active' = [active EXCEPT ![l] = NoSnapshot]
    BY <1>6, Zenon DEF User, Refresh, Cancel, DeleteSource, KeepCurrent,
                       ClearCache, ownerVars
  <2>2. QED  BY <1>d, <2>1
<1>7. CASE UNCHANGED vars
  BY <1>7 DEF vars, ownerVars
<1>8. QED
  BY <1>1, <1>2, <1>3, <1>4, <1>5, <1>6, <1>7 DEF Next

\* A source that is not deleted was not, or is refreshed.
LEMMA NotDeleted ==
  ASSUME TypeInv, [Next]_vars, NEW k \in Keys, k \notin deletedSources'
  PROVE  k \notin deletedSources \/ generations'[k] = generations[k] + 1
<1>1. ASSUME NEW r \in Reqs, Progress(r) PROVE UNCHANGED deletedSources
  BY <1>1 DEF Progress, Superseded, Start, Fetched, Digested, Failed,
              AskConfirmation, Commit, Persisted, coordVars
<1>2. ASSUME NEW l \in Keys, CacheStep(l) PROVE UNCHANGED deletedSources
  BY <1>2 DEF CacheStep, SettleWrite, SettleDelete, SettleClear, Settle
<1>3. ASSUME NEW l \in Keys, NEW r \in Reqs, Refresh(r, l)
      PROVE  k \notin deletedSources \/ generations'[k] = generations[k] + 1
  BY <1>3, CallDomains DEF Refresh, NextGen
<1>4. ASSUME NEW l \in Keys, User(l), \A r \in Reqs : ~Refresh(r, l)
      PROVE  k \notin deletedSources
  BY <1>4 DEF User, Cancel, DeleteSource, Adopt, ApplyEmpty, KeepCurrent,
              ClearCache, coordVars
<1>5. CASE UNCHANGED vars
  BY <1>5 DEF vars, coordVars
<1>6. QED  BY <1>1, <1>2, <1>3, <1>4, <1>5 DEF Next

\* Where the last operation of a chain passes its test, it is still the last
\* one when others have settled, or it was the one in progress.
LEMMA LastSettled ==
  ASSUME NEW k \in Keys, NEW q \in Seq(CacheOp), q # <<>>,
         NEW n \in 1..Len(q), Leave(k, q, n), Runs(k, q[Len(q)])
  PROVE  LET rest == SubSeq(q, n + 1, Len(q))
         IN  IF rest = <<>> THEN Head(q) = q[Len(q)]
                            ELSE rest[Len(rest)] = q[Len(q)]
<1> DEFINE rest == SubSeq(q, n + 1, Len(q))
<1>1. /\ rest \in Seq(CacheOp) /\ Len(rest) = Len(q) - n
      /\ \A i \in 1..Len(q) - n : rest[i] = q[i + n]
  BY SettledChain
<1>2. Len(q) \in Nat \ {0} /\ Head(q) = q[1]
  BY HeadOfChain
<1>3. Len(q) \notin 2..n
  BY DEF Leave
<1>4. CASE n < Len(q)
  <2>1. /\ Len(q) - n \in 1..Len(q) - n /\ Len(q) - n + n = Len(q)
        /\ Len(q) - n # 0
    BY <1>2, <1>4
  <2>2. rest[Len(rest)] = q[Len(q)]
    BY <1>1, <2>1
  <2>3. rest # <<>>
    BY <1>1, <2>1, EmptySeq
  <2>4. QED  BY <2>2, <2>3
<1>5. CASE n = Len(q)
  <2>1. Len(q) = 1
    BY <1>2, <1>3, <1>5
  <2>2. rest = <<>>
    <3>1. Len(rest) = 0
      BY <1>1, <1>5, <2>1
    <3>2. QED  BY <1>1, <3>1, EmptySeq
  <2>3. QED  BY <1>2, <2>1, <2>2
<1>6. n < Len(q) \/ n = Len(q)
  BY <1>2
<1>7. QED  BY <1>4, <1>5, <1>6

LEMMA SavedInvStep ==
  TypeInv /\ SnapshotInv /\ ListenInv /\ SavedInv /\ [Next]_vars => SavedInv'
<1> DEFINE Last(q) == q[Len(q)]
           Held(k) == \/ /\ cacheWrites[k] # <<>>
                         /\ Saves(k, Last(cacheWrites[k]), active[k])
                      \/ /\ cacheWrites[k] = <<>>
                         /\ stored[k] = active[k] \/ storageFailed[k]
<1> SUFFICES ASSUME TypeInv, SnapshotInv, ListenInv, SavedInv, [Next]_vars,
                    NEW k \in Keys, k \notin deletedSources',
                    active'[k] # NoSnapshot, active'[k].gen = generations'[k]
             PROVE  Held(k)'
  BY DEF SavedInv
<1>t. /\ cacheWrites[k] \in Seq(CacheOp) /\ Len(cacheWrites[k]) \in Nat
      /\ generations[k] \in Nat /\ active[k].gen \in Nat
      /\ active[k].gen <= generations[k]
  BY ChainTypes, ChainElements, CallTypes, SnapshotTypes DEF SnapshotInv
<1>1. ASSUME NEW op \in CacheOp, QueuedBy(k, op),
             cacheWrites'[k] = Append(cacheWrites[k], op)
      PROVE  Held(k)'
  <2>1. Saves(k, op, active[k])'
    BY <1>1, <1>t, QueuedShown
  <2>2. /\ Last(cacheWrites'[k]) = op
        /\ Len(cacheWrites'[k]) = Len(cacheWrites[k]) + 1
    BY <1>1, <1>t, AppendedChain
  <2>3. cacheWrites'[k] # <<>>
    BY <1>1, <1>t, AppendProperties
  <2>4. QED  BY <2>1, <2>2, <2>3 DEF Saves
<1>2. ASSUME active'[k] = active[k]
      PROVE  /\ generations'[k] = generations[k]
             /\ Held(k)
             /\ \A op : cacheWrites[k] # <<>> /\ op = Last(cacheWrites[k]) =>
                  Runs(k, op) /\ Saves(k, op, active[k])'
  <2>1. generations'[k] = generations[k]
    BY <1>t, <1>2, CallStep
  <2>2. k \notin deletedSources
    BY <1>t, <2>1, NotDeleted
  <2>3. Held(k)
    BY <1>2, <2>1, <2>2 DEF SavedInv
  <2>4. QED  BY <1>2, <2>1, <2>2, <2>3 DEF Runs, Saves
<1>3. CASE /\ cacheWrites'[k] = cacheWrites[k] /\ stored'[k] = stored[k]
           /\ storageFailed'[k] = storageFailed[k]
  <2>1. active'[k] = active[k]
    <3>1. \A op : cacheWrites[k] # Append(cacheWrites[k], op)
      BY <1>t
    <3>2. QED  BY <1>3, <3>1, ShownIsQueued
  <2>2. QED  BY <1>2, <1>3, <2>1 DEF Saves
<1>4. ASSUME NEW n \in 1..Len(cacheWrites[k]), cacheWrites[k] # <<>>,
             Leave(k, cacheWrites[k], n),
             cacheWrites'[k] =
               SubSeq(cacheWrites[k], n + 1, Len(cacheWrites[k])),
             \/ stored'[k] = stored[k] /\ storageFailed'[k]
             \/ stored'[k] = Head(cacheWrites[k]).snap
      PROVE  Held(k)'
  <2>1. /\ cacheWrites'[k] \in Seq(CacheOp)
        /\ Len(cacheWrites'[k]) = Len(cacheWrites[k]) - n
        /\ \A i \in 1..Len(cacheWrites[k]) - n :
             cacheWrites'[k][i] = cacheWrites[k][i + n]
    BY <1>4, <1>t, SettledChain
  <2>2. active'[k] = active[k]
    <3>1. \A op : Len(Append(cacheWrites[k], op)) = Len(cacheWrites[k]) + 1
      BY <1>t
    <3>2. Len(cacheWrites'[k]) # Len(cacheWrites[k]) + 1
      BY <1>t, <2>1
    <3>3. QED  BY <3>1, <3>2, ShownIsQueued
  <2>3. PICK op : /\ op = Last(cacheWrites[k])
                  /\ Runs(k, op) /\ Saves(k, op, active[k])'
    BY <1>2, <1>4, <2>2
  <2>4. CASE cacheWrites'[k] = <<>>
    <3>1. Head(cacheWrites[k]) = op
      BY <1>4, <1>t, <2>3, <2>4, LastSettled
    <3>2. Head(cacheWrites[k]).snap = active'[k]
      BY <2>3, <3>1 DEF Saves
    <3>3. QED  BY <1>4, <2>4, <3>2
  <2>5. CASE cacheWrites'[k] # <<>>
    <3>1. Last(cacheWrites'[k]) = op
      BY <1>4, <1>t, <2>3, <2>5, LastSettled
    <3>2. QED  BY <2>3, <2>5, <3>1 DEF Saves
  <2>6. QED  BY <2>4, <2>5
<1>5. QED  BY <1>1, <1>3, <1>4, ChainStep

\* When all has settled and the cache did not fail, it holds the newest
\* snapshot: among the writes that are dropped as outdated there is never
\* the one that matters.
THEOREM NewestReachesCache == Spec => []NewestIsSaved
<1>1. SavedInv => NewestIsSaved
  BY DEF SavedInv, NewestIsSaved, AtRest
<1>2. Invariants => TypeInv /\ SnapshotInv /\ ListenInv
  BY DEF Invariants
<1>3. QED
  BY <1>1, <1>2, ChainInvariance, SavedInvInit, SavedInvStep, PTL DEF Spec

\* The store still listens to the refresh of the newest snapshot, and that
\* snapshot is on its way to the cache under a generation the store knows, or
\* in the cache, or reported.
ReportInv ==
    \A k \in Keys \ deletedSources :
      /\ active[k] # NoSnapshot
      /\ active[k].gen = generations[k]
      /\ requestGeneration[k] = generations[k]
      => IF cacheWrites[k] = <<>>
           THEN stored[k] = active[k] \/ cacheError[k]
           ELSE cacheWrites[k][Len(cacheWrites[k])].guard # 0

LEMMA ReportInvInit == Init => ReportInv
BY DEF Init, ReportInv

\* While the newest snapshot stays, and stays the one of the refresh the store
\* listens to, nobody takes a report back: a start, an offer and a result of a
\* refresh would be newer.
LEMMA ReportStays ==
  ASSUME TypeInv, SnapshotInv, ListenInv, [Next]_vars, NEW k \in Keys,
         active'[k] = active[k], active[k] # NoSnapshot,
         active[k].gen = generations'[k],
         requestGeneration'[k] = generations'[k]
  PROVE  /\ requestGeneration[k] = requestGeneration'[k]
         /\ cacheError[k] => cacheError'[k]
<1> DEFINE Stays == /\ requestGeneration[k] = requestGeneration'[k]
                    /\ cacheError[k] => cacheError'[k]
<1>t. /\ \A r \in Reqs : reqKey[r] \in Keys /\ reqGen[r] \in Nat
      /\ generations[k] \in Nat /\ pending[k] \in Nat
      /\ active[k].gen \in Nat /\ active[k].gen <= generations[k]
      /\ pending[k] # 0 => active[k].gen < pending[k]
      /\ DOMAIN active = Keys /\ DOMAIN requestGeneration = Keys
      /\ DOMAIN cacheError = Keys /\ DOMAIN generations = Keys
  BY CallTypes, SnapshotTypes DEF SnapshotInv, TypeInv, TypeOK
<1>1. ASSUME NEW r \in Reqs, Start(r) PROVE Stays
  <2>1. /\ active[reqKey[r]].gen < reqGen[r]
        /\ requestGeneration' = [requestGeneration EXCEPT ![reqKey[r]] = reqGen[r]]
        /\ cacheError' = [cacheError EXCEPT ![reqKey[r]] = FALSE]
    BY <1>1 DEF Start, SnapshotInv, Awaiting
  <2>2. reqKey[r] # k
    BY <1>t, <2>1
  <2>3. QED  BY <1>t, <2>1, <2>2
<1>2. ASSUME NEW r \in Reqs, Commit(r) PROVE Stays
  <2>1. /\ active[reqKey[r]].gen < reqGen[r]
        /\ Listening(r)
        /\ UNCHANGED requestGeneration
    BY <1>2 DEF Commit, SnapshotInv, ListenInv, Awaiting
  <2>2. /\ active' = [active EXCEPT ![reqKey[r]] =
                        [gen |-> reqGen[r], quality |-> candidate[r]]]
        /\ cacheError' = [cacheError EXCEPT ![reqKey[r]] = FALSE]
    BY <1>2, <2>1, Zenon DEF Commit
  <2>3. reqKey[r] # k
    BY <1>t, <2>1, <2>2
  <2>4. QED  BY <1>t, <2>1, <2>2, <2>3
<1>3. ASSUME NEW r \in Reqs, Progress(r), ~Start(r), ~Commit(r) PROVE Stays
  BY <1>3 DEF Progress, Superseded, Fetched, Digested, Failed,
              AskConfirmation, Persisted, ownerVars
<1>4. ASSUME NEW l \in Keys, Cancel(l) \/ DeleteSource(l) PROVE Stays
  <2>1. /\ active' = [active EXCEPT ![l] = NoSnapshot]
        /\ requestGeneration' = [requestGeneration EXCEPT ![l] = 0]
        /\ cacheError' = [cacheError EXCEPT ![l] = FALSE]
    BY <1>4 DEF Cancel, DeleteSource
  <2>2. QED  BY <1>t, <2>1
<1>5. ASSUME NEW l \in Keys, Adopt(l) PROVE Stays
  <2>1. /\ generations' = [generations EXCEPT ![l] = generations[l] + 1]
        /\ requestGeneration' = [requestGeneration EXCEPT ![l] = 0]
        /\ cacheError' = [cacheError EXCEPT ![l] = FALSE]
    BY <1>5 DEF Adopt, Outdate, NextGen
  <2>2. l # k
    BY <1>t, <2>1
  <2>3. QED  BY <1>t, <2>1, <2>2
<1>6. ASSUME NEW l \in Keys, ApplyEmpty(l) PROVE Stays
  <2>1. /\ pending[l] # 0
        /\ active' = [active EXCEPT ![l] = [gen |-> pending[l],
                                            quality |-> "empty"]]
        /\ cacheError' = [cacheError EXCEPT ![l] = FALSE]
        /\ UNCHANGED requestGeneration
    BY <1>6 DEF ApplyEmpty
  <2>2. l # k
    BY <1>t, <2>1
  <2>3. QED  BY <1>t, <2>1, <2>2
<1>7. ASSUME NEW l \in Keys, User(l), ~Cancel(l), ~DeleteSource(l),
             ~Adopt(l), ~ApplyEmpty(l)
      PROVE  Stays
  BY <1>7 DEF User, Refresh, KeepCurrent, ClearCache, ownerVars
<1>8. ASSUME NEW l \in Keys, SettleClear(l) PROVE Stays
  <2>1. \/ UNCHANGED ownerVars
        \/ \E e \in BOOLEAN :
             /\ active' = [active EXCEPT ![l] = NoSnapshot]
             /\ requestGeneration' = [requestGeneration EXCEPT ![l] = 0]
             /\ cacheError' = [cacheError EXCEPT ![l] = e]
    BY <1>8, Zenon DEF SettleClear
  <2>2. QED  BY <1>t, <2>1 DEF ownerVars
<1>9. ASSUME NEW l \in Keys, SettleWrite(l) PROVE Stays
  <2>1. /\ UNCHANGED requestGeneration
        /\ \E e : cacheError' = [cacheError EXCEPT ![l] = @ \/ e]
    BY <1>9, Zenon DEF SettleWrite
  <2>2. QED  BY <1>t, <2>1
<1>10. ASSUME NEW l \in Keys, SettleDelete(l) PROVE Stays
  BY <1>10 DEF SettleDelete, ownerVars
<1>11. CASE UNCHANGED vars
  BY <1>11 DEF vars, ownerVars
<1>12. QED
  BY <1>1, <1>2, <1>3, <1>4, <1>5, <1>6, <1>7, <1>8, <1>9, <1>10, <1>11
     DEF Next, CacheStep

\* A write of the refresh the store listens to succeeds or is reported.
LEMMA WriteIsHeard ==
  ASSUME TypeInv, NEW k \in Keys, CacheStep(k),
         Head(cacheWrites[k]).kind = "write",
         Head(cacheWrites[k]).guard # 0,
         Head(cacheWrites[k]).guard = requestGeneration[k]
  PROVE  stored'[k] = Head(cacheWrites[k]).snap \/ cacheError'[k]
<1>1. SettleWrite(k)
  BY DEF CacheStep, SettleDelete, SettleClear, Settle
<1>2. PICK ok \in BOOLEAN :
        /\ Settle(k, "write", ok)
        /\ cacheError' = [cacheError EXCEPT ![k] =
              @ \/ (~ok /\ Head(cacheWrites[k]).guard # 0
                        /\ Head(cacheWrites[k]).guard = requestGeneration[k])]
  BY <1>1, Zenon DEF SettleWrite
<1>3. DOMAIN stored = Keys /\ DOMAIN cacheError = Keys
  BY DEF TypeInv, TypeOK
<1>4. CASE ok
  BY <1>2, <1>3, <1>4 DEF Settle
<1>5. CASE ~ok
  BY <1>2, <1>3, <1>5
<1>6. QED  BY <1>4, <1>5

LEMMA ReportInvStep ==
  TypeInv /\ SnapshotInv /\ ListenInv /\ SavedInv /\ ReportInv /\ [Next]_vars
  => ReportInv'
<1> DEFINE Last(q) == q[Len(q)]
           Heard(k) == IF cacheWrites[k] = <<>>
                         THEN stored[k] = active[k] \/ cacheError[k]
                         ELSE Last(cacheWrites[k]).guard # 0
<1> SUFFICES ASSUME TypeInv, SnapshotInv, ListenInv, SavedInv, ReportInv,
                    [Next]_vars, NEW k \in Keys, k \notin deletedSources',
                    active'[k] # NoSnapshot, active'[k].gen = generations'[k],
                    requestGeneration'[k] = generations'[k]
             PROVE  Heard(k)'
  BY DEF ReportInv
<1>t. /\ cacheWrites[k] \in Seq(CacheOp) /\ Len(cacheWrites[k]) \in Nat
      /\ generations[k] \in Nat /\ active[k].gen \in Nat
      /\ active[k].gen <= generations[k]
  BY ChainTypes, ChainElements, CallTypes, SnapshotTypes DEF SnapshotInv
<1>d. /\ \A r \in Reqs : reqGen[r] \in Nat
      /\ DOMAIN active = Keys /\ DOMAIN requestGeneration = Keys
      /\ DOMAIN generations = Keys
  BY CallTypes, SnapshotTypes, CallDomains
<1>1. ASSUME NEW op \in CacheOp, QueuedBy(k, op),
             cacheWrites'[k] = Append(cacheWrites[k], op)
      PROVE  Heard(k)'
  <2>1. op.guard # 0
    <3>1. ASSUME NEW r \in Reqs, Commit(r), reqKey[r] = k,
                 op = Write(reqGen[r], [gen |-> reqGen[r],
                                        quality |-> candidate[r]])
          PROVE  op.guard # 0
      <4>1. active[k].gen < reqGen[r]
        BY <3>1 DEF Commit, SnapshotInv, Awaiting
      <4>2. QED  BY <1>t, <1>d, <3>1, <4>1 DEF Write
    <3>2. CASE Adopt(k)
      <4>1. /\ requestGeneration' = [requestGeneration EXCEPT ![k] = 0]
            /\ generations' = [generations EXCEPT ![k] = generations[k] + 1]
        BY <3>2 DEF Adopt, Outdate, NextGen
      <4>2. QED  BY <1>t, <1>d, <4>1
    <3>3. CASE /\ ApplyEmpty(k)
               /\ op = Write(pending[k], [gen |-> pending[k],
                                          quality |-> "empty"])
      BY <3>3 DEF ApplyEmpty, Write
    <3>4. CASE DeleteSource(k)
      BY <1>d, <3>4 DEF DeleteSource
    <3>5. CASE ClearCache(k)
      <4>1. /\ generations' = [generations EXCEPT ![k] = generations[k] + 1]
            /\ active' = active
        BY <3>5 DEF ClearCache, Outdate, NextGen, ownerVars
      <4>2. QED  BY <1>t, <1>d, <4>1
    <3>6. QED  BY <1>1, <3>1, <3>2, <3>3, <3>4, <3>5 DEF QueuedBy
  <2>2. Last(cacheWrites'[k]) = op
    BY <1>1, <1>t, AppendedChain
  <2>3. cacheWrites'[k] # <<>>
    BY <1>1, <1>t, AppendProperties
  <2>4. QED  BY <2>1, <2>2, <2>3
<1>2. ASSUME active'[k] = active[k]
      PROVE  /\ generations'[k] = generations[k]
             /\ requestGeneration'[k] = requestGeneration[k]
             /\ cacheError[k] => cacheError'[k]
             /\ k \notin deletedSources
             /\ Heard(k)
  <2>1. generations'[k] = generations[k]
    BY <1>t, <1>2, CallStep
  <2>2. k \notin deletedSources
    BY <1>t, <2>1, NotDeleted
  <2>3. /\ requestGeneration'[k] = requestGeneration[k]
        /\ cacheError[k] => cacheError'[k]
    BY <1>2, ReportStays
  <2>4. Heard(k)
    BY <1>2, <2>1, <2>2, <2>3 DEF ReportInv
  <2>5. QED  BY <2>1, <2>2, <2>3, <2>4
<1>3. CASE /\ cacheWrites'[k] = cacheWrites[k] /\ stored'[k] = stored[k]
           /\ storageFailed'[k] = storageFailed[k]
  <2>1. active'[k] = active[k]
    <3>1. \A op : cacheWrites[k] # Append(cacheWrites[k], op)
      BY <1>t
    <3>2. QED  BY <1>3, <3>1, ShownIsQueued
  <2>2. QED  BY <1>2, <1>3, <2>1
<1>4. ASSUME CacheStep(k), cacheWrites[k] # <<>>,
             NEW n \in 1..Len(cacheWrites[k]), Leave(k, cacheWrites[k], n),
             cacheWrites'[k] =
               SubSeq(cacheWrites[k], n + 1, Len(cacheWrites[k]))
      PROVE  Heard(k)'
  <2>1. active'[k] = active[k]
    <3>1. \A op : Len(Append(cacheWrites[k], op)) = Len(cacheWrites[k]) + 1
      BY <1>t
    <3>2. Len(cacheWrites'[k]) = Len(cacheWrites[k]) - n
      BY <1>4, <1>t, SettledChain
    <3>3. Len(cacheWrites'[k]) # Len(cacheWrites[k]) + 1
      BY <1>t, <3>2
    <3>4. QED  BY <3>1, <3>3, ShownIsQueued
  <2>2. PICK op : /\ op = Last(cacheWrites[k])
                  /\ op.guard # 0
                  /\ Saves(k, op, active[k])
    BY <1>2, <1>4, <2>1 DEF SavedInv
  <2>3. Runs(k, op)
    BY <1>2, <2>1, <2>2 DEF Runs, Saves
  <2>4. CASE cacheWrites'[k] # <<>>
    BY <1>4, <1>t, <2>2, <2>3, <2>4, LastSettled
  <2>5. CASE cacheWrites'[k] = <<>>
    <3>1. Head(cacheWrites[k]) = op
      BY <1>4, <1>t, <2>2, <2>3, <2>5, LastSettled
    <3>2. op.guard = requestGeneration[k]
      BY <1>2, <2>1, <2>2 DEF Saves
    <3>3. stored'[k] = op.snap \/ cacheError'[k]
      BY <1>4, <2>2, <3>1, <3>2, WriteIsHeard DEF Saves
    <3>4. QED  BY <2>1, <2>2, <2>5, <3>3 DEF Saves
  <2>6. QED  BY <2>4, <2>5
<1>5. QED  BY <1>1, <1>3, <1>4, ChainStep

\* A save that failed is reported: whatever storage refuses and whatever else
\* is queued, the newest snapshot that was fetched is at rest in the cache, or
\* the user was told that it is not.
THEOREM FailedSavesAreReported == Spec => []FailedSaveIsReported
<1>1. ReportInv => FailedSaveIsReported
  BY DEF ReportInv, FailedSaveIsReported, AtRest
<1>2. Invariants => TypeInv /\ SnapshotInv /\ ListenInv
  BY DEF Invariants
<1>3. QED
  BY <1>1, <1>2, ChainInvariance, SavedInvInit, SavedInvStep, ReportInvInit,
     ReportInvStep, PTL DEF Spec

-----------------------------------------------------------------------------
(* Copies on their way to the cache.                                       *)

Copies(q) == {q[i].snap : i \in Writes(q)}

Unsaved == [k \in Keys |-> UnsavedSnapshots(k)]

LEMMA UnsavedCopies == \A k \in Keys : UnsavedSnapshots(k) = Copies(cacheWrites[k])
BY DEF UnsavedSnapshots, Copies, Writes

LEMMA CopiesAppend ==
  ASSUME NEW q \in Seq(CacheOp), NEW op \in CacheOp
  PROVE  Copies(Append(q, op)) =
           IF op.kind = "write" THEN Copies(q) \cup {op.snap} ELSE Copies(q)
<1> DEFINE p == Append(q, op)
<1>1. /\ Len(p) = Len(q) + 1 /\ p[Len(q) + 1] = op
      /\ \A i \in 1..Len(q) : p[i] = q[i]
      /\ Len(q) \in Nat
  BY AppendedChain, ChainElements
<1> HIDE DEF p
<1>2. \A i \in Writes(p) : \/ i \in Writes(q) /\ p[i] = q[i]
                           \/ p[i] = op /\ op.kind = "write"
  BY <1>1 DEF Writes
<1>3. \A i \in Writes(q) : i \in Writes(p) /\ p[i] = q[i]
  BY <1>1 DEF Writes
<1>4. op.kind = "write" => Len(q) + 1 \in Writes(p) /\ p[Len(q) + 1] = op
  BY <1>1 DEF Writes
<1>5. Copies(p) = IF op.kind = "write" THEN Copies(q) \cup {op.snap}
                                       ELSE Copies(q)
  BY <1>2, <1>3, <1>4 DEF Copies
<1>6. QED  BY <1>5 DEF p

\* What is left when the head of a chain has settled was on its way before,
\* and is newer than the head.
LEMMA CopiesSettled ==
  ASSUME NEW q \in Seq(CacheOp), NEW s, NEW n \in 1..Len(q), Ordered(q, s)
  PROVE  /\ Copies(SubSeq(q, n + 1, Len(q))) \subseteq Copies(q)
         /\ Head(q).kind = "write" =>
              /\ Head(q).snap \in Copies(q)
              /\ s.gen < Head(q).snap.gen
              /\ \A t \in Copies(SubSeq(q, n + 1, Len(q))) :
                   t.gen > Head(q).snap.gen
         /\ Head(q).kind # "write" => Head(q).snap = NoSnapshot
<1> DEFINE p == SubSeq(q, n + 1, Len(q))
<1>1. /\ Len(p) = Len(q) - n
      /\ \A i \in 1..Len(q) - n : p[i] = q[i + n]
  BY SettledChain
<1>2. Len(q) \in Nat /\ n \in Nat /\ 1 \in 1..Len(q)
  BY ChainElements
<1>3. Head(q) = q[1]
  BY <1>2, HeadOfChain, EmptySeq
<1>4. \A i \in Writes(p) : /\ i + n \in Writes(q) /\ 1 < i + n
                           /\ p[i] = q[i + n]
  BY <1>1, <1>2 DEF Writes
<1> HIDE DEF p
<1>5. Copies(p) \subseteq Copies(q)
  BY <1>4 DEF Copies
<1>6. ASSUME q[1].kind = "write"
      PROVE  /\ q[1].snap \in Copies(q)
             /\ s.gen < q[1].snap.gen
             /\ \A t \in Copies(p) : t.gen > q[1].snap.gen
  <2>1. 1 \in Writes(q)
    BY <1>2, <1>6 DEF Writes
  <2>2. \A i \in Writes(p) : q[1].snap.gen < p[i].snap.gen
    BY <1>4, <2>1 DEF Ordered
  <2>3. \A i \in Writes(p) : q[1].snap.gen \in Nat /\ p[i].snap.gen \in Nat
    BY <1>2, <1>4, ChainElements DEF Writes
  <2>4. QED  BY <2>1, <2>2, <2>3 DEF Copies, Ordered
<1>7. q[1].kind # "write" => q[1].snap = NoSnapshot
  BY <1>2 DEF Ordered
<1>8. QED  BY <1>3, <1>5, <1>6, <1>7 DEF p

\* Only the copies of the source whose chain changes change.
LEMMA UnsavedStep ==
  ASSUME TypeInv, NEW k \in Keys, NEW q,
         cacheWrites' = [cacheWrites EXCEPT ![k] = q]
  PROVE  Unsaved' = [Unsaved EXCEPT ![k] = Copies(q)]
<1>1. DOMAIN cacheWrites = Keys
  BY ChainTypes
<1>2. \A l \in Keys : UnsavedSnapshots(l)' =
        IF l = k THEN Copies(q) ELSE UnsavedSnapshots(l)
  BY <1>1 DEF UnsavedSnapshots, Copies, Writes
<1>3. QED  BY <1>2 DEF Unsaved

LEMMA UnsavedSame == UNCHANGED cacheWrites => UNCHANGED Unsaved
BY DEF Unsaved, UnsavedSnapshots

-----------------------------------------------------------------------------
\* Generations are bounded as those of the abstract specification are.
GenBound == \A k \in Keys : generations[k] <= MaxGen

LEMMA GenBoundInit == Init => GenBound
<1>1. 0 <= MaxGen
  BY MaxGenAssumption
<1>2. Init => generations = [k \in Keys |-> 0]
  BY Zenon DEF Init
<1>3. QED  BY <1>1, <1>2 DEF GenBound

LEMMA GenBoundStep == TypeInv /\ GenBound /\ [Next]_vars => GenBound'
<1> SUFFICES ASSUME TypeInv, GenBound, [Next]_vars PROVE GenBound'
  OBVIOUS
<1>t. \A k \in Keys : generations[k] \in Nat
  BY CallTypes
<1>1. ASSUME NEW k \in Keys, generations[k] < MaxGen,
             generations' = [generations EXCEPT ![k] = NextGen(k)]
      PROVE  GenBound'
  BY <1>1, <1>t, CallDomains, MaxGenAssumption DEF GenBound, NextGen
<1>2. ASSUME NEW r \in Reqs, Progress(r) PROVE UNCHANGED generations
  BY <1>2 DEF Progress, Superseded, Start, Fetched, Digested, Failed,
              AskConfirmation, Commit, Persisted, coordVars
<1>3. ASSUME NEW k \in Keys, CacheStep(k) PROVE UNCHANGED generations
  BY <1>3 DEF CacheStep, SettleWrite, SettleDelete, SettleClear, Settle
<1>4. ASSUME NEW k \in Keys, User(k)
      PROVE  \/ UNCHANGED generations
             \/ /\ generations[k] < MaxGen
                /\ generations' = [generations EXCEPT ![k] = NextGen(k)]
  BY <1>4, Zenon DEF User, Refresh, Cancel, DeleteSource, Adopt, ApplyEmpty,
              KeepCurrent, ClearCache, Outdate, coordVars
<1>5. CASE UNCHANGED generations
  BY <1>5 DEF GenBound
<1>6. QED
  BY <1>1, <1>2, <1>3, <1>4, <1>5 DEF Next, vars, coordVars

-----------------------------------------------------------------------------
(* Steps of the coordinator as steps of the abstract specification.        *)

RefInv == Invariants /\ GenBound

LEMMA RefTypes ==
  ASSUME RefInv
  PROVE  /\ TypeInv /\ CallInv /\ SnapshotInv /\ ClearInv /\ ListenInv
         /\ ChainInv
         /\ \A k \in Keys : /\ generations[k] \in 0..MaxGen
                            /\ requestGeneration[k] \in Nat
                            /\ pending[k] \in 0..MaxGen
                            /\ active[k].gen \in Nat
         /\ \A r \in Reqs : reqKey[r] \in Keys /\ reqGen[r] \in Nat
<1>1. TypeInv /\ CallInv /\ SnapshotInv /\ ClearInv /\ ListenInv /\ ChainInv
  BY DEF RefInv, Invariants
<1>2. \A k \in Keys : /\ generations[k] \in Nat /\ pending[k] \in Nat
                      /\ generations[k] <= MaxGen
                      /\ pending[k] <= generations[k]
  BY <1>1, ListenTypes DEF RefInv, GenBound, SnapshotInv
<1>3. \A k \in Keys : generations[k] \in 0..MaxGen /\ pending[k] \in 0..MaxGen
  <2>1. MaxGen \in Nat
    BY MaxGenAssumption
  <2>2. \A g, p \in Nat : p <= g /\ g <= MaxGen
                          => g \in 0..MaxGen /\ p \in 0..MaxGen
    BY <2>1
  <2>3. QED  BY <1>2, <2>2
<1>4. QED  BY <1>1, <1>3, ListenTypes, SnapshotTypes

LEMMA StartAnnounces ==
  ASSUME RefInv, NEW r \in Reqs, Start(r)
  PROVE  LKG!Announce(reqKey[r], reqGen[r]) /\ reqGen[r] \in 0..MaxGen
<1> DEFINE k == reqKey[r]
<1>1. /\ pc[r] = "hashing" /\ pc[r] \in Awaiting /\ IsCurrent(r)
      /\ requestGeneration' = [requestGeneration EXCEPT ![k] = reqGen[r]]
      /\ pending' = [pending EXCEPT ![k] = 0]
      /\ UNCHANGED <<active, cacheWrites, stored>>
  BY DEF Start, Awaiting, coordVars, repoVars
<1>2. reqGen[r] > requestGeneration[k]
  BY <1>1, RefTypes DEF ListenInv
<1>3. reqGen[r] > active[k].gen
  BY <1>1, RefTypes DEF SnapshotInv
<1>4. UNCHANGED Unsaved
  BY <1>1, UnsavedSame
<1>5. reqGen[r] \in 0..MaxGen
  BY <1>1, RefTypes DEF IsCurrent
<1>6. QED
  BY <1>1, <1>2, <1>3, <1>4, <1>5 DEF LKG!Announce, Unsaved

LEMMA AskOffers ==
  ASSUME RefInv, NEW r \in Reqs, AskConfirmation(r)
  PROVE  LKG!Offer(reqKey[r], reqGen[r]) /\ reqGen[r] \in 0..MaxGen
<1> DEFINE k == reqKey[r]
<1>1. /\ pc[r] = "diffing" /\ pc[r] \in Awaiting /\ IsCurrent(r)
      /\ Listening(r) => pending' = [pending EXCEPT ![k] = reqGen[r]]
      /\ UNCHANGED <<requestGeneration, active, cacheWrites, stored>>
  BY DEF AskConfirmation, Awaiting, repoVars
<1>2. Listening(r)
  BY <1>1, RefTypes DEF ListenInv
<1>3. reqGen[r] > active[k].gen
  BY <1>1, RefTypes DEF SnapshotInv
<1>4. UNCHANGED Unsaved
  BY <1>1, UnsavedSame
<1>5. reqGen[r] \in 0..MaxGen
  BY <1>1, RefTypes DEF IsCurrent
<1>6. QED
  BY <1>1, <1>2, <1>3, <1>4, <1>5 DEF LKG!Offer, Unsaved, Listening

\* A snapshot that joins the chain is sent, one that does not is not.
LEMMA EnqueueSends ==
  ASSUME TypeInv, NEW k \in Keys, NEW op \in CacheOp, op.kind = "write",
         UNCHANGED cacheWrites \/ Enqueue(k, op)
  PROVE  LKG!Send(k, op.snap)
<1>1. CASE UNCHANGED cacheWrites
  BY <1>1, UnsavedSame DEF LKG!Send, Unsaved
<1>2. CASE Enqueue(k, op)
  <2>1. cacheWrites[k] \in Seq(CacheOp)
    BY ChainTypes
  <2>2. Unsaved' = [Unsaved EXCEPT ![k] = Copies(cacheWrites[k]) \cup {op.snap}]
    <3>1. cacheWrites' =
            [cacheWrites EXCEPT ![k] = Append(cacheWrites[k], op)]
      BY <1>2 DEF Enqueue
    <3>2. Copies(Append(cacheWrites[k], op)) =
            Copies(cacheWrites[k]) \cup {op.snap}
      BY <2>1, CopiesAppend
    <3>3. Unsaved' = [Unsaved EXCEPT ![k] = Copies(Append(cacheWrites[k], op))]
      BY <3>1, UnsavedStep
    <3>4. QED  BY <3>2, <3>3
  <2>3. Unsaved[k] = Copies(cacheWrites[k])
    BY UnsavedCopies DEF Unsaved
  <2>4. Unsaved' = [Unsaved EXCEPT ![k] = @ \cup {op.snap}]
    BY <2>2, <2>3
  <2>5. QED  BY <2>4 DEF LKG!Send, Unsaved
<1>3. QED  BY <1>1, <1>2

LEMMA EnqueueKeeps ==
  ASSUME TypeInv, NEW k \in Keys, NEW op \in CacheOp, op.kind # "write",
         Enqueue(k, op)
  PROVE  UNCHANGED Unsaved
<1>1. cacheWrites[k] \in Seq(CacheOp)
  BY ChainTypes
<1>2. Unsaved' = [Unsaved EXCEPT ![k] = Copies(cacheWrites[k])]
  BY <1>1, UnsavedStep, CopiesAppend DEF Enqueue
<1>3. Unsaved[k] = Copies(cacheWrites[k])
  BY UnsavedCopies DEF Unsaved
<1>4. QED  BY <1>2, <1>3 DEF Unsaved

\* The abstract snapshots are those with a bounded generation.
LEMMA AbstractSnapshots ==
  /\ LKG!Snapshot = [gen : 0..MaxGen, quality : Quality]
  /\ LKG!Nothing = NoSnapshot
BY DEF LKG!Snapshot, LKG!Nothing, LKG!Quality, Quality, NoSnapshot

LEMMA CommitShows ==
  ASSUME RefInv, NEW r \in Reqs, Commit(r)
  PROVE  \E s \in LKG!Snapshot : LKG!Show(reqKey[r], s)
<1> DEFINE k == reqKey[r]
           s == [gen |-> reqGen[r], quality |-> candidate[r]]
<1>t. TypeInv /\ k \in Keys /\ reqGen[r] \in Nat
  BY RefTypes
<1>1. /\ pc[r] = "diffing" /\ pc[r] \in Awaiting /\ IsCurrent(r)
      /\ ~NeedsConfirmation(r)
      /\ UNCHANGED <<requestGeneration, stored>>
      /\ UNCHANGED cacheWrites \/ Enqueue(k, Write(reqGen[r], s))
  BY DEF Commit, Awaiting, repoVars
<1>2. Listening(r)
  BY <1>1, RefTypes DEF ListenInv
<1>3. /\ active' = [active EXCEPT ![k] = s]
      /\ pending' = [pending EXCEPT ![k] = 0]
  BY <1>2, Zenon DEF Commit
<1>4. candidate[r] \in {"usable", "empty"}
  BY <1>1, <1>t DEF TypeInv, TypeOK, AnswerInv, Quality
<1>5. s \in LKG!Snapshot
  <2>1. reqGen[r] \in 0..MaxGen
    BY <1>1, RefTypes DEF IsCurrent
  <2>2. QED  BY <1>4, <2>1, AbstractSnapshots DEF Quality
<1>6. LKG!Send(k, s)
  <2>1. /\ Write(reqGen[r], s) \in CacheOp /\ Write(reqGen[r], s).kind = "write"
        /\ Write(reqGen[r], s).snap = s
    BY <1>t, <1>4, OpTypes DEF Write, Snapshot, Quality
  <2>2. QED  BY <1>1, <1>t, <2>1, EnqueueSends
<1>7. /\ s.gen > active[k].gen
      /\ ~(active[k].quality = "usable" /\ s.quality = "empty")
  BY <1>1, RefTypes DEF SnapshotInv, NeedsConfirmation
<1>8. s.gen = requestGeneration[k] /\ s.quality # "none"
  BY <1>2, <1>4 DEF Listening
<1> HIDE DEF s, k
<1>9. LKG!Show(k, s)
  BY <1>1, <1>3, <1>6, <1>7, <1>8 DEF LKG!Show
<1>10. QED  BY <1>5, <1>9 DEF k

LEMMA ApplyEmptyShows ==
  ASSUME RefInv, NEW k \in Keys, ApplyEmpty(k)
  PROVE  \E s \in LKG!Snapshot : LKG!Show(k, s)
<1> DEFINE s == [gen |-> pending[k], quality |-> "empty"]
<1>t. TypeInv /\ pending[k] \in Nat
  BY RefTypes
<1>1. /\ pending[k] # 0
      /\ active' = [active EXCEPT ![k] = s]
      /\ pending' = [pending EXCEPT ![k] = 0]
      /\ UNCHANGED <<requestGeneration, stored>>
      /\ UNCHANGED cacheWrites \/ Enqueue(k, Write(pending[k], s))
  BY DEF ApplyEmpty, repoVars
<1>2. s \in LKG!Snapshot
  BY RefTypes, AbstractSnapshots DEF Quality
<1>3. LKG!Send(k, s)
  <2>1. /\ Write(pending[k], s) \in CacheOp /\ Write(pending[k], s).kind = "write"
        /\ Write(pending[k], s).snap = s
    BY <1>t, OpTypes DEF Write, Snapshot, Quality
  <2>2. QED  BY <1>1, <1>t, <2>1, EnqueueSends
<1>4. s.gen > active[k].gen
  BY <1>1, RefTypes DEF SnapshotInv
<1>5. /\ s.gen = requestGeneration[k] /\ s.quality # "none"
      /\ s.gen = pending[k]
  BY <1>1, RefTypes DEF ListenInv
<1> HIDE DEF s
<1>6. LKG!Show(k, s)
  BY <1>1, <1>3, <1>4, <1>5 DEF LKG!Show
<1>7. QED  BY <1>2, <1>6

LEMMA AdoptRestores ==
  ASSUME RefInv, NEW k \in Keys, Adopt(k)
  PROVE  \E s \in LKG!Snapshot : LKG!Restore(k, s)
<1>t. TypeInv /\ generations[k] \in 0..MaxGen /\ active[k].gen \in Nat
  BY RefTypes
<1>1. PICK q \in {"usable", "empty"} :
        LET s == [gen |-> NextGen(k), quality |-> q] IN
        /\ Outdate(k)
        /\ active' = [active EXCEPT ![k] = s]
        /\ requestGeneration' = [requestGeneration EXCEPT ![k] = 0]
        /\ pending' = [pending EXCEPT ![k] = 0]
        /\ UNCHANGED cacheWrites \/ Enqueue(k, Write(0, s))
        /\ UNCHANGED stored
  BY DEF Adopt, repoVars
<1> DEFINE s == [gen |-> NextGen(k), quality |-> q]
<1>2. /\ s.gen = generations[k] + 1 /\ s.quality = q
      /\ generations[k] < MaxGen
  BY <1>1 DEF NextGen, Outdate
<1>3. s \in LKG!Snapshot /\ s \in Snapshot
  <2>1. NextGen(k) \in 0..MaxGen /\ NextGen(k) \in Nat
    BY <1>t, <1>2, MaxGenAssumption DEF NextGen
  <2>2. QED  BY <2>1, AbstractSnapshots DEF Snapshot, Quality
<1>4. LKG!Send(k, s)
  <2>1. /\ Write(0, s) \in CacheOp /\ Write(0, s).kind = "write"
        /\ Write(0, s).snap = s
    BY <1>3, OpTypes DEF Write
  <2>2. QED  BY <1>1, <1>t, <2>1, EnqueueSends
<1>5. s.gen > active[k].gen
  BY <1>t, <1>2, RefTypes DEF SnapshotInv
<1>6. /\ active' = [active EXCEPT ![k] = s]
      /\ requestGeneration' = [requestGeneration EXCEPT ![k] = 0]
      /\ pending' = [pending EXCEPT ![k] = 0]
      /\ UNCHANGED stored
  BY <1>1
<1> HIDE DEF s
<1>7. LKG!Restore(k, s)
  BY <1>2, <1>4, <1>5, <1>6 DEF LKG!Restore
<1>8. QED  BY <1>3, <1>7

LEMMA ForgetSteps ==
  ASSUME RefInv, NEW k \in Keys, Cancel(k) \/ DeleteSource(k)
  PROVE  LKG!Forget(k)
<1>1. UNCHANGED Unsaved
  <2>1. CASE Cancel(k)
    BY <2>1, UnsavedSame DEF Cancel
  <2>2. CASE DeleteSource(k)
    <3>1. Enqueue(k, Delete) /\ Delete \in CacheOp /\ Delete.kind # "write"
      BY <2>2, OpTypes DEF DeleteSource, Delete
    <3>2. QED  BY <3>1, EnqueueKeeps, RefTypes
  <2>3. QED  BY <2>1, <2>2
<1>2. /\ active' = [active EXCEPT ![k] = NoSnapshot]
      /\ requestGeneration' = [requestGeneration EXCEPT ![k] = 0]
      /\ pending' = [pending EXCEPT ![k] = 0]
      /\ UNCHANGED stored
  BY DEF Cancel, DeleteSource, repoVars
<1>3. QED
  BY <1>1, <1>2, AbstractSnapshots DEF LKG!Forget, LKG!Blank, Unsaved

LEMMA KeepCurrentDeclines ==
  ASSUME NEW k \in Keys, KeepCurrent(k)
  PROVE  LKG!Offer(k, 0)
<1>1. /\ pending' = [pending EXCEPT ![k] = 0]
      /\ UNCHANGED <<requestGeneration, active, stored, cacheWrites>>
  BY DEF KeepCurrent, coordVars, repoVars
<1>2. QED  BY <1>1, UnsavedSame DEF LKG!Offer, Unsaved

\* What settling the head of a chain does to the cache and to the copies.
LEMMA SettleCopies ==
  ASSUME RefInv, NEW k \in Keys, NEW kind, NEW ok \in BOOLEAN,
         Settle(k, kind, ok)
  PROVE  \E rest \in SUBSET Unsaved[k] :
           /\ Unsaved' = [Unsaved EXCEPT ![k] = rest]
           /\ kind = "write" =>
                /\ Head(cacheWrites[k]).snap \in Unsaved[k]
                /\ Head(cacheWrites[k]).snap.gen > stored[k].gen
                /\ \A t \in rest : t.gen > Head(cacheWrites[k]).snap.gen
           /\ kind # "write" => Head(cacheWrites[k]).snap = NoSnapshot
<1>t. TypeInv /\ ChainInv /\ cacheWrites[k] \in Seq(CacheOp)
      /\ stored[k].gen \in Nat
  <2>1. TypeInv /\ ChainInv
    BY RefTypes
  <2>2. QED  BY <2>1, ChainTypes DEF Snapshot
<1>1. PICK n \in 1..Len(cacheWrites[k]) :
        cacheWrites' = [cacheWrites EXCEPT
          ![k] = SubSeq(cacheWrites[k], n + 1, Len(cacheWrites[k]))]
  BY DEF Settle
<1>2. Head(cacheWrites[k]).kind = kind /\ Head(cacheWrites[k]) \in CacheOp
  BY <1>t, HeadOfChain DEF Settle
<1> DEFINE rest == Copies(SubSeq(cacheWrites[k], n + 1, Len(cacheWrites[k])))
<1>3. Unsaved[k] = Copies(cacheWrites[k])
  BY UnsavedCopies DEF Unsaved
<1>4. Unsaved' = [Unsaved EXCEPT ![k] = rest]
  BY <1>t, <1>1, UnsavedStep
<1>5. /\ rest \subseteq Unsaved[k]
      /\ kind = "write" =>
           /\ Head(cacheWrites[k]).snap \in Unsaved[k]
           /\ stored[k].gen < Head(cacheWrites[k]).snap.gen
           /\ \A t \in rest : t.gen > Head(cacheWrites[k]).snap.gen
      /\ kind # "write" => Head(cacheWrites[k]).snap = NoSnapshot
  BY <1>t, <1>2, <1>3, CopiesSettled DEF ChainInv
<1>6. Head(cacheWrites[k]).snap.gen \in Nat
  BY <1>2 DEF CacheOp, Snapshot
<1> HIDE DEF rest
<1>7. kind = "write" => Head(cacheWrites[k]).snap.gen > stored[k].gen
  BY <1>t, <1>5, <1>6
<1>8. QED  BY <1>4, <1>5, <1>7

LEMMA SettleWriteSaves ==
  ASSUME RefInv, NEW k \in Keys, SettleWrite(k)
  PROVE  (\E s \in Unsaved[k] : LKG!Save(k, s)) \/ LKG!Erase(k)
<1>1. PICK ok \in BOOLEAN : Settle(k, "write", ok)
  BY Zenon DEF SettleWrite
<1>2. UNCHANGED <<requestGeneration, active, pending>>
  BY Zenon DEF SettleWrite
<1> DEFINE s == Head(cacheWrites[k]).snap
<1>3. PICK rest \in SUBSET Unsaved[k] :
        /\ Unsaved' = [Unsaved EXCEPT ![k] = rest]
        /\ s \in Unsaved[k] /\ s.gen > stored[k].gen
        /\ \A t \in rest : t.gen > s.gen
  BY <1>1, SettleCopies
<1>4. stored' = IF ok THEN [stored EXCEPT ![k] = s] ELSE stored
  BY <1>1 DEF Settle
<1> HIDE DEF s
<1>5. CASE ok
  <2>1. rest \in SUBSET {t \in Unsaved[k] : t.gen > s.gen}
    BY <1>3
  <2>2. LKG!Save(k, s)
    BY <1>2, <1>3, <1>4, <1>5, <2>1 DEF LKG!Save, LKG!screen, Unsaved
  <2>3. QED  BY <1>3, <2>2
<1>6. CASE ~ok
  <2>1. LKG!GiveUp(k)
    BY <1>3 DEF LKG!GiveUp, Unsaved
  <2>2. LKG!Erase(k)
    BY <1>2, <1>4, <1>6, <2>1 DEF LKG!Erase, LKG!screen
  <2>3. QED  BY <2>2
<1>7. QED  BY <1>5, <1>6

LEMMA OtherSettlesErase ==
  ASSUME RefInv, NEW k \in Keys, SettleDelete(k) \/ SettleClear(k)
  PROVE  LKG!Erase(k)
<1>1. PICK kind \in {"delete", "clear"}, ok \in BOOLEAN : Settle(k, kind, ok)
  BY Zenon DEF SettleDelete, SettleClear
<1>2. \/ UNCHANGED <<requestGeneration, active, pending>>
      \/ /\ active' = [active EXCEPT ![k] = NoSnapshot]
         /\ requestGeneration' = [requestGeneration EXCEPT ![k] = 0]
         /\ pending' = [pending EXCEPT ![k] = 0]
  BY Zenon DEF SettleDelete, SettleClear, ownerVars
<1>3. LKG!Blank(k) \/ UNCHANGED LKG!screen
  BY <1>2, AbstractSnapshots DEF LKG!Blank, LKG!screen
<1>4. kind # "write"
  BY <1>1
<1>5. PICK rest \in SUBSET Unsaved[k] :
        /\ Unsaved' = [Unsaved EXCEPT ![k] = rest]
        /\ Head(cacheWrites[k]).snap = NoSnapshot
  BY <1>1, <1>4, SettleCopies
<1>6. stored' \in {stored, [stored EXCEPT ![k] = NoSnapshot]}
  BY <1>1, <1>5 DEF Settle
<1>7. LKG!GiveUp(k)
  BY <1>5 DEF LKG!GiveUp, Unsaved
<1>8. QED
  BY <1>3, <1>6, <1>7, AbstractSnapshots DEF LKG!Erase

-----------------------------------------------------------------------------
(* The refinement.                                                         *)

LEMMA RefInit == Init => LKG!Init
<1> SUFFICES ASSUME Init PROVE LKG!Init
  OBVIOUS
<1>1. \A k \in Keys : UnsavedSnapshots(k) = {}
  <2>1. 1..Len(<<>>) = {}
    OBVIOUS
  <2>2. \A k \in Keys : cacheWrites[k] = <<>>
    BY DEF Init
  <2>3. QED  BY <2>1, <2>2 DEF UnsavedSnapshots
<1>2. QED
  BY <1>1, AbstractSnapshots DEF Init, LKG!Init

LEMMA RefStep == RefInv /\ [Next]_vars => [LKG!Next]_LKG!vars
<1> SUFFICES ASSUME RefInv, [Next]_vars PROVE LKG!Next \/ UNCHANGED LKG!vars
  OBVIOUS
<1>k. \A r \in Reqs : reqKey[r] \in Keys
  BY RefTypes
<1>1. ASSUME UNCHANGED <<requestGeneration, active, pending, stored>>,
             UNCHANGED Unsaved
      PROVE  UNCHANGED LKG!vars
  BY <1>1 DEF LKG!vars, LKG!screen, Unsaved
<1>2. ASSUME NEW r \in Reqs, Progress(r)
      PROVE  LKG!Next \/ UNCHANGED LKG!vars
  <2>1. CASE Start(r)
    BY <1>k, <2>1, StartAnnounces DEF LKG!Next
  <2>2. CASE AskConfirmation(r)
    BY <1>k, <2>2, AskOffers DEF LKG!Next
  <2>3. CASE Commit(r)
    BY <1>k, <2>3, CommitShows DEF LKG!Next
  <2>4. CASE Superseded(r) \/ Fetched(r) \/ Digested(r) \/ Failed(r)
             \/ Persisted(r)
    <3>1. UNCHANGED <<cacheWrites, ownerVars, repoVars>>
      BY <2>4 DEF Superseded, Fetched, Digested, Failed, Persisted, coordVars
    <3>2. QED  BY <1>1, <3>1, UnsavedSame DEF ownerVars, repoVars
  <2>5. QED  BY <1>2, <2>1, <2>2, <2>3, <2>4 DEF Progress
<1>3. ASSUME NEW k \in Keys, CacheStep(k) PROVE LKG!Next
  <2>1. \A s : s \in Unsaved[k] <=> s \in UnsavedSnapshots(k)
    BY DEF Unsaved
  <2>2. (\E s \in UnsavedSnapshots(k) : LKG!Save(k, s)) \/ LKG!Erase(k)
    BY <1>3, <2>1, SettleWriteSaves, OtherSettlesErase DEF CacheStep
  <2>3. QED  BY <2>2 DEF LKG!Next
<1>4. ASSUME NEW k \in Keys, User(k)
      PROVE  LKG!Next \/ UNCHANGED LKG!vars
  <2>1. CASE Cancel(k) \/ DeleteSource(k)
    BY <2>1, ForgetSteps DEF LKG!Next
  <2>2. CASE Adopt(k)
    BY <2>2, AdoptRestores DEF LKG!Next
  <2>3. CASE ApplyEmpty(k)
    BY <2>3, ApplyEmptyShows DEF LKG!Next
  <2>4. CASE KeepCurrent(k)
    <3>1. 0 \in 0..MaxGen
      BY MaxGenAssumption
    <3>2. QED  BY <2>4, <3>1, KeepCurrentDeclines DEF LKG!Next
  <2>5. CASE \E r \in Reqs : Refresh(r, k)
    <3>1. UNCHANGED <<cacheWrites, ownerVars, repoVars>>
      BY <2>5 DEF Refresh
    <3>2. QED  BY <1>1, <3>1, UnsavedSame DEF ownerVars, repoVars
  <2>6. CASE ClearCache(k)
    <3>1. /\ Enqueue(k, Clear(NextGen(k)))
          /\ UNCHANGED <<ownerVars, repoVars>>
      BY <2>6 DEF ClearCache
    <3>2. /\ Clear(NextGen(k)) \in CacheOp
          /\ Clear(NextGen(k)).kind # "write"
      <4>1. NextGen(k) \in Nat
        BY RefTypes DEF NextGen
      <4>2. QED  BY <4>1, OpTypes DEF Clear
    <3>3. UNCHANGED Unsaved
      BY <3>1, <3>2, EnqueueKeeps, RefTypes
    <3>4. QED  BY <1>1, <3>1, <3>3 DEF ownerVars, repoVars
  <2>7. QED
    BY <1>4, <2>1, <2>2, <2>3, <2>4, <2>5, <2>6 DEF User
<1>5. CASE UNCHANGED vars
  BY <1>1, <1>5, UnsavedSame DEF vars, coordVars, ownerVars, repoVars
<1>6. QED
  BY <1>2, <1>3, <1>4, <1>5 DEF Next

\* The coordinator, the store and the chains of cache operations keep the
\* promise of the Last Known Good for every number of sources and calls.
THEOREM CoordinatorKeepsLastKnownGood == Spec => KeepsLastKnownGood
<1>1. Init => GenBound
  BY GenBoundInit
<1>2. Invariants /\ GenBound /\ [Next]_vars => GenBound'
  BY GenBoundStep DEF Invariants
<1>3. Invariants /\ GenBound => RefInv
  BY DEF RefInv
<1>4. QED
  BY <1>1, <1>2, <1>3, ChainInvariance, RefInit, RefStep, PTL
     DEF Spec, KeepsLastKnownGood, LKG!Spec
=============================================================================
