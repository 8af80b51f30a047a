------------------------ MODULE InformerFactoryProofs ------------------------
(***************************************************************************)
(* Proofs about InformerFactory, for any callers and types.                *)
(***************************************************************************)
EXTENDS InformerFactory, TLAPS

USE DEF vars, factoryVars, callerVars

\* An informer runs once if it was started, else not at all, and only what was
\* requested is started.
StartedRun ==
  /\ startedInformers \subseteq Requested
  /\ \A t \in Types : runs[t] = IF t \in startedInformers THEN 1 ELSE 0

\* What the holder of the lock relies on nobody changing.
LoopsOK ==
  \A c \in Callers :
    /\ pc[c] = "create" => typ[c] \notin Requested
    /\ pc[c] = "range" =>
         /\ call[c] = "Start"
         /\ todo[c] \subseteq Requested
         /\ Requested \subseteq todo[c] \cup startedInformers
    /\ pc[c] = "create" => call[c] = "InformerFor"
    /\ pc[c] = "start" =>
         /\ call[c] = "Start" /\ typ[c] \in Requested \ startedInformers
         /\ todo[c] \subseteq Requested
         /\ Requested \subseteq todo[c] \cup startedInformers \cup {typ[c]}
    /\ pc[c] = "unlock" /\ call[c] = "Start" => Requested \subseteq startedInformers

FactoryInv == TypeOK /\ StartedRun /\ LoopsOK /\ OneInformerPerType

LEMMA FactoryInit == Init => FactoryInv
<1> SUFFICES ASSUME Init PROVE FactoryInv
  OBVIOUS
<1>1. TypeOK
  <2>1. /\ \A c \in Callers : ~Locked(c) /\ lock # c
        /\ pc \in [Callers -> Pcs] /\ call \in [Callers -> Methods]
    BY NoneIsNobody DEF Init, Locked, Pcs, Methods
  <2>2. /\ informers \in [Types -> Nat] /\ runs \in [Types -> Nat]
        /\ got \in [Callers -> [Types -> Nat]] /\ made \in Nat
    BY DEF Init
  <2> QED
    BY <2>1, <2>2 DEF Init, TypeOK
<1>2. StartedRun /\ LoopsOK /\ OneInformerPerType
  BY DEF Init, StartedRun, Requested, LoopsOK, OneInformerPerType
<1> QED
  BY <1>1, <1>2 DEF FactoryInv

(* Every step keeps the invariant: what one caller relies on between Lock   *)
(* and Unlock, the others can only change with the lock.                   *)
LEMMA FactoryStep ==
  ASSUME FactoryInv, [Next]_vars
  PROVE  FactoryInv'
<1> USE DEF FactoryInv
<1>1. ASSUME NEW c \in Callers, NEW t \in Types, CallInformerFor(c, t)
      PROVE  FactoryInv'
  BY <1>1 DEF CallInformerFor, Enter, TypeOK, Locked, Pcs, Methods,
     StartedRun, Requested, LoopsOK, OneInformerPerType
<1>2. ASSUME NEW c \in Callers, CallStart(c) \/ CallWaitForCacheSync(c)
      PROVE  FactoryInv'
  <2>1. PICK m \in Methods : Enter(c, m) /\ UNCHANGED typ
    BY <1>2 DEF CallStart, CallWaitForCacheSync, Methods
  <2>2. TypeOK'
    BY <2>1 DEF Enter, TypeOK, Locked, Pcs
  <2>3. StartedRun' /\ LoopsOK' /\ OneInformerPerType'
    BY <2>1 DEF Enter, TypeOK, StartedRun, Requested, LoopsOK,
       OneInformerPerType
  <2> QED
    BY <2>2, <2>3
<1>3. ASSUME NEW c \in Callers, Lock(c)
      PROVE  FactoryInv'
  BY <1>3, NoneIsNobody DEF Lock, Move, TypeOK, Locked, Pcs, StartedRun,
     Requested, LoopsOK, OneInformerPerType
<1>4. ASSUME NEW c \in Callers, Unlock(c)
      PROVE  FactoryInv'
  BY <1>4, NoneIsNobody DEF Unlock, Move, TypeOK, Locked, Pcs, StartedRun,
     Requested, LoopsOK, OneInformerPerType
<1>5. ASSUME NEW c \in Callers, InformerExists(c)
      PROVE  FactoryInv'
  <2>1. TypeOK'
    BY <1>5 DEF InformerExists, Move, TypeOK, Locked, Pcs
  <2>2. StartedRun' /\ LoopsOK'
    BY <1>5 DEF InformerExists, Move, TypeOK, StartedRun, Requested, LoopsOK
  <2>3. OneInformerPerType'
    BY <1>5 DEF InformerExists, Move, TypeOK, OneInformerPerType
  <2> QED
    BY <2>1, <2>2, <2>3
<1>6. ASSUME NEW c \in Callers, InformerMissing(c)
      PROVE  FactoryInv'
  BY <1>6 DEF InformerMissing, Move, TypeOK, Locked, Pcs, StartedRun, Requested,
     LoopsOK, OneInformerPerType
<1>7. ASSUME NEW c \in Callers, NewInformer(c)
      PROVE  FactoryInv'
  <2> DEFINE t == typ[c]
  <2>1. /\ t \in Types /\ informers[t] = 0 /\ made' \in Nat \ {0}
        /\ informers' = [informers EXCEPT ![t] = made']
        /\ got' = [got EXCEPT ![c][t] = made']
        /\ pc' = [pc EXCEPT ![c] = "unlock"] /\ Locked(c)
        /\ call[c] = "InformerFor" /\ t \notin startedInformers
    BY <1>7 DEF NewInformer, Move, TypeOK, LoopsOK, Requested, Locked, StartedRun
  <2>2. \A d \in Callers \ {c} : ~Locked(d)
    BY <2>1 DEF TypeOK
  <2>3. UNCHANGED <<lock, startedInformers, runs, synced, stopped, call, typ,
                    todo>>
    BY <1>7 DEF NewInformer, Move
  <2>4. TypeOK'
    BY <2>1, <2>3 DEF TypeOK, Locked, Pcs
  <2>5. StartedRun'
    BY <2>1, <2>3 DEF TypeOK, StartedRun, Requested
  <2>6. LoopsOK'
    BY <2>1, <2>2, <2>3 DEF TypeOK, LoopsOK, Locked
  <2>7. OneInformerPerType'
    <3> SUFFICES ASSUME NEW d \in Callers, NEW u \in Types, got'[d][u] # 0
                 PROVE  got'[d][u] = informers'[u]
      BY DEF OneInformerPerType
    <3>1. CASE u # t
      BY <2>1, <3>1 DEF TypeOK, OneInformerPerType
    <3>2. CASE u = t /\ d = c
      BY <2>1, <3>2 DEF TypeOK
    <3>3. CASE u = t /\ d # c
      BY <2>1, <3>3 DEF TypeOK, OneInformerPerType
    <3> QED
      BY <3>1, <3>2, <3>3
  <2> QED
    BY <2>4, <2>5, <2>6, <2>7
<1>8. ASSUME NEW c \in Callers, StartRange(c)
      PROVE  FactoryInv'
  <2>1. Requested \subseteq Types
    BY DEF Requested
  <2> QED
    BY <1>8, <2>1 DEF StartRange, Move, TypeOK, Locked, Pcs, StartedRun, Requested,
       LoopsOK, OneInformerPerType
<1>9. ASSUME NEW c \in Callers, NEW t \in Types, StartNext(c, t)
      PROVE  FactoryInv'
  <2>1. t \in Requested /\ Locked(c) /\ call[c] = "Start"
    BY <1>9 DEF StartNext, LoopsOK, Locked
  <2>2. TypeOK'
    BY <1>9 DEF StartNext, TypeOK, Locked, Pcs
  <2>3. StartedRun' /\ OneInformerPerType'
    BY <1>9 DEF StartNext, StartedRun, Requested, OneInformerPerType
  <2>4. LoopsOK'
    BY <1>9, <2>1 DEF StartNext, TypeOK, LoopsOK, Requested
  <2> QED
    BY <2>2, <2>3, <2>4
<1>10. ASSUME NEW c \in Callers, StartDone(c)
       PROVE  FactoryInv'
  BY <1>10 DEF StartDone, Move, TypeOK, Locked, Pcs, StartedRun, Requested,
     LoopsOK, OneInformerPerType
<1>11. ASSUME NEW c \in Callers, Snapshot(c)
       PROVE  FactoryInv'
  <2>1. Requested \cap startedInformers \subseteq Types
    BY DEF Requested
  <2> QED
    BY <1>11, <2>1 DEF Snapshot, Move, TypeOK, Locked, Pcs, StartedRun, Requested,
       LoopsOK, OneInformerPerType
<1>12. ASSUME NEW c \in Callers, NEW t \in Types, WaitOne(c, t)
       PROVE  FactoryInv'
  BY <1>12 DEF WaitOne, Move, TypeOK, Locked, StartedRun, Requested, LoopsOK,
     OneInformerPerType
<1>13. ASSUME NEW c \in Callers, WaitDone(c)
       PROVE  FactoryInv'
  BY <1>13 DEF WaitDone, Move, TypeOK, Locked, Pcs, StartedRun, Requested,
     LoopsOK, OneInformerPerType
<1>14. ASSUME NEW t \in Types, InformerSyncs(t)
       PROVE  FactoryInv'
  BY <1>14 DEF InformerSyncs, TypeOK, Locked, StartedRun, Requested, LoopsOK,
     OneInformerPerType
<1>15. CASE Stop
  BY <1>15 DEF Stop, TypeOK, Locked, StartedRun, Requested, LoopsOK,
     OneInformerPerType
<1>16. CASE UNCHANGED vars
  BY <1>16 DEF TypeOK, Locked, StartedRun, Requested, LoopsOK,
     OneInformerPerType
<1>17. ASSUME NEW c \in Callers, StartOne(c)
       PROVE  FactoryInv'
  <2> DEFINE t == typ[c]
  <2>1. t \in Types /\ t \in Requested \ startedInformers /\ Locked(c)
    BY <1>17 DEF StartOne, Move, LoopsOK, Locked, TypeOK
  <2>2. \A d \in Callers \ {c} : ~Locked(d)
    BY <2>1 DEF TypeOK
  <2>3. TypeOK'
    BY <1>17, <2>1 DEF StartOne, Move, TypeOK, Locked, Pcs
  <2>4. StartedRun'
    BY <1>17, <2>1 DEF StartOne, Move, TypeOK, StartedRun, Requested
  <2>5. LoopsOK'
    BY <1>17, <2>1, <2>2 DEF StartOne, Move, TypeOK, LoopsOK, Locked, Requested
  <2>6. OneInformerPerType'
    BY <1>17 DEF StartOne, Move, OneInformerPerType
  <2> QED
    BY <2>3, <2>4, <2>5, <2>6
<1> QED
  BY <1>1, <1>2, <1>3, <1>4, <1>5, <1>6, <1>7, <1>8, <1>9, <1>10, <1>11, <1>12,
     <1>13, <1>14, <1>15, <1>16, <1>17 DEF Next, Step

LEMMA FactoryInvAlways == Spec => []FactoryInv
BY FactoryInit, FactoryStep, PTL DEF Spec

(* The factory keeps its types, and f.lock is held exactly by the caller   *)
(* that is between Lock and its deferred Unlock.                           *)
THEOREM TypeCorrect == Spec => []TypeOK
<1>1. FactoryInv => TypeOK
  BY DEF FactoryInv
<1> QED
  BY <1>1, FactoryInvAlways, PTL

(* However many goroutines call Start, and however often, no informer is run *)
(* twice (the comment on startedInformers).                                *)
THEOREM StartIsSafe == Spec => []RunsOnce
<1>1. FactoryInv => RunsOnce
  BY DEF FactoryInv, StartedRun, RunsOnce
<1> QED
  BY <1>1, FactoryInvAlways, PTL

(* All callers share one informer per type (InformerFor).                  *)
THEOREM InformersAreShared == Spec => []OneInformerPerType
<1>1. FactoryInv => OneInformerPerType
  BY DEF FactoryInv
<1> QED
  BY <1>1, FactoryInvAlways, PTL

(* When Start is done, all that was requested is running.                  *)
THEOREM StartIsComplete == Spec => []StartLeavesNoneBehind
<1>1. FactoryInv => StartLeavesNoneBehind
  BY DEF FactoryInv, LoopsOK, StartedRun, Requested, StartLeavesNoneBehind
<1> QED
  BY <1>1, FactoryInvAlways, PTL

-----------------------------------------------------------------------------
(* The half of CallsReturn and WaitReturns that needs no fairness.          *)

\* Who has made its list of informers to wait for has only started ones on it.
WaitsOK ==
  \A c \in Callers :
    pc[c] = "wait" \/ (pc[c] = "unlock" /\ call[c] = "WaitForCacheSync") =>
      call[c] = "WaitForCacheSync" /\ todo[c] \subseteq startedInformers

\* Nobody waits with the lock, nor for an informer that does not run.
WaitsForRunning ==
  \A c \in Callers :
    pc[c] = "wait" => lock # c /\ \A t \in todo[c] : runs[t] = 1

LEMMA WaitsStep ==
  ASSUME FactoryInv, WaitsOK, [Next]_vars
  PROVE  WaitsOK'
<1>0. /\ pc \in [Callers -> Pcs] /\ call \in [Callers -> Methods]
      /\ todo \in [Callers -> SUBSET Types]
  BY DEF FactoryInv, TypeOK
<1> USE <1>0 DEF WaitsOK
<1>1. ASSUME NEW c \in Callers, NEW m \in Methods, Enter(c, m) PROVE WaitsOK'
  BY <1>1 DEF Enter
<1>2. ASSUME NEW c \in Callers, Lock(c) PROVE WaitsOK'
  BY <1>2 DEF Lock, Move
<1>3. ASSUME NEW c \in Callers, Unlock(c) PROVE WaitsOK'
  BY <1>3 DEF Unlock, Move
<1>4. ASSUME NEW c \in Callers, InformerExists(c) \/ InformerMissing(c) PROVE WaitsOK'
  BY <1>4 DEF InformerExists, InformerMissing, Move
<1>5. ASSUME NEW c \in Callers, NewInformer(c) PROVE WaitsOK'
  <2>1. call[c] = "InformerFor"
    BY <1>5 DEF NewInformer, Move, FactoryInv, LoopsOK
  <2> QED
    BY <1>5, <2>1 DEF NewInformer, Move
<1>6. ASSUME NEW c \in Callers, StartRange(c) PROVE WaitsOK'
  BY <1>6 DEF StartRange, Move
<1>7. ASSUME NEW c \in Callers, (\E t \in Types : StartNext(c, t)) \/ StartOne(c)
      PROVE  WaitsOK'
  BY <1>7 DEF StartNext, StartOne, Move
<1>8. ASSUME NEW c \in Callers, StartDone(c) PROVE WaitsOK'
  <2>1. call[c] = "Start"
    BY <1>8 DEF StartDone, Move, FactoryInv, LoopsOK
  <2> QED
    BY <1>8, <2>1 DEF StartDone, Move
<1>9. ASSUME NEW c \in Callers, Snapshot(c) PROVE WaitsOK'
  BY <1>9 DEF Snapshot, Move
<1>10. ASSUME NEW c \in Callers, NEW t \in Types, WaitOne(c, t) PROVE WaitsOK'
  BY <1>10 DEF WaitOne, Move
<1>11. ASSUME NEW c \in Callers, WaitDone(c) PROVE WaitsOK'
  BY <1>11 DEF WaitDone, Move
<1>12. ASSUME \/ \E t \in Types : InformerSyncs(t)
              \/ Stop \/ UNCHANGED vars
       PROVE  WaitsOK'
  BY <1>12 DEF InformerSyncs, Stop
<1> QED
  BY <1>1, <1>2, <1>3, <1>4, <1>5, <1>6, <1>7, <1>8, <1>9, <1>10, <1>11, <1>12
     DEF Next, Step, CallInformerFor, CallStart, CallWaitForCacheSync, Methods

(* WaitForCacheSync asks which informers were started under the lock, waits *)
(* without it, and only for those: a wait never blocks Start, and nobody    *)
(* waits for an informer that was requested and not started.               *)
THEOREM WaitsAreHarmless == Spec => []WaitsForRunning
<1>1. Init => WaitsOK
  BY DEF Init, WaitsOK
<1>2. FactoryInv /\ WaitsOK => WaitsForRunning
  BY DEF FactoryInv, TypeOK, Locked, StartedRun, WaitsOK, WaitsForRunning
<1> QED
  BY <1>1, <1>2, WaitsStep, FactoryInvAlways, PTL DEF Spec
=============================================================================
