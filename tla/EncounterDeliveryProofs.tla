----------------------- MODULE EncounterDeliveryProofs -----------------------
(***************************************************************************)
(* Proofs about EncounterDelivery, for any deliveries, any threads and any *)
(* number of bodies.                                                       *)
(***************************************************************************)
EXTENDS EncounterDelivery, TLAPS

(* What a thread carries at each point it has reached.                     *)
Wiring ==
    \A t \in Thread :
        /\ job[t] \in {"send", "drain"} => on[t] \in Delivery
        /\ job[t] \in {"prompt", "release"} => held[t] \in Generation
        /\ pc[t] \in {"ready", "claimed", "accepted", "rejected"} =>
               on[t] \in Delivery /\ held[t] \in Generation

Shape == TypeOK /\ Wiring

-----------------------------------------------------------------------------
LEMMA Zero == NoGen \in 0 .. MaxGen
  BY GenAssumption DEF NoGen

LEMMA ShapeInit == Init => Shape
<1> SUFFICES ASSUME Init PROVE Shape
  OBVIOUS
<1>1. row \in [Delivery -> [phase : Phase, gen : 0 .. MaxGen]]
  BY Zero DEF Init, Phase
<1>2. TypeOK
  BY Zero, <1>1 DEF Init, TypeOK
<1>3. Wiring
  BY DEF Init, Wiring
<1> QED  BY <1>2, <1>3 DEF Shape

(* Every step keeps every variable in its type.                            *)
LEMMA TypeStep == Shape /\ [Next]_vars => TypeOK'
<1> SUFFICES ASSUME TypeOK, Wiring, [Next]_vars PROVE TypeOK'
  BY DEF Shape
<1> USE Zero
<1> USE DEF TypeOK, Goto, Leave, Unlocked, At, journal, body, locks, threads,
            history
<1>1. ASSUME NEW t \in Thread, NEW d \in Delivery, Send(t, d) \/ Drain(t, d) PROVE TypeOK'
  BY <1>1 DEF Send, Drain, Start
<1>2. ASSUME NEW t \in Thread, Prompt(t) \/ Release(t) PROVE TypeOK'
  BY <1>2 DEF Prompt, Release, Start
<1>3. ASSUME NEW t \in Thread, Advance(t) PROVE TypeOK'
  <2>1. CASE DrainBorrow(t)
    BY <2>1 DEF DrainBorrow
  <2>2. CASE Lock(t)
    BY <2>2 DEF Lock
  <2>3. CASE GiveUp(t)
    BY <2>3 DEF GiveUp
  <2>4. CASE CheckReady(t)
    BY <2>4 DEF CheckReady, Ready
  <2>5. CASE Queue(t)
    <3>1. row' \in [Delivery -> [phase : Phase, gen : 0 .. MaxGen]]
      BY <2>5 DEF Queue, Phase, Active, Unresolved, Settled
    <3> QED  BY <2>5, <3>1 DEF Queue
  <2>6. CASE Reserve(t)
    <3>1. row' \in [Delivery -> [phase : Phase, gen : 0 .. MaxGen]]
      BY <2>6 DEF Reserve, Phase, Active, Unresolved, Settled
    <3> QED  BY <2>6, <3>1 DEF Reserve
  <2>7. CASE RefuseUnclaimed(t)
    <3>1. row' \in [Delivery -> [phase : Phase, gen : 0 .. MaxGen]]
      BY <2>7 DEF RefuseUnclaimed, RefuseRow, Wiring, Phase, Active, Unresolved, Settled
    <3> QED  BY <2>7, <3>1 DEF RefuseUnclaimed
  <2>8. CASE Claim(t)
    <3>1. row' \in [Delivery -> [phase : Phase, gen : 0 .. MaxGen]]
      BY <2>8 DEF Claim, Claimable, Phase, Active, Unresolved, Settled
    <3> QED  BY <2>8, <3>1 DEF Claim
  <2>9. CASE RefuseClaimed(t)
    <3>1. row' \in [Delivery -> [phase : Phase, gen : 0 .. MaxGen]]
      BY <2>9 DEF RefuseClaimed, RefuseRow, Wiring, Phase, Active, Unresolved, Settled
    <3> QED  BY <2>9, <3>1 DEF RefuseClaimed
  <2>10. CASE Dispatch(t)
    <3>1. turn' \in Turns \cup {None}
      BY <2>10 DEF Wiring, Dispatch, Turns
    <3>2. sent' \in [Delivery -> Nat]
      BY <2>10 DEF Wiring, Dispatch
    <3> QED  BY <2>10, <3>1, <3>2 DEF Dispatch
  <2>11. CASE Ack(t)
    <3>1. row' \in [Delivery -> [phase : Phase, gen : 0 .. MaxGen]]
      BY <2>11 DEF Ack, AckRow, AckPhase, Phase, Active, Unresolved, Settled
    <3> QED  BY <2>11, <3>1 DEF Ack
  <2>12. CASE Submit(t)
    <3>1. turn' \in Turns \cup {None}
      BY <2>12 DEF Wiring, Submit, Turns
    <3> QED  BY <2>12, <3>1 DEF Submit
  <2>13. CASE ReleaseLock(t)
    BY <2>13 DEF ReleaseLock
  <2>14. CASE Remove(t)
    BY <2>14 DEF Remove
  <2>15. CASE ReserveRelease(t)
    <3>1. release' \in [Generation -> {"none", "requested", "unconfirmed", "confirmed"}]
      BY <2>15 DEF ReserveRelease
    <3> QED  BY <2>15, <3>1 DEF ReserveRelease
  <2>16. CASE Shutdown(t)
    BY <2>16 DEF Shutdown
  <2>17. CASE FinishRelease(t)
    <3>1. release' \in [Generation -> {"none", "requested", "unconfirmed", "confirmed"}]
      BY <2>17 DEF FinishRelease
    <3> QED  BY <2>17, <3>1 DEF FinishRelease
  <2> QED  BY <1>3, <2>1, <2>2, <2>3, <2>4, <2>5, <2>6, <2>7, <2>8, <2>9, <2>10, <2>11,
       <2>12, <2>13, <2>14, <2>15, <2>16, <2>17 DEF Advance
<1>4. CASE Open
  <2>1. bound + 1 \in 0 .. MaxGen
    BY <1>4, GenAssumption DEF Open
  <2> QED  BY <1>4, <2>1 DEF Open
<1>5. CASE CloseTurn
  BY <1>5 DEF CloseTurn
<1>6. CASE JournalEnd
  <2>1. CASE UNCHANGED <<row, credit>>
    BY <1>6, <2>1 DEF JournalEnd
  <2>2. ASSUME NEW stop \in Stops, FinishTurn(ending, stop), ending \in Turns
        PROVE  /\ row' \in [Delivery -> [phase : Phase, gen : 0 .. MaxGen]]
               /\ credit' \in [Delivery -> Turns \cup {None}]
    BY <2>2 DEF FinishTurn, Stops, Phase, Settled
  <2> QED  BY <1>6, <2>1, <2>2 DEF JournalEnd, Stops
<1>7. CASE StopBridge
  <2>1. CASE UNCHANGED <<row, credit>>
    BY <1>7, <2>1 DEF StopBridge
  <2>2. ASSUME NEW stop \in Stops, FinishTurn(turn, stop), turn \in Turns
        PROVE  /\ row' \in [Delivery -> [phase : Phase, gen : 0 .. MaxGen]]
               /\ credit' \in [Delivery -> Turns \cup {None}]
    BY <2>2 DEF FinishTurn, Stops, Phase, Settled
  <2> QED  BY <1>7, <2>1, <2>2 DEF StopBridge, Stops
<1>8. CASE Crash
  BY <1>8 DEF Crash
<1>9. ASSUME NEW d \in Delivery, Reconcile(d) PROVE TypeOK'
  <2>1. row' \in [Delivery -> [phase : Phase, gen : 0 .. MaxGen]]
    BY <1>9 DEF Reconcile, Phase, Settled
  <2> QED  BY <1>9, <2>1 DEF Reconcile
<1>10. CASE UNCHANGED vars
  BY <1>10 DEF vars
<1> QED  BY <1>1, <1>2, <1>3, <1>4, <1>5, <1>6, <1>7, <1>8, <1>9, <1>10 DEF Next

(* Every step keeps the wiring.                                            *)
LEMMA WiringStep == Shape /\ [Next]_vars => Wiring'
<1> SUFFICES ASSUME TypeOK, Wiring, [Next]_vars PROVE Wiring'
  BY DEF Shape
<1> USE DEF TypeOK, Wiring, Goto, Leave, At, NoGen, Generation, threads
<1>1. ASSUME NEW t \in Thread, NEW d \in Delivery, Send(t, d) \/ Drain(t, d) PROVE Wiring'
  BY <1>1 DEF Send, Drain, Start
<1>2. ASSUME NEW t \in Thread, Prompt(t) \/ Release(t) PROVE Wiring'
  BY <1>2 DEF Prompt, Release, Start
<1>3. ASSUME NEW t \in Thread, Advance(t) PROVE Wiring'
  <2>1. CASE DrainBorrow(t)
    BY <2>1 DEF DrainBorrow
  <2>2. CASE Lock(t)
    BY <2>2 DEF Lock
  <2>3. CASE GiveUp(t)
    BY <2>3 DEF GiveUp
  <2>4. CASE CheckReady(t)
    BY <2>4 DEF CheckReady, Ready
  <2>5. CASE Queue(t)
    BY <2>5 DEF Queue
  <2>6. CASE Reserve(t)
    BY <2>6 DEF Reserve
  <2>7. CASE RefuseUnclaimed(t)
    BY <2>7 DEF RefuseUnclaimed, RefuseRow
  <2>8. CASE Claim(t)
    BY <2>8 DEF Claim, Claimable
  <2>9. CASE RefuseClaimed(t)
    BY <2>9 DEF RefuseClaimed, RefuseRow
  <2>10. CASE Dispatch(t)
    BY <2>10 DEF Dispatch
  <2>11. CASE Ack(t)
    BY <2>11 DEF Ack, AckRow, AckPhase
  <2>12. CASE Submit(t)
    BY <2>12 DEF Submit
  <2>13. CASE ReleaseLock(t)
    BY <2>13 DEF ReleaseLock
  <2>14. CASE Remove(t)
    BY <2>14 DEF Remove
  <2>15. CASE ReserveRelease(t)
    BY <2>15 DEF ReserveRelease
  <2>16. CASE Shutdown(t)
    BY <2>16 DEF Shutdown
  <2>17. CASE FinishRelease(t)
    BY <2>17 DEF FinishRelease
  <2> QED  BY <1>3, <2>1, <2>2, <2>3, <2>4, <2>5, <2>6, <2>7, <2>8, <2>9, <2>10, <2>11,
       <2>12, <2>13, <2>14, <2>15, <2>16, <2>17 DEF Advance
<1>4. CASE Open
  BY <1>4 DEF Open
<1>5. CASE CloseTurn
  BY <1>5 DEF CloseTurn
<1>6. CASE JournalEnd
  BY <1>6 DEF JournalEnd, FinishTurn, Attributed
<1>7. CASE StopBridge
  BY <1>7 DEF StopBridge, FinishTurn, Attributed
<1>8. CASE Crash
  BY <1>8 DEF Crash
<1>9. ASSUME NEW d \in Delivery, Reconcile(d) PROVE Wiring'
  BY <1>9 DEF Reconcile
<1>10. CASE UNCHANGED vars
  BY <1>10 DEF vars
<1> QED  BY <1>1, <1>2, <1>3, <1>4, <1>5, <1>6, <1>7, <1>8, <1>9, <1>10 DEF Next

LEMMA ShapeStep == Shape /\ [Next]_vars => Shape'
  BY TypeStep, WiringStep DEF Shape

(* Type correctness.                                                       *)
THEOREM Typing == Spec => []TypeOK
<1>1. Spec => []Shape
  BY ShapeInit, ShapeStep, PTL DEF Spec
<1>2. Shape => TypeOK
  BY DEF Shape
<1> QED  BY <1>1, <1>2, PTL

-----------------------------------------------------------------------------
Unsent == {"absent", "queued", "refused"}

(* What one step may do to a delivery's row.                               *)
RowStep(d) ==
    \/ row'[d] = row[d]
    \/ row[d].phase = "queued" /\ row'[d].phase \in {"refused", "dispatching"}
    \/ /\ row[d].phase \in Unresolved
       /\ row'[d].phase \in {"submitted", "uncertain", "reconciled"} \cup Stops
       /\ row'[d].gen = row[d].gen
    \/ /\ Admits(d) /\ row'[d].phase \in {"queued", "dispatching"}
       /\ \A e \in Delivery \ {d} : row'[e] = row[e]

LEMMA RowMoves == ASSUME Shape, [Next]_vars PROVE \A d \in Delivery : RowStep(d)
<1> SUFFICES ASSUME TypeOK, Wiring, [Next]_vars, NEW x \in Delivery PROVE RowStep(x)
  BY DEF Shape
<1> USE DEF TypeOK, RowStep, journal, Unresolved, Stops
<1>1. ASSUME NEW t \in Thread, NEW d \in Delivery, Send(t, d) \/ Drain(t, d) PROVE RowStep(x)
  BY <1>1 DEF Send, Drain, Start
<1>2. ASSUME NEW t \in Thread, Prompt(t) \/ Release(t) PROVE RowStep(x)
  BY <1>2 DEF Prompt, Release, Start
<1>3. ASSUME NEW t \in Thread, Advance(t) PROVE RowStep(x)
  <2>1. CASE DrainBorrow(t)
    BY <2>1 DEF DrainBorrow
  <2>2. CASE Lock(t)
    BY <2>2 DEF Lock
  <2>3. CASE GiveUp(t)
    BY <2>3 DEF GiveUp
  <2>4. CASE CheckReady(t)
    BY <2>4 DEF CheckReady, Ready
  <2>5. CASE Queue(t)
    BY <2>5 DEF Queue
  <2>6. CASE Reserve(t)
    BY <2>6 DEF Reserve
  <2>7. CASE RefuseUnclaimed(t)
    BY <2>7 DEF RefuseUnclaimed, RefuseRow
  <2>8. CASE Claim(t)
    BY <2>8 DEF Claim, Claimable
  <2>9. CASE RefuseClaimed(t)
    BY <2>9 DEF RefuseClaimed, RefuseRow
  <2>10. CASE Dispatch(t)
    BY <2>10 DEF Dispatch
  <2>11. CASE Ack(t)
    BY <2>11 DEF Ack, AckRow, AckPhase
  <2>12. CASE Submit(t)
    BY <2>12 DEF Submit
  <2>13. CASE ReleaseLock(t)
    BY <2>13 DEF ReleaseLock
  <2>14. CASE Remove(t)
    BY <2>14 DEF Remove
  <2>15. CASE ReserveRelease(t)
    BY <2>15 DEF ReserveRelease
  <2>16. CASE Shutdown(t)
    BY <2>16 DEF Shutdown
  <2>17. CASE FinishRelease(t)
    BY <2>17 DEF FinishRelease
  <2> QED  BY <1>3, <2>1, <2>2, <2>3, <2>4, <2>5, <2>6, <2>7, <2>8, <2>9, <2>10, <2>11,
       <2>12, <2>13, <2>14, <2>15, <2>16, <2>17 DEF Advance
<1>4. CASE Open
  BY <1>4 DEF Open
<1>5. CASE CloseTurn
  BY <1>5 DEF CloseTurn
<1>6. CASE JournalEnd
  <2>1. ASSUME NEW stop \in Stops, FinishTurn(ending, stop) PROVE RowStep(x)
    BY <2>1 DEF FinishTurn, Attributed
  <2> QED  BY <1>6, <2>1 DEF JournalEnd
<1>7. CASE StopBridge
  <2>1. ASSUME NEW stop \in Stops, FinishTurn(turn, stop) PROVE RowStep(x)
    BY <2>1 DEF FinishTurn, Attributed
  <2> QED  BY <1>7, <2>1 DEF StopBridge
<1>8. CASE Crash
  BY <1>8 DEF Crash
<1>9. ASSUME NEW d \in Delivery, Reconcile(d) PROVE RowStep(x)
  BY <1>9 DEF Reconcile
<1>10. CASE UNCHANGED vars
  BY <1>10 DEF vars
<1> QED  BY <1>1, <1>2, <1>3, <1>4, <1>5, <1>6, <1>7, <1>8, <1>9, <1>10 DEF Next

(* A settled delivery stays as it settled.                                 *)
THEOREM SettledIsFinal == Spec => SettledStays
<1>1. Shape /\ [Next]_vars =>
          [\A d \in Delivery : row[d].phase \in Settled => row'[d] = row[d]]_vars
  BY RowMoves DEF RowStep, Settled, Unresolved, Admits
<1> QED  BY <1>1, ShapeInit, ShapeStep, PTL DEF Spec, SettledStays

-----------------------------------------------------------------------------
LEMMA OneActiveStep == ASSUME Shape, OneActive, [Next]_vars PROVE OneActive'
<1> SUFFICES ASSUME NEW d \in Delivery, NEW e \in Delivery, d # e,
                    row'[d].phase \in Active, row'[e].phase \in Active
             PROVE  FALSE
  BY DEF OneActive
<1>1. ASSUME NEW x \in Delivery, row'[x].phase \in Active
      PROVE  row[x].phase \in Active \/ Admits(x)
  BY <1>1, RowMoves DEF RowStep, Active, Unresolved, Stops
<1>2. ~Admits(d)
  <2> SUFFICES ASSUME Admits(d) PROVE FALSE
    OBVIOUS
  <2>1. row'[e] = row[e] \/ Admits(e)
    BY <1>1, RowMoves DEF Admits, Pending, RowStep, Active, Unresolved
  <2>2. row[e].phase \notin Active /\ row[d].phase = "absent"
    BY DEF Admits, Pending
  <2>3. row'[e] = row[e]
    BY <2>2, RowMoves DEF RowStep, Active, Unresolved, Admits
  <2> QED  BY <2>2, <2>3
<1>3. ~Admits(e)
  BY <1>1, <1>2, RowMoves DEF Admits, Pending
<1> QED  BY <1>1, <1>2, <1>3 DEF OneActive

(* At most one delivery of the session is active.                          *)
THEOREM Slot == Spec => []OneActive
<1>1. Init => OneActive
  BY DEF Init, OneActive, Active, Unresolved
<1>2. Shape /\ OneActive /\ [Next]_vars => OneActive'
  BY OneActiveStep
<1> QED  BY <1>1, <1>2, ShapeInit, ShapeStep, PTL DEF Spec

-----------------------------------------------------------------------------
(* A row that is absent, queued or refused has not been prompted, and one   *)
(* thread at most holds the right to prompt with a delivery.                *)
Once ==
    /\ \A d \in Delivery : row[d].phase \in Unsent => sent[d] = 0
    /\ \A t \in Thread : pc[t] = "claimed" =>
           row[on[t]].phase \notin Unsent /\ sent[on[t]] = 0
    /\ \A t, u \in Thread : pc[t] = "claimed" /\ pc[u] = "claimed" /\ on[t] = on[u] => t = u

LEMMA StaysSent ==
    ASSUME Shape, [Next]_vars, NEW d \in Delivery, row[d].phase \notin Unsent
    PROVE  row'[d].phase \notin Unsent
  BY RowMoves DEF RowStep, Unsent, Unresolved, Stops, Admits

LEMMA OnceStep ==
    ASSUME Shape, Once, SentAtMostOnce, [Next]_vars PROVE Once' /\ SentAtMostOnce'
<1> DEFINE Kept == sent' = sent /\ on' = on /\ \A t \in Thread : pc'[t] = "claimed" => pc[t] = "claimed"
           Left == /\ sent' = sent
                   /\ \A t \in Thread : pc'[t] = "claimed" => pc[t] = "claimed" /\ on'[t] = on[t]
           Goal == Once' /\ SentAtMostOnce'
<1>a. \A d \in Delivery : row'[d].phase \in Unsent => row[d].phase \in Unsent
  BY StaysSent
<1>b. \A t \in Thread : pc[t] = "claimed" => on[t] \in Delivery
  BY DEF Shape, Wiring
<1>c. ASSUME Left PROVE Goal
  BY <1>a, <1>b, <1>c DEF Once, SentAtMostOnce
<1> HIDE DEF Goal
<1> USE DEF Shape, TypeOK, Goto, Leave, At, threads, history
<1>1. ASSUME NEW t \in Thread, NEW d \in Delivery, Send(t, d) \/ Drain(t, d) PROVE Goal
  BY <1>c, <1>1 DEF Send, Drain, Start
<1>2. ASSUME NEW t \in Thread, Prompt(t) \/ Release(t) PROVE Goal
  BY <1>c, <1>2 DEF Prompt, Release, Start
<1>3. ASSUME NEW t \in Thread, Advance(t) PROVE Goal
  <2>1. CASE DrainBorrow(t)
    BY <1>c, <2>1 DEF DrainBorrow
  <2>2. CASE Lock(t)
    BY <1>c, <2>2 DEF Lock
  <2>3. CASE GiveUp(t)
    BY <1>c, <2>3 DEF GiveUp
  <2>4. CASE CheckReady(t)
    BY <1>c, <2>4 DEF CheckReady, Ready
  <2>5. CASE Queue(t)
    BY <1>c, <2>5 DEF Queue
  <2>6. CASE Reserve(t)
    <3>1. CASE pc'[t] = "claimed"
      <4>1. /\ on[t] \in Delivery /\ row[on[t]].phase \in Unsent
            /\ row'[on[t]].phase = "dispatching" /\ sent' = sent /\ on' = on
            /\ pc' = [pc EXCEPT ![t] = "claimed"]
        BY <2>6, <3>1 DEF Reserve, Admits, Unsent, Wiring
      <4>2. \A u \in Thread \ {t} : pc[u] = "claimed" => on[u] # on[t]
        BY <4>1 DEF Once
      <4> QED  BY <1>a, <1>b, <4>1, <4>2 DEF Once, SentAtMostOnce, Goal, Unsent
    <3>2. CASE pc'[t] # "claimed"
      BY <1>c, <2>6, <3>2 DEF Reserve
    <3> QED  BY <3>1, <3>2
  <2>7. CASE RefuseUnclaimed(t)
    BY <1>c, <2>7 DEF RefuseUnclaimed, RefuseRow
  <2>8. CASE Claim(t)
    <3>1. CASE pc'[t] = "claimed"
      <4>1. /\ on[t] \in Delivery /\ row[on[t]].phase \in Unsent
            /\ row'[on[t]].phase = "dispatching" /\ sent' = sent /\ on' = on
            /\ pc' = [pc EXCEPT ![t] = "claimed"]
        BY <2>8, <3>1 DEF Claim, Claimable, Unsent, Wiring
      <4>2. \A u \in Thread \ {t} : pc[u] = "claimed" => on[u] # on[t]
        BY <4>1 DEF Once
      <4> QED  BY <1>a, <1>b, <4>1, <4>2 DEF Once, SentAtMostOnce, Goal, Unsent
    <3>2. CASE pc'[t] # "claimed"
      BY <1>c, <2>8, <3>2 DEF Claim
    <3> QED  BY <3>1, <3>2
  <2>9. CASE RefuseClaimed(t)
    BY <1>c, <2>9 DEF RefuseClaimed, RefuseRow
  <2>10. CASE Dispatch(t)
    <3>1. /\ on[t] \in Delivery /\ sent[on[t]] = 0 /\ row[on[t]].phase \notin Unsent
          /\ row' = row /\ on' = on
          /\ \A u \in Thread : pc'[u] = "claimed" => u # t /\ pc[u] = "claimed"
      BY <1>b, <2>10 DEF Dispatch, Once, journal
    <3>2. CASE sent' = sent
      BY <1>c, <3>1, <3>2
    <3>3. CASE sent' = [sent EXCEPT ![on[t]] = @ + 1]
      <4>1. \A u \in Thread : pc'[u] = "claimed" => on[u] # on[t]
        BY <2>10, <3>1 DEF Once, Dispatch
      <4> QED  BY <1>b, <3>1, <3>3, <4>1 DEF Once, SentAtMostOnce, Goal
    <3> QED  BY <2>10, <3>2, <3>3 DEF Dispatch
  <2>11. CASE Ack(t)
    BY <1>c, <2>11 DEF Ack, AckRow, AckPhase
  <2>12. CASE Submit(t)
    BY <1>c, <2>12 DEF Submit
  <2>13. CASE ReleaseLock(t)
    BY <1>c, <2>13 DEF ReleaseLock
  <2>14. CASE Remove(t)
    BY <1>c, <2>14 DEF Remove
  <2>15. CASE ReserveRelease(t)
    BY <1>c, <2>15 DEF ReserveRelease
  <2>16. CASE Shutdown(t)
    BY <1>c, <2>16 DEF Shutdown
  <2>17. CASE FinishRelease(t)
    BY <1>c, <2>17 DEF FinishRelease
  <2> QED  BY <1>3, <2>1, <2>2, <2>3, <2>4, <2>5, <2>6, <2>7, <2>8, <2>9, <2>10, <2>11,
       <2>12, <2>13, <2>14, <2>15, <2>16, <2>17 DEF Advance
<1>4. ASSUME Open PROVE Goal
  BY <1>c, <1>4 DEF Open
<1>5. ASSUME CloseTurn PROVE Goal
  BY <1>c, <1>5 DEF CloseTurn
<1>6. ASSUME JournalEnd PROVE Goal
  BY <1>c, <1>6 DEF JournalEnd, FinishTurn
<1>7. ASSUME StopBridge PROVE Goal
  BY <1>c, <1>7 DEF StopBridge, FinishTurn
<1>8. ASSUME Crash PROVE Goal
  BY <1>c, <1>8 DEF Crash
<1>9. ASSUME NEW d \in Delivery, Reconcile(d) PROVE Goal
  BY <1>c, <1>9 DEF Reconcile
<1>10. ASSUME UNCHANGED vars PROVE Goal
  BY <1>c, <1>10 DEF vars
<1> QED  BY <1>1, <1>2, <1>3, <1>4, <1>5, <1>6, <1>7, <1>8, <1>9, <1>10 DEF Next, Goal

LEMMA OnceInit == Init => Once /\ SentAtMostOnce
  BY DEF Init, Once, SentAtMostOnce

(* The body is prompted with a delivery at most once.                       *)
THEOREM NeverResent == Spec => []SentAtMostOnce
<1>1. Shape /\ Once /\ SentAtMostOnce /\ [Next]_vars => Once' /\ SentAtMostOnce'
  BY OnceStep
<1> QED  BY <1>1, OnceInit, ShapeInit, ShapeStep, PTL DEF Spec

(* A refused delivery has never been prompted.                              *)
THEOREM RefusalHolds == Spec => []RefusedNeverSent
<1>1. Shape /\ Once /\ SentAtMostOnce /\ [Next]_vars => Once' /\ SentAtMostOnce'
  BY OnceStep
<1>2. Once => RefusedNeverSent
  BY DEF Once, RefusedNeverSent, Unsent
<1> QED  BY <1>1, <1>2, OnceInit, ShapeInit, ShapeStep, PTL DEF Spec

-----------------------------------------------------------------------------
(* A release that is under way is the latest one, of the latest body, and   *)
(* the only one.                                                            *)
Releasing == {"intended", "stopped", "unstopped"}

Intent ==
    /\ \A g \in Generation : release[g] # "none" => g <= bound
    /\ \A t \in Thread : pc[t] \in Releasing =>
           held[t] \in Generation /\ held[t] = bound /\ release[held[t]] = "requested"
    /\ \A t, u \in Thread : pc[t] \in Releasing /\ pc[u] \in Releasing => t = u

LEMMA IntentPends == Shape /\ Intent =>
    \A t \in Thread : pc[t] \in Releasing => Recovery
  BY DEF Intent, Recovery

LEMMA IntentStep == ASSUME Shape, Intent, [Next]_vars PROVE Intent'
<1> DEFINE Left == /\ release' = release /\ bound' = bound
                   /\ \A t \in Thread : pc'[t] \in Releasing =>
                          pc[t] \in Releasing /\ held'[t] = held[t]
           Goal == Intent'
<1>c. ASSUME Left PROVE Goal
  BY <1>c DEF Intent
<1> HIDE DEF Goal
<1> USE DEF Shape, TypeOK, Goto, Leave, At, threads, journal, Releasing
<1>1. ASSUME NEW t \in Thread, NEW d \in Delivery, Send(t, d) \/ Drain(t, d) PROVE Goal
  BY <1>c, <1>1 DEF Send, Drain, Start
<1>2. ASSUME NEW t \in Thread, Prompt(t) \/ Release(t) PROVE Goal
  BY <1>c, <1>2 DEF Prompt, Release, Start
<1>3. ASSUME NEW t \in Thread, Advance(t) PROVE Goal
  <2>1. CASE DrainBorrow(t)
    BY <1>c, <2>1 DEF DrainBorrow
  <2>2. CASE Lock(t)
    BY <1>c, <2>2 DEF Lock
  <2>3. CASE GiveUp(t)
    BY <1>c, <2>3 DEF GiveUp
  <2>4. CASE CheckReady(t)
    BY <1>c, <2>4 DEF CheckReady, Ready
  <2>5. CASE Queue(t)
    BY <1>c, <2>5 DEF Queue
  <2>6. CASE Reserve(t)
    BY <1>c, <2>6 DEF Reserve
  <2>7. CASE RefuseUnclaimed(t)
    BY <1>c, <2>7 DEF RefuseUnclaimed, RefuseRow
  <2>8. CASE Claim(t)
    BY <1>c, <2>8 DEF Claim, Claimable
  <2>9. CASE RefuseClaimed(t)
    BY <1>c, <2>9 DEF RefuseClaimed, RefuseRow
  <2>10. CASE Dispatch(t)
    BY <1>c, <2>10 DEF Dispatch
  <2>11. CASE Ack(t)
    BY <1>c, <2>11 DEF Ack, AckRow, AckPhase
  <2>12. CASE Submit(t)
    BY <1>c, <2>12 DEF Submit
  <2>13. CASE ReleaseLock(t)
    BY <1>c, <2>13 DEF ReleaseLock
  <2>14. CASE Remove(t)
    BY <1>c, <2>14 DEF Remove
  <2>15. CASE ReserveRelease(t)
    <3>1. CASE pc'[t] # "intended"
      BY <1>c, <2>15, <3>1 DEF ReserveRelease
    <3>2. CASE pc'[t] = "intended"
      <4>1. /\ bound = held[t] /\ held[t] \in Generation /\ ~Recovery
            /\ release' = [release EXCEPT ![held[t]] = "requested"]
            /\ pc' = [pc EXCEPT ![t] = "intended"]
            /\ held' = held /\ bound' = bound
        BY <2>15, <3>2 DEF ReserveRelease, Wiring
      <4>2. \A u \in Thread : pc[u] \notin Releasing
        BY <4>1, IntentPends
      <4>3. \A u \in Thread : pc'[u] \in Releasing => u = t
        BY <4>1, <4>2
      <4>4. \A g \in Generation : release'[g] # "none" => g <= bound'
        BY <4>1 DEF Intent, Generation
      <4>5. release'[held'[t]] = "requested"
        BY <4>1
      <4> QED  BY <4>1, <4>3, <4>4, <4>5 DEF Intent, Goal
    <3> QED  BY <3>1, <3>2
  <2>16. CASE Shutdown(t)
    BY <1>c, <2>16 DEF Shutdown
  <2>17. CASE FinishRelease(t)
    <3>1. /\ pc[t] \in Releasing /\ bound' = bound
          /\ \A u \in Thread : pc'[u] \in Releasing => u # t /\ pc[u] \in Releasing
      BY <2>17 DEF FinishRelease
    <3>2. \A u \in Thread : pc'[u] \notin Releasing
      BY <3>1 DEF Intent
    <3>3. \A g \in Generation : release'[g] # "none" => release[g] # "none"
      BY <2>17, <3>1 DEF FinishRelease, Intent
    <3> QED  BY <3>1, <3>2, <3>3 DEF Intent, Goal
  <2> QED  BY <1>3, <2>1, <2>2, <2>3, <2>4, <2>5, <2>6, <2>7, <2>8, <2>9, <2>10, <2>11,
       <2>12, <2>13, <2>14, <2>15, <2>16, <2>17 DEF Advance
<1>4. ASSUME Open PROVE Goal
  <2>1. \A t \in Thread : pc[t] \notin Releasing
    BY <1>4, IntentPends DEF Open
  <2>2. release' = release /\ bound' = bound + 1 /\ pc' = pc
    BY <1>4 DEF Open
  <2>3. \A g \in Generation : g <= bound => g <= bound + 1
    BY DEF Generation
  <2> QED  BY <2>1, <2>2, <2>3 DEF Intent, Goal
<1>5. ASSUME CloseTurn PROVE Goal
  BY <1>c, <1>5 DEF CloseTurn
<1>6. ASSUME JournalEnd PROVE Goal
  BY <1>c, <1>6 DEF JournalEnd
<1>7. ASSUME StopBridge PROVE Goal
  BY <1>c, <1>7 DEF StopBridge
<1>8. ASSUME Crash PROVE Goal
  BY <1>c, <1>8 DEF Crash
<1>9. ASSUME NEW d \in Delivery, Reconcile(d) PROVE Goal
  BY <1>c, <1>9 DEF Reconcile
<1>10. ASSUME UNCHANGED vars PROVE Goal
  BY <1>c, <1>10 DEF vars
<1> QED  BY <1>1, <1>2, <1>3, <1>4, <1>5, <1>6, <1>7, <1>8, <1>9, <1>10 DEF Next, Goal

(* Only the two writes of a release change its journal.                     *)
LEMMA ReleaseMoves == ASSUME [Next]_vars
    PROVE release' = release \/ \E t \in Thread : ReserveRelease(t) \/ FinishRelease(t)
<1> USE DEF journal
<1>1. ASSUME NEW t \in Thread, Advance(t), ~ReserveRelease(t), ~FinishRelease(t)
      PROVE  release' = release
  BY <1>1 DEF Advance, DrainBorrow, Lock, GiveUp, CheckReady, Queue, Reserve,
     RefuseUnclaimed, Claim, RefuseClaimed, Dispatch, Ack, Submit, ReleaseLock,
     Remove, Shutdown
<1>2. ASSUME NEW t \in Thread, NEW d \in Delivery,
             Send(t, d) \/ Drain(t, d) \/ Prompt(t) \/ Release(t)
      PROVE  release' = release
  BY <1>2 DEF Send, Drain, Prompt, Release, Start
<1>3. ASSUME NEW t \in Thread, Prompt(t) \/ Release(t) PROVE release' = release
  BY <1>3 DEF Prompt, Release, Start
<1>4. ASSUME NEW d \in Delivery, Reconcile(d) PROVE release' = release
  BY <1>4 DEF Reconcile
<1>5. Open \/ CloseTurn \/ JournalEnd \/ StopBridge \/ Crash \/ UNCHANGED vars => release' = release
  BY DEF Open, CloseTurn, JournalEnd, StopBridge, Crash, vars
<1> QED  BY <1>1, <1>2, <1>3, <1>4, <1>5 DEF Next

LEMMA ExclusionStep ==
    ASSUME Shape, Intent, ReleaseExcludesDelivery, [Next]_vars
    PROVE  ReleaseExcludesDelivery'
<1>1. ASSUME NEW t \in Thread, ReserveRelease(t), release' # release
      PROVE  ~Pending'
  BY <1>1 DEF ReserveRelease, Pending
<1>2. ASSUME NEW t \in Thread, FinishRelease(t) PROVE ~Pending'
  <2>1. pc[t] \in Releasing
    BY <1>2 DEF FinishRelease, Releasing
  <2> QED  BY <1>2, <2>1, IntentPends DEF FinishRelease, Pending, ReleaseExcludesDelivery
<1>3. ASSUME release' = release, Recovery' PROVE ~Pending'
  <2>1. Recovery
    BY <1>3 DEF Recovery
  <2>2. \A d \in Delivery : row[d].phase \notin Active /\ ~Admits(d)
    BY <2>1 DEF Admits, Pending, ReleaseExcludesDelivery
  <2>3. \A d \in Delivery : row'[d] = row[d]
    BY <2>2, RowMoves DEF RowStep, Active, Unresolved
  <2> QED  BY <2>2, <2>3 DEF Pending
<1> QED  BY <1>1, <1>2, <1>3, ReleaseMoves DEF ReleaseExcludesDelivery

(* No delivery is active while a release is intended or unconfirmed.        *)
THEOREM ReleaseIsExclusive == Spec => []ReleaseExcludesDelivery
<1>1. Init => Intent /\ ReleaseExcludesDelivery
  BY DEF Init, Intent, ReleaseExcludesDelivery, Recovery, Releasing
<1>2. Shape /\ Intent /\ ReleaseExcludesDelivery /\ [Next]_vars =>
          Intent' /\ ReleaseExcludesDelivery'
  BY IntentStep, ExclusionStep
<1> QED  BY <1>1, <1>2, ShapeInit, ShapeStep, PTL DEF Spec

-----------------------------------------------------------------------------
(* A turn carries a delivery that has left the queue, of its own body, and  *)
(* not yet settled by that turn; a thread that may still prompt with a      *)
(* delivery knows that no turn carries it; credit goes with a stop.         *)
Carrying(n) ==
    n # None /\ n.of \in Delivery =>
        /\ row[n.of].phase \notin Unsent
        /\ row[n.of].gen = n.gen
        /\ credit[n.of] # n

NotYet(t) ==
    /\ row[on[t]].gen = held[t]
    /\ turn # None => turn.of # on[t]
    /\ ending # None => ending.of # on[t]
    /\ credit[on[t]] # None => credit[on[t]].of # on[t]

Credited ==
    /\ Carrying(turn) /\ Carrying(ending)
    /\ turn # None /\ ending # None => turn.of # ending.of \/ turn.of = Person
    /\ \A t \in Thread : pc[t] = "claimed" => NotYet(t)
    /\ \A d \in Delivery : row[d].phase \in Stops <=> credit[d] # None

(* The end of turn n settles at most one delivery, and crosses none.        *)
LEMMA FinishKeeps ==
    ASSUME Shape, Once, OneActive, Credited, RepliesNotCrossed,
           NEW n \in Turns, n # None, n = turn \/ n = ending,
           NEW stop \in Stops, FinishTurn(n, stop),
           UNCHANGED <<pc, on, held>>,
           turn' \in {turn, None}, ending' \in {ending, None},
           turn' # None => turn'.of # n.of \/ turn'.of = Person,
           ending' # None => ending'.of # n.of \/ ending'.of = Person
    PROVE  Credited' /\ RepliesNotCrossed'
<1> DEFINE Hit(d) == Attributed(d, n)
<1> USE DEF Shape, TypeOK
<1>1. \A d \in Delivery :
          /\ Hit(d) => row'[d].phase = stop /\ row'[d].gen = row[d].gen /\ credit'[d] = n
          /\ ~Hit(d) => row'[d] = row[d] /\ credit'[d] = credit[d]
  BY DEF FinishTurn
<1>2. \A d \in Delivery : Hit(d) =>
          row[d].phase \in Unresolved /\ row[d].gen = n.gen /\ credit[d] = None
  BY DEF Attributed, Credited, Unresolved, Stops
<1>3. Carrying(n)
  BY DEF Credited
<1>4. \A d, e \in Delivery : Hit(d) /\ Hit(e) => d = e
  BY <1>2 DEF OneActive, Active
<1> HIDE DEF Hit
<1>5. ASSUME NEW m \in {turn, ending}, m # None, m.of # n.of \/ m.of = Person
      PROVE  Carrying(m)'
  <2> SUFFICES ASSUME m.of \in Delivery
               PROVE  /\ row'[m.of].phase \notin Unsent /\ row'[m.of].gen = m.gen
                      /\ credit'[m.of] # m
    BY <1>5 DEF Carrying
  <2>1. Carrying(m) /\ m.of # n.of
    BY <1>5, DistinctAssumption DEF Credited
  <2>2. row[m.of].phase \notin Unsent /\ row[m.of].gen = m.gen /\ credit[m.of] # m
    BY <1>5, <2>1 DEF Carrying
  <2> QED  BY <1>1, <2>1, <2>2 DEF Stops, Unsent
<1>6. Carrying(turn)' /\ Carrying(ending)'
  BY <1>5 DEF Carrying
<1>7. ASSUME NEW t \in Thread, pc'[t] = "claimed" PROVE NotYet(t)'
  <2>1. NotYet(t) /\ on[t] \in Delivery /\ n.of # on[t]
    BY <1>7 DEF Credited, NotYet, Wiring
  <2> QED  BY <1>1, <2>1 DEF NotYet
<1>8. \A d \in Delivery : row'[d].phase \in Stops <=> credit'[d] # None
  BY <1>1 DEF Credited
<1>9. RepliesNotCrossed'
  <2> SUFFICES ASSUME NEW d \in Delivery, credit'[d] # None
               PROVE  /\ row'[d].gen = credit'[d].gen
                      /\ \A e \in Delivery \ {d} : credit'[d].of = e =>
                             row'[e].phase = "reconciled" \/ credit'[e] \notin {None, credit'[d]}
    BY DEF RepliesNotCrossed
  <2>1. CASE Hit(d)
    <3> SUFFICES ASSUME NEW e \in Delivery, e # d, n.of = e
                 PROVE  row'[e].phase = "reconciled" \/ credit'[e] \notin {None, n}
      BY <1>1, <1>2, <2>1
    <3>1. ~Hit(e)
      BY <1>4, <2>1
    <3>2. row[e].phase \notin Unsent /\ credit[e] # n
      BY <1>3 DEF Carrying
    <3>3. row[e].phase \notin Active
      BY <1>2, <2>1 DEF OneActive, Active
    <3>4. row[e].phase = "reconciled" \/ credit[e] # None
      BY <3>2, <3>3 DEF Credited, Phase, Active, Settled, Stops, Unsent
    <3> QED  BY <1>1, <3>1, <3>2, <3>4
  <2>2. CASE ~Hit(d)
    <3>1. credit[d] # None /\ credit'[d] = credit[d] /\ row'[d] = row[d]
      BY <1>1, <2>2
    <3> SUFFICES ASSUME NEW e \in Delivery, e # d, credit[d].of = e
                 PROVE  row'[e].phase = "reconciled" \/ credit'[e] \notin {None, credit[d]}
      BY <3>1 DEF RepliesNotCrossed
    <3>2. row[e].phase = "reconciled" \/ credit[e] \notin {None, credit[d]}
      BY <3>1 DEF RepliesNotCrossed
    <3>3. ~Hit(e)
      BY <1>2, <3>2 DEF Unresolved
    <3> QED  BY <1>1, <3>2, <3>3
  <2> QED  BY <2>1, <2>2
<1>10. turn' # None /\ ending' # None => turn'.of # ending'.of \/ turn'.of = Person
  BY DEF Credited
<1> QED  BY <1>6, <1>7, <1>8, <1>9, <1>10 DEF Credited

LEMMA CreditStep ==
    ASSUME Shape, Once, OneActive, Credited, RepliesNotCrossed, [Next]_vars
    PROVE  Credited' /\ RepliesNotCrossed'
<1> DEFINE Calm == /\ turn' \in {turn, None} /\ ending' \in {ending, None}
                   /\ credit' = credit
                   /\ \A d \in Delivery : row'[d].phase \in Stops => row[d].phase \in Stops
           Left == /\ Calm
                   /\ \A t \in Thread : pc'[t] = "claimed" =>
                          pc[t] = "claimed" /\ on'[t] = on[t] /\ held'[t] = held[t]
           Goal == Credited' /\ RepliesNotCrossed'
<1>a. \A d \in Delivery : row[d].phase \notin Unsent =>
          /\ row'[d].phase \notin Unsent /\ row'[d].gen = row[d].gen
          /\ row[d].phase \in Settled => row'[d] = row[d]
  BY RowMoves DEF RowStep, Unsent, Unresolved, Stops, Settled, Admits
<1>b. ASSUME Calm
      PROVE  /\ Carrying(turn)' /\ Carrying(ending)'
             /\ turn' # None /\ ending' # None => turn'.of # ending'.of \/ turn'.of = Person
             /\ \A d \in Delivery : row'[d].phase \in Stops <=> credit'[d] # None
             /\ RepliesNotCrossed'
  <2>1. \A d \in Delivery : row[d].phase \in Stops => row'[d] = row[d]
    BY <1>a DEF Unsent, Stops, Settled
  <2>2. \A d \in Delivery : row'[d].phase \in Stops <=> credit'[d] # None
    BY <1>b, <2>1 DEF Credited
  <2>3. ASSUME NEW m \in {turn, ending}, m # None PROVE Carrying(m)'
    BY <1>a, <1>b, <2>3 DEF Carrying, Credited
  <2>4. Carrying(turn)' /\ Carrying(ending)'
    BY <1>b, <2>3 DEF Carrying
  <2>5. ASSUME NEW d \in Delivery, credit[d] # None
        PROVE  row'[d] = row[d] /\ \A e \in Delivery : row[e].phase = "reconciled" => row'[e] = row[e]
    BY <1>a, <2>1, <2>5 DEF Credited, Unsent, Settled
  <2>6. RepliesNotCrossed'
    BY <1>b, <2>5 DEF RepliesNotCrossed
  <2> QED  BY <1>b, <2>2, <2>4, <2>6 DEF Credited
<1>c. ASSUME Left PROVE Goal
  <2>1. ASSUME NEW t \in Thread, pc'[t] = "claimed" PROVE NotYet(t)'
    <3>1. /\ on'[t] = on[t] /\ held'[t] = held[t] /\ NotYet(t)
          /\ on[t] \in Delivery /\ row[on[t]].phase \notin Unsent
      BY <1>c, <2>1 DEF Credited, Once, Shape, Wiring
    <3> QED  BY <1>a, <1>c, <3>1 DEF NotYet
  <2> QED  BY <1>b, <1>c, <2>1 DEF Credited
<1> HIDE DEF Goal
<1> USE DEF Shape, TypeOK, Goto, Leave, At, threads, history, body, Stops
<1>1. ASSUME NEW t \in Thread, NEW d \in Delivery, Send(t, d) \/ Drain(t, d) PROVE Goal
  BY <1>c, <1>1 DEF Send, Drain, Start, journal
<1>2. ASSUME NEW t \in Thread, Prompt(t) \/ Release(t) PROVE Goal
  BY <1>c, <1>2 DEF Prompt, Release, Start, journal
<1>3. ASSUME NEW t \in Thread, Advance(t) PROVE Goal
  <2>1. CASE DrainBorrow(t)
    BY <1>c, <2>1 DEF DrainBorrow, journal
  <2>2. CASE Lock(t)
    BY <1>c, <2>2 DEF Lock, journal
  <2>3. CASE GiveUp(t)
    BY <1>c, <2>3 DEF GiveUp, journal
  <2>4. CASE CheckReady(t)
    BY <1>c, <2>4 DEF CheckReady, Ready, journal
  <2>5. CASE Queue(t)
    BY <1>c, <2>5 DEF Queue
  <2>6. CASE Reserve(t)
    <3>1. CASE pc'[t] = "claimed"
      <4>1. /\ on[t] \in Delivery /\ row[on[t]].phase \in Unsent
            /\ row' = [row EXCEPT ![on[t]] = [phase |-> "dispatching", gen |-> held[t]]]
            /\ UNCHANGED <<on, held, turn, ending, credit>>
            /\ pc' = [pc EXCEPT ![t] = "claimed"]
        BY <2>6, <3>1 DEF Reserve, Admits, Unsent, Wiring
      <4>2. Calm
        BY <4>1
      <4>3. NotYet(t)'
        BY <4>1 DEF NotYet, Credited, Carrying, Unsent, Turns
      <4>4. ASSUME NEW u \in Thread \ {t}, pc[u] = "claimed" PROVE NotYet(u)'
        <5>1. NotYet(u) /\ on[u] \in Delivery /\ on[u] # on[t]
          BY <4>1, <4>4 DEF Credited, Once, Wiring
        <5> QED  BY <4>1, <5>1 DEF NotYet
      <4>5. \A u \in Thread : pc'[u] = "claimed" => NotYet(u)'
        BY <4>1, <4>3, <4>4
      <4> QED  BY <1>b, <4>2, <4>5 DEF Credited, Goal
    <3>2. CASE pc'[t] # "claimed"
      BY <1>c, <2>6, <3>2 DEF Reserve
    <3> QED  BY <3>1, <3>2
  <2>7. CASE RefuseUnclaimed(t)
    BY <1>c, <2>7 DEF RefuseUnclaimed, RefuseRow
  <2>8. CASE Claim(t)
    <3>1. CASE pc'[t] = "claimed"
      <4>1. /\ on[t] \in Delivery /\ row[on[t]].phase \in Unsent
            /\ row' = [row EXCEPT ![on[t]] = [phase |-> "dispatching", gen |-> held[t]]]
            /\ UNCHANGED <<on, held, turn, ending, credit>>
            /\ pc' = [pc EXCEPT ![t] = "claimed"]
        BY <2>8, <3>1 DEF Claim, Claimable, Unsent, Wiring
      <4>2. Calm
        BY <4>1
      <4>3. NotYet(t)'
        BY <4>1 DEF NotYet, Credited, Carrying, Unsent, Turns
      <4>4. ASSUME NEW u \in Thread \ {t}, pc[u] = "claimed" PROVE NotYet(u)'
        <5>1. NotYet(u) /\ on[u] \in Delivery /\ on[u] # on[t]
          BY <4>1, <4>4 DEF Credited, Once, Wiring
        <5> QED  BY <4>1, <5>1 DEF NotYet
      <4>5. \A u \in Thread : pc'[u] = "claimed" => NotYet(u)'
        BY <4>1, <4>3, <4>4
      <4> QED  BY <1>b, <4>2, <4>5 DEF Credited, Goal
    <3>2. CASE pc'[t] # "claimed"
      BY <1>c, <2>8, <3>2 DEF Claim
    <3> QED  BY <3>1, <3>2
  <2>9. CASE RefuseClaimed(t)
    BY <1>c, <2>9 DEF RefuseClaimed, RefuseRow
  <2>10. CASE Dispatch(t)
    <3>1. CASE turn' = turn
      BY <1>c, <2>10, <3>1 DEF Dispatch, journal
    <3>2. CASE turn' # turn
      <4>1. /\ turn = None /\ turn' = [of |-> on[t], gen |-> held[t]]
            /\ on[t] \in Delivery /\ pc[t] = "claimed"
            /\ UNCHANGED <<row, credit, ending, on, held>>
            /\ \A u \in Thread : pc'[u] = "claimed" => u # t /\ pc[u] = "claimed"
        BY <2>10, <3>2 DEF Dispatch, journal, Wiring
      <4>2. NotYet(t) /\ row[on[t]].phase \notin Unsent
        BY <4>1 DEF Credited, Once
      <4>3. Carrying(turn)' /\ Carrying(ending)'
        BY <4>1, <4>2 DEF Carrying, NotYet, Credited
      <4>4. turn' # None /\ ending' # None => turn'.of # ending'.of
        BY <4>1, <4>2 DEF NotYet
      <4>5. ASSUME NEW u \in Thread, pc'[u] = "claimed" PROVE NotYet(u)'
        <5>1. NotYet(u) /\ on[u] # on[t]
          BY <4>1, <4>5 DEF Credited, Once
        <5> QED  BY <4>1, <5>1 DEF NotYet
      <4> QED  BY <4>1, <4>3, <4>4, <4>5 DEF Credited, RepliesNotCrossed, Goal
    <3> QED  BY <3>1, <3>2
  <2>11. CASE Ack(t)
    BY <1>c, <2>11 DEF Ack, AckRow, AckPhase
  <2>12. CASE Submit(t)
    <3>1. /\ turn = None /\ turn' = [of |-> Person, gen |-> held[t]]
          /\ UNCHANGED <<row, credit, ending>>
          /\ \A u \in Thread : pc'[u] = "claimed" =>
                 pc[u] = "claimed" /\ on'[u] = on[u] /\ held'[u] = held[u]
      BY <2>12 DEF Submit, journal
    <3>2. ASSUME NEW u \in Thread, pc'[u] = "claimed" PROVE NotYet(u)'
      <4>1. NotYet(u) /\ on[u] \in Delivery /\ on'[u] = on[u] /\ held'[u] = held[u]
        BY <3>1, <3>2 DEF Credited, Wiring
      <4> QED  BY <3>1, <4>1, DistinctAssumption DEF NotYet
    <3>3. Carrying(turn)' /\ Carrying(ending)'
      BY <3>1, DistinctAssumption DEF Carrying, Credited
    <3> QED  BY <3>1, <3>2, <3>3 DEF Credited, RepliesNotCrossed, Goal
  <2>13. CASE ReleaseLock(t)
    BY <1>c, <2>13 DEF ReleaseLock, journal
  <2>14. CASE Remove(t)
    BY <1>c, <2>14 DEF Remove, journal
  <2>15. CASE ReserveRelease(t)
    BY <1>c, <2>15 DEF ReserveRelease
  <2>16. CASE Shutdown(t)
    BY <1>c, <2>16 DEF Shutdown, journal
  <2>17. CASE FinishRelease(t)
    BY <1>c, <2>17 DEF FinishRelease
  <2> QED  BY <1>3, <2>1, <2>2, <2>3, <2>4, <2>5, <2>6, <2>7, <2>8, <2>9, <2>10, <2>11,
       <2>12, <2>13, <2>14, <2>15, <2>16, <2>17 DEF Advance
<1>4. ASSUME Open PROVE Goal
  BY <1>c, <1>4 DEF Open, journal
<1>5. ASSUME CloseTurn PROVE Goal
  <2>1. /\ ending = None /\ ending' = turn /\ turn' = None /\ turn # None
        /\ UNCHANGED <<row, credit, pc, on, held>>
    BY <1>5 DEF CloseTurn, journal
  <2>2. Carrying(turn)' /\ Carrying(ending)'
    BY <2>1 DEF Carrying, Credited
  <2>3. \A u \in Thread : pc'[u] = "claimed" => NotYet(u)'
    BY <2>1 DEF NotYet, Credited
  <2> QED  BY <2>1, <2>2, <2>3 DEF Credited, RepliesNotCrossed, Goal
<1>6. ASSUME JournalEnd PROVE Goal
  <2>1. CASE UNCHANGED <<row, credit>>
    BY <1>c, <1>6, <2>1 DEF JournalEnd
  <2>2. ASSUME NEW stop \in Stops, FinishTurn(ending, stop) PROVE Goal
    <3>1. /\ ending # None /\ ending' = None /\ turn' = turn
          /\ UNCHANGED <<pc, on, held>>
      BY <1>6 DEF JournalEnd
    <3>2. turn' # None => turn'.of # ending.of \/ turn'.of = Person
      BY <3>1 DEF Credited
    <3> QED  BY <2>2, <3>1, <3>2, FinishKeeps DEF Goal
  <2> QED  BY <1>6, <2>1, <2>2 DEF JournalEnd
<1>7. ASSUME StopBridge PROVE Goal
  <2>1. CASE UNCHANGED <<row, credit>>
    BY <1>c, <1>7, <2>1 DEF StopBridge
  <2>2. ASSUME turn # None, FinishTurn(turn, "failed") PROVE Goal
    <3>1. /\ ending' = ending /\ turn' = None
          /\ UNCHANGED <<pc, on, held>> /\ "failed" \in Stops
      BY <1>7 DEF StopBridge
    <3>2. ending' # None => ending'.of # turn.of \/ ending'.of = Person
      BY <2>2, <3>1 DEF Credited
    <3> QED  BY <2>2, <3>1, <3>2, FinishKeeps DEF Goal
  <2> QED  BY <1>7, <2>1, <2>2 DEF StopBridge
<1>8. ASSUME Crash PROVE Goal
  BY <1>c, <1>8 DEF Crash, journal
<1>9. ASSUME NEW d \in Delivery, Reconcile(d) PROVE Goal
  BY <1>c, <1>9 DEF Reconcile
<1>10. ASSUME UNCHANGED vars PROVE Goal
  BY <1>c, <1>10 DEF vars, journal
<1> QED  BY <1>1, <1>2, <1>3, <1>4, <1>5, <1>6, <1>7, <1>8, <1>9, <1>10 DEF Next, Goal

(* One delivery's reply settles no other, unless it had been settled by     *)
(* something else.                                                          *)
THEOREM NoCrossing == Spec => []RepliesNotCrossed
<1> DEFINE Inv == Once /\ SentAtMostOnce /\ OneActive /\ Credited /\ RepliesNotCrossed
<1>1. Init => Inv
  BY OnceInit DEF Init, OneActive, Active, Unresolved, Credited, Carrying,
     RepliesNotCrossed, Stops
<1>2. Shape /\ Inv /\ [Next]_vars => Inv'
  BY OnceStep, OneActiveStep, CreditStep
<1>3. Inv => RepliesNotCrossed
  OBVIOUS
<1> QED  BY <1>1, <1>2, <1>3, ShapeInit, ShapeStep, PTL DEF Spec

=============================================================================
