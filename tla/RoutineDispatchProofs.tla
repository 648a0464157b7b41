----------------------- MODULE RoutineDispatchProofs -----------------------
(***************************************************************************)
(* Proofs about RoutineDispatch, for any processes, any Routines and       *)
(* occurrences, any policy and any number of upsets.                       *)
(***************************************************************************)
EXTENDS RoutineDispatch, WellFoundedInduction, TLAPS

Place == {"idle", "stamp", "stamping", "list", "plan", "work", "admit", "run",
          "executing", "record", "deliver", "stale", "mark", "put"}

(* The types of what a process holds.                                      *)
Carried ==
    /\ pc \in [Process -> Place]
    /\ op \in [Process -> {"none", "tick", "run-now", "event", "edit"}]
    /\ now \in [Process -> Time] /\ prev \in [Process -> Time \cup {None}]
    /\ copy \in [Process -> [Routine -> Body]]
    /\ todo \in [Process -> SUBSET Invocation]
    /\ cur \in [Process -> Invocation \cup Routine \cup {None}]
    /\ got \in [Process -> Status \cup Body \cup {None}]

(* What a process carries at each point it has reached.                    *)
Wiring ==
    \A p \in Process :
        /\ pc[p] \in {"admit", "run", "executing", "record", "deliver", "stale", "mark"} =>
               cur[p] \in Invocation
        /\ pc[p] \in {"record", "deliver"} => got[p] \in Status
        /\ pc[p] = "mark" => got[p] \in Body
        /\ pc[p] = "put" => cur[p] \in Routine /\ got[p] \in Body
        /\ pc[p] \in {"run", "executing", "record", "deliver"} => ledger[cur[p]] # None

Shape == TypeOK /\ Wiring

-----------------------------------------------------------------------------
(* Numbers. *)

LEMMA Least ==
  ASSUME NEW S \in SUBSET Nat, S # {}
  PROVE  \E x \in S : \A y \in S : x <= y
<1> DEFINE R == OpToRel(<, Nat)
<1>1. IsWellFoundedOn(R, Nat)
  BY NatLessThanWellFounded
<1>2. R = {ss \in Nat \X Nat : ss[1] < ss[2]}
  BY DEF OpToRel
<1> HIDE DEF R
<1>3. PICK x \in S : \A y \in S : ~(<<y, x>> \in R)
  BY <1>1, WFMin
<1>4. \A y \in S : ~(y < x)
  BY <1>2, <1>3
<1> QED  BY <1>3, <1>4

LEMMA Greatest ==
  ASSUME NEW m \in Nat, NEW S \in SUBSET (0 .. m), S # {}
  PROVE  Max(S) \in S
<1> DEFINE T == {m - x : x \in S}
<1>0. \A x \in S : x \in 0 .. m /\ m - x \in Nat
  OBVIOUS
<1>1. T \in SUBSET Nat /\ T # {}
  BY <1>0
<1>2. PICK t \in T : \A y \in T : t <= y
  <2> HIDE DEF T
  <2> QED  BY <1>1, Least
<1>3. PICK x \in S : t = m - x
  BY <1>2
<1>4. \A y \in S : m - x <= m - y
  BY <1>2, <1>3
<1>5. \A y \in S : x >= y
  BY <1>0, <1>3, <1>4
<1> QED  BY <1>3, <1>5 DEF Max

LEMMA Instants == 0 \in Time /\ \A t \in Time : t \in 0 .. MaxClock
  BY BoundsAssumption DEF Time

(* The check point of a reading is an instant.                             *)
LEMMA Readings ==
  ASSUME TypeOK, NEW p \in Process, NEW r \in Scheduled
  PROVE  ReadingNow(p, r) \in Time
<1> DEFINE fresh == {Due[o] : o \in {q \in Resolved(p, r) : now[p] < Due[q] + OnTime}}
<1>1. now[p] \in Time
  BY DEF TypeOK
<1>2. fresh \in SUBSET (0 .. MaxClock)
  BY PlanAssumption DEF Resolved, Time
<1>3. CASE fresh = {}
  BY <1>1, <1>3 DEF ReadingNow
<1>4. CASE fresh # {}
  <2>1. MaxClock \in Nat
    BY BoundsAssumption
  <2>2. Max(fresh) \in fresh
    <3> HIDE DEF fresh
    <3> QED  BY <1>2, <1>4, <2>1, Greatest
  <2> QED  BY <1>2, <1>4, <2>2 DEF ReadingNow, Time
<1> QED  BY <1>3, <1>4

-----------------------------------------------------------------------------
(* Types of what is held and of what is asked. *)

LEMMA Bodies ==
  ASSUME TypeOK
  PROVE  /\ Blank \in [Routine -> Body]
         /\ \A i \in Invocation : RoutineOf(i) \in Routine
<1>1. (CHOOSE m \in Method : TRUE) \in Method
  BY DEF TypeOK
<1> QED  BY <1>1, PlanAssumption DEF Blank, Body, State, Routine, Invocation, Woken, RoutineOf

LEMMA LeaveKeeps == ASSUME TypeOK, NEW p \in Process, Leave(p) PROVE Carried'
  BY Instants, Bodies DEF TypeOK, Leave, Goto, Carried, Place

LEMMA NextKeeps == ASSUME TypeOK, NEW p \in Process, NextItem(p) PROVE Carried'
<1>1. \A S \in SUBSET Invocation : \A x : S \ {x} \in SUBSET Invocation
  OBVIOUS
<1> QED  BY <1>1 DEF TypeOK, NextItem, Goto, Carried, Place

LEMMA FailedKeeps == ASSUME TypeOK, NEW p \in Process, Failed(p) PROVE Carried'
  BY LeaveKeeps, NextKeeps DEF Failed

LEMMA RejectKeeps == ASSUME TypeOK, NEW p \in Process, NEW b, Reject(p, b) PROVE Carried'
  BY FailedKeeps DEF Reject, TypeOK, Goto, Carried, Place

LEMMA Edits ==
  ASSUME TypeOK, NEW b \in Body
  PROVE  Enable(b) \cup Disable(b) \cup Reprove(b) \cup Delete(b) \subseteq Body
<1>1. \A x \in State : [b EXCEPT !.state = x] \in Body
  BY DEF Body
<1>2. {"Enabled", "Disabled", "absent"} \subseteq State
  BY DEF State
<1>3. Enable(b) \subseteq Body /\ Disable(b) \subseteq Body /\ Delete(b) \subseteq Body
  BY <1>1, <1>2 DEF Enable, Disable, Delete
<1>4. Reprove(b) \subseteq Body
  BY <1>2 DEF Reprove, Body, TypeOK
<1> QED  BY <1>3, <1>4

LEMMA AskedIsRequest ==
  ASSUME TypeOK, NEW p \in Process, cur[p] \in Invocation
  PROVE  Asked(p) \in Request
<1>1. Held(p).proof \in Method
  BY Bodies DEF TypeOK, Held, Body
<1>2. ObservedAt(p) \in Time
  BY Readings, PlanAssumption DEF ObservedAt, TypeOK
<1>3. Gates(cur[p]) \in SUBSET Delivery
  BY DEF Gates, Gate, Delivery
<1> QED  BY <1>1, <1>2, <1>3 DEF Asked, Request

LEMMA AgainIsRequest ==
  ASSUME TypeOK, NEW p \in Process, cur[p] \in Invocation, got[p] \in Status,
         ledger[cur[p]] # None
  PROVE  Again(p) \in Request
<1>1. ledger[cur[p]] \in Entry
  BY DEF TypeOK
<1>2. routines[RoutineOf(cur[p])].proof \in Method
  BY Bodies DEF TypeOK, Body
<1>3. {Outcome(cur[p], got[p])} \in SUBSET Delivery
  BY DEF Outcome, Delivery
<1> QED  BY <1>1, <1>2, <1>3 DEF Again, Request, Entry

-----------------------------------------------------------------------------
(* What one step can do to the ledger. *)

Writes(i, s) == ledger[i] # None /\ WriteOutcome(i, s)

LedgerMoves ==
    \/ ledger' = ledger
    \/ \E q \in Request : Admitted(q)
    \/ \E p \in Process : pc[p] = "record" /\ Writes(cur[p], got[p])

(* An admission leaves an entry that is typed.                             *)
LEMMA AdmittedTypes ==
  ASSUME TypeOK, NEW q \in Request, Admitted(q)
  PROVE  /\ ledger' \in [Invocation -> Entry \cup {None}]
         /\ ledger'[q.inv] # None
<1>1. q.inv \in Invocation /\ NewEntry(q) \in Entry
  BY DEF Request, NewEntry, Entry
<1>2. CASE ledger[q.inv] = None
  <2>1. ledger' = [ledger EXCEPT ![q.inv] = NewEntry(q)]
    BY <1>2 DEF Admitted, MergeEntry
  <2> QED  BY <1>1, <2>1, NoneAssumption DEF TypeOK
<1>3. CASE ledger[q.inv] # None
  <2> DEFINE e == ledger[q.inv]
             f == [e EXCEPT !.deliveries = e.deliveries \cup q.deliveries]
  <2>1. e \in Entry
    BY <1>1, <1>3 DEF TypeOK
  <2>2. f \in Entry
    BY <2>1 DEF Entry, Request
  <2>3. ledger' = [ledger EXCEPT ![q.inv] = f]
    <3>1. (IF e = None THEN NewEntry(q) ELSE f) = f
      BY <1>3
    <3>2. ledger' = [ledger EXCEPT ![q.inv] = IF e = None THEN NewEntry(q) ELSE f]
      BY DEF Admitted, MergeEntry
    <3> HIDE DEF e, f
    <3> QED  BY <3>1, <3>2
  <2> QED  BY <1>1, <2>2, <2>3, NoneAssumption DEF TypeOK
<1> QED  BY <1>2, <1>3

LEMMA WritesTypes ==
  ASSUME TypeOK, NEW i \in Invocation, NEW s \in Status, Writes(i, s)
  PROVE  /\ ledger' \in [Invocation -> Entry \cup {None}]
         /\ ledger'[i] # None
<1>1. ledger[i] \in Entry
  BY DEF TypeOK, Writes
<1>2. [ledger[i] EXCEPT !.outcome = s] \in Entry
  BY <1>1 DEF Entry
<1> QED  BY <1>2, NoneAssumption DEF TypeOK, Writes, WriteOutcome

(* What is in the ledger stays there.                                      *)
LEMMA Stays ==
  ASSUME TypeOK, Wiring, LedgerMoves
  PROVE  /\ ledger' \in [Invocation -> Entry \cup {None}]
         /\ \A i \in Invocation : ledger[i] # None => ledger'[i] # None
<1>1. CASE ledger' = ledger
  BY <1>1 DEF TypeOK
<1>2. ASSUME NEW q \in Request, Admitted(q) PROVE
         /\ ledger' \in [Invocation -> Entry \cup {None}]
         /\ \A i \in Invocation : ledger[i] # None => ledger'[i] # None
  <2>1. \A i \in Invocation \ {q.inv} : ledger'[i] = ledger[i]
    BY <1>2 DEF Admitted, MergeEntry, TypeOK
  <2> QED  BY <1>2, <2>1, AdmittedTypes
<1>3. ASSUME NEW i \in Invocation, NEW s \in Status, Writes(i, s) PROVE
         /\ ledger' \in [Invocation -> Entry \cup {None}]
         /\ \A j \in Invocation : ledger[j] # None => ledger'[j] # None
  <2>1. \A j \in Invocation \ {i} : ledger'[j] = ledger[j]
    BY <1>3 DEF Writes, WriteOutcome, TypeOK
  <2> QED  BY <1>3, <2>1, WritesTypes
<1> QED  BY <1>1, <1>2, <1>3 DEF LedgerMoves, Wiring

-----------------------------------------------------------------------------
(* Types, and what a process carries. *)

LEMMA ShapeInit == Init => Shape
<1> SUFFICES ASSUME Init PROVE Shape
  OBVIOUS
<1>1. method \in Method /\ Blank \in [Routine -> Body]
  <2>1. (CHOOSE m \in Method : TRUE) \in Method
    BY DEF Init
  <2> QED  BY <2>1 DEF Init, Blank, Body, State
<1>2. TypeOK
  BY <1>1, Instants, BoundsAssumption DEF Init, TypeOK
<1>3. Wiring
  BY DEF Init, Wiring
<1> QED  BY <1>2, <1>3 DEF Shape

(* What every step does: the owner's steps, and those of one process.      *)
LEMMA TypeStep == Shape /\ [Next]_vars => TypeOK' /\ LedgerMoves
<1> SUFFICES ASSUME TypeOK, Wiring, [Next]_vars PROVE TypeOK' /\ LedgerMoves
  BY DEF Shape
<1> DEFINE Fine == TypeOK' /\ LedgerMoves
(* A step that keeps what is stored.                                       *)
<1>1. ASSUME Carried', UNCHANGED <<method, ledger>>, clock' \in Time,
             watermark' \in Time \cup {None}, routines' \in [Routine -> Body],
             runs' \in [Invocation -> Nat], upsets' \in 0 .. MaxUpsets
      PROVE  Fine
  BY <1>1 DEF TypeOK, Carried, LedgerMoves, Place
(* A step that changes the ledger.                                         *)
<1>2. ASSUME Carried', LedgerMoves, UNCHANGED <<clock, method, watermark, routines, runs>>,
             upsets' \in 0 .. MaxUpsets
      PROVE  Fine
  BY <1>2, Stays DEF TypeOK, Carried, Place
<1>3. upsets < MaxUpsets /\ upsets' = upsets + 1 => upsets' \in 0 .. MaxUpsets
  BY BoundsAssumption DEF TypeOK
<1>4. Carried
  BY DEF TypeOK, Carried, Place
<1> HIDE DEF Fine
<1>5. ASSUME NEW p \in Process, TickLoad(p) PROVE Fine
  <2>1. Carried'
    BY <1>5 DEF TickLoad, Begin, Goto, TypeOK, Carried, Place
  <2> QED  BY <1>1, <1>5, <2>1 DEF TickLoad, store, TypeOK
<1>6. ASSUME NEW p \in Process,
             TickTruncate(p) \/ TickStamp(p) \/ TickList(p) \/ TickPlan(p)
      PROVE  Fine
  <2>1. TickPlan(p) => todo' \in [Process -> SUBSET Invocation]
    <3>1. UNION {Planned(p, r) : r \in Scheduled \cap Enabled(copy[p])} \in SUBSET Invocation
      BY DEF Planned, Newest, Eligible, Resolved, Invocation
    <3> QED  BY <3>1 DEF TickPlan, TypeOK
  <2>2. Carried'
    BY <1>6, <2>1 DEF TickTruncate, TickStamp, TickList, TickPlan, At, Goto, Reads, store,
                      TypeOK, Carried, Place
  <2> QED  BY <1>1, <1>6, <2>2 DEF TickTruncate, TickStamp, TickList, TickPlan, store, TypeOK
<1>7. ASSUME NEW p \in Process, NEW r \in Routine, RunNow(p, r) PROVE Fine
  <2>1. Wake(r, clock) \in Invocation
    BY DEF Wake, Invocation, Woken, TypeOK, Body
  <2>2. Carried'
    BY <1>7, <2>1 DEF RunNow, Begin, Goto, Reads, TypeOK, Carried, Place
  <2> QED  BY <1>1, <1>3, <1>7, <2>2 DEF RunNow, store, TypeOK
<1>8. ASSUME NEW p \in Process, NEW e \in Event, EventPass(p, e) PROVE Fine
  <2>1. \A r \in Routine : Wake(r, e) \in Invocation
    BY DEF Wake, Invocation, Woken, TypeOK, Body
  <2>2. {Wake(r, e) : r \in EventDriven \cap Enabled(routines)} \in SUBSET Invocation
    BY <2>1 DEF Routine
  <2>3. Carried'
    BY <1>8, <2>2 DEF EventPass, Begin, Goto, Reads, TypeOK, Carried, Place
  <2> QED  BY <1>1, <1>8, <2>3 DEF EventPass, store, TypeOK
<1>9. ASSUME NEW p \in Process, PassEnds(p) PROVE Fine
  BY <1>1, <1>9, LeaveKeeps DEF PassEnds, store, TypeOK
<1>10. ASSUME NEW p \in Process, NEW i \in todo[p], Pick(p, i) PROVE Fine
  <2>1. i \in Invocation
    BY DEF TypeOK
  <2>2. pc' \in [Process -> Place] /\ todo' \in [Process -> SUBSET Invocation]
        /\ cur' \in [Process -> Invocation \cup Routine \cup {None}]
    <3>1. CASE op[p] = "event" /\ ledger[i] # None
      <4>1. todo[p] \ {i} \in SUBSET Invocation
        BY DEF TypeOK
      <4> QED  BY <1>10, <3>1, <4>1 DEF Pick, TypeOK, Place
    <3>2. CASE ~(op[p] = "event" /\ ledger[i] # None)
      BY <1>10, <2>1, <3>2 DEF Pick, Goto, TypeOK, Place
    <3> QED  BY <3>1, <3>2
  <2>3. Carried'
    BY <1>10, <2>2 DEF Pick, TypeOK, Carried
  <2> QED  BY <1>1, <1>10, <2>3 DEF Pick, store, TypeOK
<1>11. ASSUME NEW p \in Process, Admit(p) PROVE Fine
  <2>1. Asked(p) \in Request
    BY <1>11, AskedIsRequest DEF Admit, Wiring
  <2>2. Carried'
    BY <1>4, <1>11, NextKeeps DEF Admit, AfterAdmission, Goto, Carried, Place
  <2> QED  BY <1>2, <1>11, <2>1, <2>2 DEF Admit, LedgerMoves, TypeOK
<1>12. ASSUME NEW p \in Process, AdmitRefused(p) PROVE Fine
  <2>1. Carried'
    BY <1>12, RejectKeeps, FailedKeeps DEF AdmitRefused
  <2> QED  BY <1>1, <1>12, <2>1 DEF AdmitRefused, store, TypeOK
<1>13. ASSUME NEW p \in Process, AdmitFails(p) PROVE Fine
  <2>1. Asked(p) \in Request
    BY <1>13, AskedIsRequest DEF AdmitFails, Wiring
  <2>2. Carried' /\ LedgerMoves
    BY <1>13, <2>1, FailedKeeps DEF AdmitFails, LedgerMoves
  <2> QED  BY <1>2, <1>3, <1>13, <2>2 DEF AdmitFails
<1>14. ASSUME NEW p \in Process, Execute(p) PROVE Fine
  <2>0. cur[p] \in Invocation
    BY <1>14 DEF Execute, Wiring
  <2>1. runs' \in [Invocation -> Nat]
    BY <1>14, <2>0 DEF Execute, TypeOK
  <2>2. Carried'
    BY <1>14 DEF Execute, Goto, TypeOK, Carried, Place
  <2> QED  BY <1>1, <1>14, <2>1, <2>2 DEF Execute, store, TypeOK
<1>15. ASSUME NEW p \in Process, NEW s \in Status, Return(p, s) PROVE Fine
  <2>1. Carried'
    BY <1>15 DEF Return, Goto, TypeOK, Carried, Place
  <2> QED  BY <1>1, <1>15, <2>1 DEF Return, store, TypeOK
<1>16. ASSUME NEW p \in Process, Record(p) PROVE Fine
  <2>1. cur[p] \in Invocation /\ got[p] \in Status /\ ledger[cur[p]] # None
    BY <1>16 DEF Record, Wiring
  <2>2. Carried'
    BY <1>4, <1>16, FailedKeeps DEF Record, Goto, Carried, Place
  <2> QED  BY <1>2, <1>16, <2>1, <2>2 DEF Record, LedgerMoves, Writes, TypeOK
<1>17. ASSUME NEW p \in Process, RecordFails(p) PROVE Fine
  <2>1. cur[p] \in Invocation /\ got[p] \in Status /\ ledger[cur[p]] # None
    BY <1>17 DEF RecordFails, Wiring
  <2>2. Carried' /\ LedgerMoves
    BY <1>17, <2>1, FailedKeeps DEF RecordFails, LedgerMoves, Writes
  <2> QED  BY <1>2, <1>3, <1>17, <2>2 DEF RecordFails
<1>18. ASSUME NEW p \in Process, Deliver(p) PROVE Fine
  <2>1. Again(p) \in Request
    BY <1>18, AgainIsRequest DEF Deliver, Wiring
  <2>2. Carried' /\ LedgerMoves
    BY <1>18, <2>1, NextKeeps, FailedKeeps, RejectKeeps DEF Deliver, LedgerMoves, Admitted
  <2> QED  BY <1>2, <1>18, <2>2 DEF Deliver, TypeOK
<1>19. ASSUME NEW p \in Process, MarkRead(p) PROVE Fine
  <2>1. routines[RoutineOf(cur[p])] \in Body
    BY <1>19, Bodies DEF MarkRead, Wiring, TypeOK
  <2>2. [routines[RoutineOf(cur[p])] EXCEPT !.state = "StaleProof"] \in Body
    BY <2>1 DEF Body, State
  <2>3. Carried'
    BY <1>4, <1>19, <2>2, NextKeeps, LeaveKeeps DEF MarkRead, Goto, Carried, Place
  <2> QED  BY <1>1, <1>19, <2>3 DEF MarkRead, store, TypeOK
<1>20. ASSUME NEW p \in Process, MarkPut(p) PROVE Fine
  <2>1. Carried' /\ routines' \in [Routine -> Body]
    BY <1>20, NextKeeps, Bodies DEF MarkPut, Wiring, TypeOK
  <2> QED  BY <1>1, <1>20, <2>1 DEF MarkPut, TypeOK
<1>21. ASSUME NEW p \in Process, NEW r \in Routine, EditRead(p, r) PROVE Fine
  <2>1. \A b \in Body : Enable(b) \cup Disable(b) \cup Reprove(b) \cup Delete(b) \subseteq Body
    BY Edits
  <2>2. routines[r] \in Body
    BY DEF TypeOK
  <2>3. Carried'
    BY <1>21, <2>1, <2>2 DEF EditRead, Goto, TypeOK, Carried, Place
  <2> QED  BY <1>1, <1>3, <1>21, <2>3 DEF EditRead, store, TypeOK
<1>22. ASSUME NEW p \in Process, EditPut(p) PROVE Fine
  <2>1. Carried' /\ routines' \in [Routine -> Body]
    BY <1>22, LeaveKeeps DEF EditPut, At, Wiring, TypeOK
  <2> QED  BY <1>1, <1>22, <2>1 DEF EditPut, TypeOK
<1>23. ASSUME NEW q \in Request, Supplied(q) PROVE Fine
  BY <1>2, <1>3, <1>4, <1>23 DEF Supplied, LedgerMoves, process, Carried
<1>24. ASSUME NEW p \in Process, Crash(p) PROVE Fine
  BY <1>1, <1>3, <1>24, LeaveKeeps DEF Crash, store, TypeOK
<1>25. ASSUME ClockMoves PROVE Fine
  <2>1. clock' \in Time /\ upsets' \in 0 .. MaxUpsets
    BY <1>3, <1>25, BoundsAssumption DEF ClockMoves, Time, TypeOK
  <2> QED  BY <1>1, <1>4, <1>25, <2>1 DEF ClockMoves, store, process, Carried, TypeOK
<1>26. ASSUME MethodMoves PROVE Fine
  <2>1. method' \in Method /\ upsets' \in 0 .. MaxUpsets
    BY <1>3, <1>26 DEF MethodMoves
  <2> QED  BY <1>26, <2>1 DEF MethodMoves, store, process, TypeOK, LedgerMoves, Fine
<1>27. ASSUME UNCHANGED vars PROVE Fine
  BY <1>27 DEF vars, store, process, TypeOK, LedgerMoves, Fine
<1>28. ASSUME NEW i \in Occurrence, NEW o \in Occurrence,
              NEW ds \in {{}} \cup {{Gate(q)} : q \in Occurrence}
       PROVE  [inv |-> i, obs |-> o, proof |-> method, at |-> clock, deliveries |-> ds]
                  \in Request
  BY DEF Request, Invocation, Delivery, Gate, TypeOK
<1>29. ASSUME NEW p \in Process, Step(p) PROVE Fine
  BY <1>6, <1>9, <1>10, <1>11, <1>12, <1>14, <1>15, <1>16, <1>18, <1>19, <1>20, <1>22, <1>29
  DEF Step
<1>30. ASSUME NEW p \in Process, Begins(p) \/ Faulty(p) PROVE Fine
  BY <1>5, <1>7, <1>8, <1>13, <1>17, <1>21, <1>24, <1>30 DEF Begins, Faulty
<1>31. Fine
  BY <1>23, <1>25, <1>26, <1>27, <1>28, <1>29, <1>30 DEF Next
<1> QED  BY <1>31 DEF Fine

-----------------------------------------------------------------------------
(* What one step can do to a process. *)

Inside == {"run", "executing", "record", "deliver"}

(* Where it goes outside a run, and what it then carries.                  *)
Outside(p) ==
    /\ pc'[p] \notin Inside
    /\ pc'[p] \in {"admit", "stale", "mark"} => cur'[p] \in Invocation
    /\ pc'[p] = "mark" => got'[p] \in Body
    /\ pc'[p] = "put" => cur'[p] \in Routine /\ got'[p] \in Body
    /\ runs' = runs

(* From one place inside a run to the next.                                *)
Enters(p) ==
    /\ pc[p] = "admit" /\ pc' = [pc EXCEPT ![p] = "run"]
    /\ Authorised(Held(p)) /\ ledger[cur[p]] = None /\ Admitted(Asked(p))
    /\ UNCHANGED <<copy, cur, got, runs>>
Records(p) ==
    /\ pc[p] = "record" /\ pc' = [pc EXCEPT ![p] = "deliver"]
    /\ Writes(cur[p], got[p])
    /\ UNCHANGED <<copy, cur, got, runs>>
Inward(p) == Enters(p) \/ Execute(p) \/ (\E s \in Status : Return(p, s)) \/ Records(p)

Apart(p) ==
    \A q \in Process \ {p} : /\ pc'[q] = pc[q] /\ copy'[q] = copy[q]
                             /\ cur'[q] = cur[q] /\ got'[q] = got[q]

ProcessMoves ==
    \/ UNCHANGED <<pc, copy, cur, got, runs>>
    \/ \E p \in Process : Apart(p) /\ (Outside(p) \/ Inward(p))

LEMMA LeaveMoves ==
  ASSUME TypeOK, NEW p \in Process, Leave(p), runs' = runs PROVE Apart(p) /\ Outside(p)
  BY DEF TypeOK, Leave, Goto, Apart, Outside, Inside

LEMMA NextMoves ==
  ASSUME TypeOK, NEW p \in Process, NextItem(p), runs' = runs PROVE Apart(p) /\ Outside(p)
  BY DEF TypeOK, NextItem, Goto, Apart, Outside, Inside

LEMMA FailedMoves ==
  ASSUME TypeOK, NEW p \in Process, Failed(p), runs' = runs PROVE Apart(p) /\ Outside(p)
  BY LeaveMoves, NextMoves DEF Failed

LEMMA RejectMoves ==
  ASSUME TypeOK, NEW p \in Process, NEW b, Reject(p, b), runs' = runs, cur[p] \in Invocation
  PROVE  Apart(p) /\ Outside(p)
<1>1. CASE op[p] = "tick" /\ Stale(b)
  BY <1>1 DEF TypeOK, Reject, Goto, Apart, Outside, Inside
<1>2. CASE ~(op[p] = "tick" /\ Stale(b))
  BY <1>2, FailedMoves DEF Reject
<1> QED  BY <1>1, <1>2

LEMMA MovesStep == Shape /\ [Next]_vars => ProcessMoves
<1> SUFFICES ASSUME TypeOK, Wiring, [Next]_vars PROVE ProcessMoves
  BY DEF Shape
<1>1. ASSUME NEW p \in Process, Apart(p) /\ (Outside(p) \/ Inward(p)) PROVE ProcessMoves
  BY <1>1 DEF ProcessMoves
<1>2. ASSUME UNCHANGED <<pc, copy, cur, got, runs>> PROVE ProcessMoves
  BY <1>2 DEF ProcessMoves
<1>3. ASSUME NEW p \in Process, Begins(p) PROVE ProcessMoves
  <2>1. ASSUME TickLoad(p) PROVE Apart(p) /\ Outside(p)
    BY <2>1 DEF TickLoad, Begin, Goto, TypeOK, Apart, Outside, Inside
  <2>2. ASSUME NEW r \in Routine, RunNow(p, r) PROVE Apart(p) /\ Outside(p)
    BY <2>2 DEF RunNow, Begin, Goto, Reads, TypeOK, Apart, Outside, Inside
  <2>3. ASSUME NEW e \in Event, EventPass(p, e) PROVE Apart(p) /\ Outside(p)
    BY <2>3 DEF EventPass, Begin, Goto, Reads, TypeOK, Apart, Outside, Inside
  <2>4. ASSUME NEW r \in Routine, EditRead(p, r) PROVE Apart(p) /\ Outside(p)
    <3>1. \A b \in Body : Enable(b) \cup Disable(b) \cup Reprove(b) \cup Delete(b) \subseteq Body
      BY Edits
    <3>2. routines[r] \in Body
      BY DEF TypeOK
    <3> QED  BY <2>4, <3>1, <3>2 DEF EditRead, Goto, TypeOK, Apart, Outside, Inside
  <2> QED  BY <1>1, <1>3, <2>1, <2>2, <2>3, <2>4 DEF Begins
<1>4. ASSUME NEW p \in Process, Faulty(p) PROVE ProcessMoves
  BY <1>1, <1>4, FailedMoves, LeaveMoves DEF Faulty, AdmitFails, RecordFails, Crash
<1>5. ASSUME NEW p \in Process,
             TickTruncate(p) \/ TickStamp(p) \/ TickList(p) \/ TickPlan(p) \/ PassEnds(p)
      PROVE  ProcessMoves
  <2>1. CASE PassEnds(p)
    BY <1>1, <2>1, LeaveMoves DEF PassEnds
  <2>2. ASSUME TickTruncate(p) \/ TickStamp(p) \/ TickList(p) \/ TickPlan(p)
        PROVE  Apart(p) /\ Outside(p)
    BY <2>2 DEF TickTruncate, TickStamp, TickList, TickPlan, At, Goto, Reads, TypeOK,
                Apart, Outside, Inside
  <2> QED  BY <1>1, <1>5, <2>1, <2>2
<1>6. ASSUME NEW p \in Process, NEW i \in todo[p], Pick(p, i) PROVE ProcessMoves
  <2>1. i \in Invocation
    BY DEF TypeOK
  <2>2. Apart(p) /\ Outside(p)
    <3>1. CASE op[p] = "event" /\ ledger[i] # None
      BY <1>6, <3>1 DEF Pick, TypeOK, Apart, Outside, Inside
    <3>2. CASE ~(op[p] = "event" /\ ledger[i] # None)
      BY <1>6, <2>1, <3>2 DEF Pick, Goto, TypeOK, Apart, Outside, Inside
    <3> QED  BY <3>1, <3>2
  <2> QED  BY <1>1, <2>2
<1>7. ASSUME NEW p \in Process, Admit(p) PROVE ProcessMoves
  <2>1. CASE ledger[cur[p]] = None
    <3>1. Apart(p) /\ Enters(p)
      BY <1>7, <2>1 DEF Admit, AfterAdmission, Goto, TypeOK, Apart, Enters
    <3> QED  BY <1>1, <3>1 DEF Inward
  <2>2. CASE ledger[cur[p]] # None
    BY <1>1, <1>7, <2>2, NextMoves DEF Admit, AfterAdmission
  <2> QED  BY <2>1, <2>2
<1>8. ASSUME NEW p \in Process, AdmitRefused(p) \/ Deliver(p) PROVE ProcessMoves
  <2>1. cur[p] \in Invocation /\ runs' = runs
    BY <1>8 DEF AdmitRefused, Deliver, Wiring
  <2> QED  BY <1>1, <1>8, <2>1, FailedMoves, RejectMoves, NextMoves DEF AdmitRefused, Deliver
<1>9. ASSUME NEW p \in Process, Execute(p) \/ \E s \in Status : Return(p, s)
      PROVE  ProcessMoves
  <2>1. Apart(p)
    BY <1>9 DEF Execute, Return, Goto, TypeOK, Apart
  <2> QED  BY <1>1, <1>9, <2>1 DEF Inward
<1>10. ASSUME NEW p \in Process, Record(p) PROVE ProcessMoves
  <2>1. CASE Failed(p)
    BY <1>1, <1>10, <2>1, FailedMoves DEF Record
  <2>2. CASE ~Failed(p)
    <3>1. Apart(p) /\ Records(p)
      BY <1>10, <2>2 DEF Record, Goto, TypeOK, Apart, Records, Writes, Wiring
    <3> QED  BY <1>1, <3>1 DEF Inward
  <2> QED  BY <2>1, <2>2
<1>11. ASSUME NEW p \in Process, MarkRead(p) PROVE ProcessMoves
  <2>1. cur[p] \in Invocation /\ routines[RoutineOf(cur[p])] \in Body
    BY <1>11, Bodies DEF MarkRead, Wiring, TypeOK
  <2>2. [routines[RoutineOf(cur[p])] EXCEPT !.state = "StaleProof"] \in Body
    BY <2>1 DEF Body, State
  <2>3. runs' = runs
    BY <1>11 DEF MarkRead
  <2>4. CASE Leave(p) \/ NextItem(p)
    BY <1>1, <2>3, <2>4, LeaveMoves, NextMoves
  <2>5. CASE ~(Leave(p) \/ NextItem(p))
    <3>1. Apart(p) /\ Outside(p)
      BY <1>11, <2>1, <2>2, <2>5 DEF MarkRead, Goto, TypeOK, Apart, Outside, Inside
    <3> QED  BY <1>1, <3>1
  <2> QED  BY <2>4, <2>5
<1>12. ASSUME NEW p \in Process, MarkPut(p) \/ EditPut(p) PROVE ProcessMoves
  BY <1>1, <1>12, NextMoves, LeaveMoves DEF MarkPut, EditPut
<1>13. ASSUME NEW q, Supplied(q) PROVE ProcessMoves
  BY <1>2, <1>13 DEF Supplied, process
<1>14. CASE ClockMoves \/ MethodMoves \/ UNCHANGED vars
  BY <1>2, <1>14 DEF ClockMoves, MethodMoves, vars, process
<1>15. ASSUME NEW p \in Process, Step(p) PROVE ProcessMoves
  BY <1>1, <1>5, <1>6, <1>7, <1>8, <1>9, <1>10, <1>11, <1>12, <1>15 DEF Step
<1> QED  BY <1>3, <1>4, <1>13, <1>14, <1>15 DEF Next

-----------------------------------------------------------------------------
(* The invariants. *)

LEMMA WiringStep == Shape /\ [Next]_vars => Wiring'
<1> SUFFICES ASSUME Shape, TypeOK, Wiring, [Next]_vars PROVE Wiring'
  BY DEF Shape
<1>1. \A i \in Invocation : ledger[i] # None => ledger'[i] # None
  BY TypeStep, Stays
<1>2. ProcessMoves
  BY MovesStep
<1> DEFINE W(p) ==
        /\ pc[p] \in {"admit", "run", "executing", "record", "deliver", "stale", "mark"} =>
               cur[p] \in Invocation
        /\ pc[p] \in {"record", "deliver"} => got[p] \in Status
        /\ pc[p] = "mark" => got[p] \in Body
        /\ pc[p] = "put" => cur[p] \in Routine /\ got[p] \in Body
        /\ pc[p] \in {"run", "executing", "record", "deliver"} => ledger[cur[p]] # None
<1>3. \A p \in Process : W(p)
  BY DEF Wiring
(* A process that stays where it is.                                       *)
<1>4. ASSUME NEW q \in Process, pc'[q] = pc[q], cur'[q] = cur[q], got'[q] = got[q]
      PROVE  W(q)'
  BY <1>1, <1>3, <1>4
<1>5. CASE UNCHANGED <<pc, copy, cur, got, runs>>
  BY <1>4, <1>5 DEF Wiring
<1>6. ASSUME NEW p \in Process, Apart(p), Outside(p) PROVE Wiring'
  <2>1. W(p)'
    BY <1>6 DEF Outside, Inside
  <2>2. \A q \in Process \ {p} : W(q)'
    BY <1>4, <1>6 DEF Apart
  <2> QED  BY <2>1, <2>2 DEF Wiring
<1>7. ASSUME NEW p \in Process, Apart(p), Inward(p) PROVE Wiring'
  <2>1. ASSUME Enters(p) PROVE W(p)'
    <3>1. cur[p] \in Invocation /\ cur' = cur /\ pc'[p] = "run"
      BY <1>3, <2>1 DEF Enters, TypeOK
    <3>2. Asked(p) \in Request /\ Asked(p).inv = cur[p]
      BY <3>1, AskedIsRequest DEF Asked
    <3>3. ledger'[cur[p]] # None
      BY <2>1, <3>2, AdmittedTypes DEF Enters
    <3> QED  BY <3>1, <3>3
  <2>2. ASSUME Execute(p) PROVE W(p)'
    BY <1>3, <2>2 DEF Execute, Goto, store, TypeOK
  <2>3. ASSUME NEW s \in Status, Return(p, s) PROVE W(p)'
    BY <1>3, <2>3 DEF Return, Goto, store, TypeOK
  <2>4. ASSUME Records(p) PROVE W(p)'
    <3>1. /\ pc'[p] = "deliver" /\ cur' = cur /\ got' = got
          /\ cur[p] \in Invocation /\ got[p] \in Status /\ ledger[cur[p]] # None
      BY <1>3, <2>4 DEF Records, TypeOK
    <3> QED  BY <1>1, <3>1
  <2>5. W(p)'
    BY <1>7, <2>1, <2>2, <2>3, <2>4 DEF Inward
  <2>6. \A q \in Process \ {p} : W(q)'
    BY <1>4, <1>7 DEF Apart
  <2> QED  BY <2>5, <2>6 DEF Wiring
<1> QED  BY <1>2, <1>5, <1>6, <1>7 DEF ProcessMoves

LEMMA ShapeStep == Shape /\ [Next]_vars => Shape'
  BY TypeStep, WiringStep DEF Shape

(* Every variable keeps its type, the watermark, the times of passes and   *)
(* the instants of admissions included.                                    *)
THEOREM Typing == Spec => []TypeOK
<1>1. Shape => TypeOK
  BY DEF Shape
<1> QED  BY <1>1, ShapeInit, ShapeStep, PTL DEF Spec

-----------------------------------------------------------------------------
(* The ledger's entries. *)

(* What an entry keeps from one state to the next.                         *)
Stands(e, f) ==
    /\ f # None
    /\ \A x \in {"obs", "proof", "at"} : f[x] = e[x]
    /\ e.deliveries \subseteq f.deliveries
    /\ e.outcome \in {None, f.outcome}

LEMMA EntryStep ==
  ASSUME Shape, LedgerMoves, NEW i \in Invocation, ledger[i] # None
  PROVE  Stands(ledger[i], ledger'[i])
<1>0. ledger[i] \in Entry /\ TypeOK /\ Wiring
  BY DEF Shape, TypeOK
<1>1. ASSUME ledger'[i] = ledger[i] PROVE Stands(ledger[i], ledger'[i])
  BY <1>1 DEF Stands
<1>2. CASE ledger' = ledger
  BY <1>1, <1>2
<1>3. ASSUME NEW q \in Request, Admitted(q) PROVE Stands(ledger[i], ledger'[i])
  <2>1. CASE i # q.inv
    BY <1>0, <1>1, <1>3, <2>1 DEF Admitted, MergeEntry, TypeOK
  <2>2. CASE i = q.inv
    <3> DEFINE e == ledger[i]
               f == [e EXCEPT !.deliveries = e.deliveries \cup q.deliveries]
    <3>1. ledger'[i] = f
      BY <1>0, <1>3, <2>2 DEF Admitted, MergeEntry, TypeOK
    <3>2. f # None
      BY <1>0, <1>3, <2>2, <3>1, AdmittedTypes
    <3>3. /\ f.obs = e.obs /\ f.proof = e.proof /\ f.at = e.at
          /\ f.deliveries = e.deliveries \cup q.deliveries /\ f.outcome = e.outcome
      BY <1>0 DEF Entry
    <3> HIDE DEF e, f
    <3>4. Stands(e, f)
      BY <3>2, <3>3 DEF Stands
    <3> QED  BY <3>1, <3>4 DEF e
  <2> QED  BY <2>1, <2>2
<1>4. ASSUME NEW p \in Process, pc[p] = "record", Writes(cur[p], got[p])
      PROVE  Stands(ledger[i], ledger'[i])
  <2>0. cur[p] \in Invocation /\ got[p] \in Status
    BY <1>0, <1>4 DEF Wiring
  <2>1. CASE i # cur[p]
    BY <1>0, <1>1, <1>4, <2>1 DEF Writes, WriteOutcome, TypeOK
  <2>2. CASE i = cur[p]
    <3> DEFINE e == ledger[i]
               f == [e EXCEPT !.outcome = got[p]]
    <3>1. ledger'[i] = f /\ e.outcome \in {None, got[p]}
      BY <1>0, <1>4, <2>2 DEF Writes, WriteOutcome, TypeOK
    <3>2. f # None
      BY <1>0, <1>4, <2>0, <2>2, <3>1, WritesTypes
    <3>3. /\ f.obs = e.obs /\ f.proof = e.proof /\ f.at = e.at
          /\ f.deliveries = e.deliveries /\ f.outcome = got[p]
      BY <1>0 DEF Entry
    <3> HIDE DEF e, f
    <3>4. Stands(e, f)
      BY <3>1, <3>2, <3>3 DEF Stands
    <3> QED  BY <3>1, <3>4 DEF e
  <2> QED  BY <2>1, <2>2
<1> QED  BY <1>2, <1>3, <1>4 DEF LedgerMoves

(* An entry is never taken back: admissions merge deliveries into it, and  *)
(* a return is written where there is none.                                *)
THEOREM EntriesAlwaysStand == Spec => EntriesStand
<1>1. Shape /\ [Next]_vars =>
        [\A i \in Invocation : ledger[i] # None =>
            /\ ledger'[i] # None
            /\ \A f \in {"obs", "proof", "at"} : ledger'[i][f] = ledger[i][f]
            /\ ledger[i].deliveries \subseteq ledger'[i].deliveries
            /\ ledger[i].outcome \in {None, ledger'[i].outcome}]_vars
  BY TypeStep, EntryStep DEF Stands
<1> QED  BY <1>1, ShapeInit, ShapeStep, PTL DEF Spec, EntriesStand

-----------------------------------------------------------------------------
(* The ledger loads. *)

(* An observation and a delivery are bound to one invocation: an admission *)
(* that would bind them twice is refused in the transaction that looks.    *)
THEOREM LedgerAlwaysLoads == Spec => []LedgerLoads
<1> DEFINE Bound(i, j, l) == l[i] # None /\ l[j] # None =>
                l[i].obs # l[j].obs /\ l[i].deliveries \cap l[j].deliveries = {}
<1>1. Init => LedgerLoads
  BY DEF Init, LedgerLoads
<1>2. ASSUME Shape, LedgerLoads, [Next]_vars PROVE LedgerLoads'
  <2>0. TypeOK /\ Wiring /\ LedgerMoves
    BY <1>2, TypeStep DEF Shape
  <2>1. \A i, j \in Invocation : i # j => Bound(i, j, ledger)
    BY <1>2 DEF LedgerLoads
  <2>2. CASE ledger' = ledger
    BY <2>1, <2>2 DEF LedgerLoads
  <2>3. ASSUME NEW q \in Request, Admitted(q),
               NEW i \in Invocation, NEW j \in Invocation, i # j
        PROVE  Bound(i, j, ledger')
    <3>0. q.inv \in Invocation /\ ~BoundElsewhere(q)
      BY <2>3 DEF Request, Admitted, Refused
    <3>1. \A k \in Invocation \ {q.inv} : ledger'[k] = ledger[k]
      BY <2>0, <2>3 DEF Admitted, MergeEntry, TypeOK
    <3>2. CASE ledger[q.inv] = None
      <4>1. ledger' = [ledger EXCEPT ![q.inv] = NewEntry(q)]
        BY <2>3, <3>2 DEF Admitted, MergeEntry
      <4>2. ledger'[q.inv].obs = q.obs /\ ledger'[q.inv].deliveries = q.deliveries
        BY <2>0, <3>0, <4>1 DEF NewEntry, TypeOK
      <4> QED  BY <2>1, <2>3, <3>0, <3>1, <4>2 DEF BoundElsewhere
    <3>3. CASE ledger[q.inv] # None
      <4> DEFINE e == ledger[q.inv]
                 f == [e EXCEPT !.deliveries = e.deliveries \cup q.deliveries]
      <4>1. ledger'[q.inv] = f
        BY <2>0, <2>3, <3>0, <3>3 DEF Admitted, MergeEntry, TypeOK
      <4>2. e \in Entry /\ f.obs = e.obs /\ f.deliveries = e.deliveries \cup q.deliveries
        BY <2>0, <3>0, <3>3 DEF TypeOK, Entry
      <4> HIDE DEF f
      <4> QED  BY <2>1, <2>3, <3>0, <3>1, <3>3, <4>1, <4>2 DEF BoundElsewhere
    <3> QED  BY <3>2, <3>3
  <2>4. ASSUME NEW k \in Invocation, NEW s \in Status, Writes(k, s),
               NEW i \in Invocation, NEW j \in Invocation, i # j
        PROVE  Bound(i, j, ledger')
    <3>1. \A m \in Invocation \ {k} : ledger'[m] = ledger[m]
      BY <2>0, <2>4 DEF Writes, WriteOutcome, TypeOK
    <3>2. ledger'[k].obs = ledger[k].obs /\ ledger'[k].deliveries = ledger[k].deliveries
      BY <2>0, <2>4 DEF Writes, WriteOutcome, TypeOK, Entry
    <3>3. ledger[k] # None
      BY <2>4 DEF Writes
    <3> QED  BY <2>1, <2>4, <3>1, <3>2, <3>3
  <2>5. \A i, j \in Invocation : i # j => Bound(i, j, ledger')
    BY <2>0, <2>1, <2>2, <2>3, <2>4 DEF LedgerMoves, Wiring
  <2> QED  BY <2>5 DEF LedgerLoads
<1> QED  BY <1>1, <1>2, ShapeInit, ShapeStep, PTL DEF Spec

-----------------------------------------------------------------------------
(* What runs. *)

(* What a pass carries into a run is what it listed, and the ledger keeps  *)
(* the proof it was admitted with.                                         *)
THEOREM AlwaysRunsWhatWasProven == Spec => []RunsWhatWasProven
<1> DEFINE P(p) == pc[p] \in {"run", "executing"} =>
                      /\ Held(p).state = "Enabled"
                      /\ ledger[cur[p]] # None /\ ledger[cur[p]].proof = Held(p).proof
<1>1. Init => RunsWhatWasProven
  BY DEF Init, RunsWhatWasProven
<1>2. ASSUME Shape, RunsWhatWasProven, [Next]_vars PROVE RunsWhatWasProven'
  <2>0. TypeOK /\ Wiring /\ LedgerMoves /\ ProcessMoves
    BY <1>2, TypeStep, MovesStep DEF Shape
  <2>1. \A p \in Process : P(p)
    BY <1>2 DEF RunsWhatWasProven
  <2>2. \A i \in Invocation : ledger[i] # None =>
            ledger'[i] # None /\ ledger'[i].proof = ledger[i].proof
    BY <1>2, <2>0, EntryStep DEF Stands
  <2>3. ASSUME NEW p \in Process, pc'[p] \in {"run", "executing"} => pc[p] \in {"run", "executing"},
               copy'[p] = copy[p], cur'[p] = cur[p]
        PROVE  P(p)'
    <3>1. pc[p] \in {"run", "executing"} => cur[p] \in Invocation
      BY <2>0 DEF Wiring
    <3> QED  BY <2>1, <2>2, <2>3, <3>1 DEF Held
  <2>4. ASSUME NEW p \in Process, Outside(p) PROVE P(p)'
    BY <2>4 DEF Outside, Inside
  <2>5. ASSUME NEW p \in Process, Enters(p) PROVE P(p)'
    <3>1. /\ cur[p] \in Invocation /\ cur' = cur /\ copy' = copy
          /\ Held(p).state = "Enabled" /\ ledger[cur[p]] = None
      BY <2>0, <2>5 DEF Enters, Authorised, Wiring
    <3>2. Asked(p).inv = cur[p] /\ Asked(p).proof = Held(p).proof /\ Asked(p) \in Request
      BY <2>0, <3>1, AskedIsRequest DEF Asked
    <3>3. ledger' = [ledger EXCEPT ![cur[p]] = NewEntry(Asked(p))]
      BY <2>5, <3>1, <3>2 DEF Enters, Admitted, MergeEntry
    <3>4. ledger'[cur[p]] # None
      BY <2>0, <2>5, <3>2, AdmittedTypes DEF Enters
    <3>5. ledger'[cur[p]].proof = Held(p).proof
      BY <2>0, <3>1, <3>2, <3>3 DEF NewEntry, TypeOK
    <3>6. Held(p)' = Held(p)
      BY <3>1 DEF Held
    <3> QED  BY <3>1, <3>4, <3>5, <3>6
  <2>6. ASSUME NEW p \in Process, Inward(p) PROVE P(p)'
    <3>1. CASE Execute(p)
      BY <2>3, <2>6, <3>1 DEF Execute
    <3>2. CASE Records(p)
      BY <2>0, <3>2 DEF Records, TypeOK
    <3>3. CASE \E s \in Status : Return(p, s)
      BY <2>0, <3>3 DEF Return, Goto, TypeOK
    <3> QED  BY <2>5, <2>6, <3>1, <3>2, <3>3 DEF Inward
  <2>7. ASSUME NEW p \in Process, Apart(p), Outside(p) \/ Inward(p) PROVE \A q \in Process : P(q)'
    <3>1. \A q \in Process \ {p} : P(q)'
      BY <2>3, <2>7 DEF Apart
    <3> QED  BY <2>4, <2>6, <2>7, <3>1
  <2>8. UNCHANGED <<pc, copy, cur, got, runs>> => \A q \in Process : P(q)'
    BY <2>3
  <2>9. \A q \in Process : P(q)'
    BY <2>0, <2>7, <2>8 DEF ProcessMoves
  <2> QED  BY <2>9 DEF RunsWhatWasProven
<1> QED  BY <1>1, <1>2, ShapeInit, ShapeStep, PTL DEF Spec

-----------------------------------------------------------------------------
(* How often something runs. *)

(* An invocation has not run before the pass that created its entry runs   *)
(* it, and that pass is the only one at that point.                        *)
Once ==
    /\ \A i \in Invocation : runs[i] \in 0 .. 1 /\ (ledger[i] = None => runs[i] = 0)
    /\ \A p \in Process :
          /\ pc[p] = "run" => runs[cur[p]] = 0
          /\ pc[p] \in {"executing", "record"} => runs[cur[p]] = 1
    /\ \A p, q \in Process : p # q /\ pc[p] = "run" /\ pc[q] = "run" => cur[p] # cur[q]

Guarded == Shape /\ Once

(* Only an execution counts as one.                                        *)
LEMMA RunsMoves ==
  ASSUME TypeOK, ProcessMoves
  PROVE  runs' = runs \/ \E p \in Process : Execute(p)
  BY DEF ProcessMoves, Outside, Inward, Enters, Records, Return

LEMMA OnceStep == Guarded /\ [Next]_vars => Once'
<1> SUFFICES ASSUME Shape, Once, [Next]_vars PROVE Once'
  BY DEF Guarded
<1>0. TypeOK /\ Wiring /\ LedgerMoves /\ ProcessMoves
  BY TypeStep, MovesStep DEF Shape
<1>1. \A i \in Invocation : ledger[i] # None => ledger'[i] # None
  BY <1>0, Stays
<1> DEFINE C(i) == runs[i] \in 0 .. 1 /\ (ledger[i] = None => runs[i] = 0)
           P(p) == /\ pc[p] = "run" => runs[cur[p]] = 0
                   /\ pc[p] \in {"executing", "record"} => runs[cur[p]] = 1
           Q(p, q) == pc[p] = "run" /\ pc[q] = "run" => cur[p] # cur[q]
<1>2. /\ \A i \in Invocation : C(i)
      /\ \A p \in Process : P(p)
      /\ \A p, q \in Process : p # q => Q(p, q)
  BY DEF Once
<1>3. ASSUME runs' = runs PROVE \A i \in Invocation : C(i)'
  BY <1>1, <1>2, <1>3
<1>4. CASE UNCHANGED <<pc, copy, cur, got, runs>>
  BY <1>2, <1>3, <1>4 DEF Once
(* A process that goes nowhere near a run.                                 *)
<1>5. ASSUME NEW p \in Process, Apart(p), runs' = runs, pc'[p] \notin {"run", "executing", "record"}
      PROVE  Once'
  <2>1. \A q \in Process : P(q)'
    BY <1>2, <1>5 DEF Apart
  <2>2. \A q, r \in Process : q # r => Q(q, r)'
    BY <1>2, <1>5 DEF Apart
  <2> QED  BY <1>3, <1>5, <2>1, <2>2 DEF Once
<1>6. ASSUME NEW p \in Process, Apart(p), Enters(p) PROVE Once'
  <2>1. /\ cur[p] \in Invocation /\ ledger[cur[p]] = None
        /\ pc' = [pc EXCEPT ![p] = "run"] /\ cur' = cur /\ runs' = runs
    BY <1>0, <1>6 DEF Enters, Wiring
  <2>2. runs[cur[p]] = 0
    BY <1>2, <2>1
  <2>3. \A q \in Process : pc[q] = "run" => cur[q] # cur[p]
    BY <1>0, <2>1 DEF Wiring
  <2>4. \A q \in Process : P(q)'
    BY <1>0, <1>2, <2>1, <2>2 DEF TypeOK
  <2>5. \A q, r \in Process : q # r => Q(q, r)'
    BY <1>0, <1>2, <2>1, <2>3 DEF TypeOK
  <2> QED  BY <1>3, <2>1, <2>4, <2>5 DEF Once
<1>7. ASSUME NEW p \in Process, Apart(p), Execute(p) PROVE Once'
  <2>1. /\ cur[p] \in Invocation /\ ledger[cur[p]] # None /\ runs[cur[p]] = 0
        /\ pc[p] = "run" /\ pc' = [pc EXCEPT ![p] = "executing"] /\ cur' = cur
        /\ runs' = [runs EXCEPT ![cur[p]] = runs[cur[p]] + 1] /\ ledger' = ledger
    BY <1>0, <1>2, <1>7 DEF Execute, Goto, store, Wiring
  <2>2. runs' = [runs EXCEPT ![cur[p]] = 1]
    BY <2>1
  <2>3. \A i \in Invocation : C(i)'
    BY <1>0, <1>2, <2>1, <2>2 DEF TypeOK
  <2>4. \A q \in Process \ {p} :
          /\ pc[q] = "run" => cur[q] # cur[p]
          /\ pc[q] \in {"executing", "record"} => cur[q] # cur[p]
          /\ pc[q] \in {"run", "executing", "record"} => cur[q] \in Invocation
    BY <1>0, <1>2, <2>1 DEF Wiring
  <2>5. \A q \in Process : P(q)'
    <3>1. P(p)'
      BY <1>0, <2>1, <2>2 DEF TypeOK
    <3>2. ASSUME NEW q \in Process \ {p} PROVE P(q)'
      <4>1. pc'[q] = pc[q] /\ cur'[q] = cur[q]
        BY <1>7 DEF Apart
      <4>2. \A i \in Invocation \ {cur[p]} : runs'[i] = runs[i]
        BY <1>0, <2>2 DEF TypeOK
      <4> QED  BY <1>2, <2>4, <4>1, <4>2
    <3> QED  BY <3>1, <3>2
  <2>6. \A q, r \in Process : q # r => Q(q, r)'
    BY <1>0, <1>2, <2>1 DEF TypeOK
  <2> QED  BY <2>3, <2>5, <2>6 DEF Once
<1>8. ASSUME NEW p \in Process, Apart(p), NEW s \in Status, Return(p, s) PROVE Once'
  <2>1. /\ pc[p] = "executing" /\ pc' = [pc EXCEPT ![p] = "record"]
        /\ cur' = cur /\ runs' = runs
    BY <1>8 DEF Return, Goto
  <2>2. \A q \in Process : P(q)'
    BY <1>0, <1>2, <2>1 DEF TypeOK
  <2>3. \A q, r \in Process : q # r => Q(q, r)'
    BY <1>0, <1>2, <2>1 DEF TypeOK
  <2> QED  BY <1>3, <2>1, <2>2, <2>3 DEF Once
<1>9. ASSUME NEW p \in Process, Apart(p), Outside(p) PROVE Once'
  BY <1>5, <1>9 DEF Outside, Inside
<1>10. ASSUME NEW p \in Process, Apart(p), Records(p) PROVE Once'
  <2>1. pc'[p] = "deliver" /\ runs' = runs
    BY <1>0, <1>10 DEF Records, TypeOK
  <2> QED  BY <1>5, <1>10, <2>1
<1> QED  BY <1>0, <1>4, <1>6, <1>7, <1>8, <1>9, <1>10 DEF ProcessMoves, Inward

LEMMA Guards == Spec => []Guarded
<1>1. Init => Guarded
  <2>1. Init => Once
    BY DEF Init, Once
  <2> QED  BY <2>1, ShapeInit DEF Guarded
<1>2. Guarded /\ [Next]_vars => Guarded'
  BY ShapeStep, OnceStep DEF Guarded
<1> QED  BY <1>1, <1>2, PTL DEF Spec

(* No invocation is executed twice.                                        *)
THEOREM AlwaysRunsAtMostOnce == Spec => []RunsAtMostOnce
<1>1. Guarded => RunsAtMostOnce
  BY DEF Guarded, Once, RunsAtMostOnce
<1> QED  BY <1>1, Guards, PTL

(* The dispatcher implements the abstract ledger: an admission of a new    *)
(* invocation, an execution and the first record of a return are its       *)
(* steps, and everything else leaves it as it is.                          *)
THEOREM ImplementsLedger == Spec => LedgerSpec
<1> DEFINE admitted == {i \in Invocation : ledger[i] # None}
           returned == [i \in Invocation |-> IF ledger[i] = None THEN None
                                             ELSE ledger[i].outcome]
<1>1. Init => Ledger!Init
  BY DEF Init, Ledger!Init
<1>2. ASSUME Guarded, [Next]_vars PROVE [Ledger!Next]_(Ledger!vars)
  <2>0. TypeOK /\ Wiring /\ LedgerMoves /\ ProcessMoves
    BY <1>2, TypeStep, MovesStep DEF Guarded, Shape
  <2>1. ASSUME NEW p \in Process, Execute(p) PROVE Ledger!Run(cur[p])
    <3>1. /\ cur[p] \in Invocation /\ ledger[cur[p]] # None /\ runs[cur[p]] = 0
          /\ runs' = [runs EXCEPT ![cur[p]] = runs[cur[p]] + 1] /\ ledger' = ledger
      BY <1>2, <2>0, <2>1 DEF Execute, store, Wiring, Guarded, Once
    <3>2. runs' = [runs EXCEPT ![cur[p]] = 1]
      BY <3>1
    <3> QED  BY <3>1, <3>2 DEF Ledger!Run
  <2>2. ASSUME runs' = runs, NEW q \in Request, Admitted(q), ledger[q.inv] = None
        PROVE  Ledger!Admit(q.inv)
    <3>1. q.inv \in Invocation /\ ledger' = [ledger EXCEPT ![q.inv] = NewEntry(q)]
      BY <2>2 DEF Request, Admitted, MergeEntry
    <3>2. ledger'[q.inv] # None
      BY <2>0, <2>2, AdmittedTypes
    <3>3. \A i \in Invocation \ {q.inv} : ledger'[i] = ledger[i]
      BY <2>0, <3>1 DEF TypeOK
    <3>4. ledger'[q.inv].outcome = None
      BY <2>0, <3>1 DEF NewEntry, TypeOK
    <3>5. admitted' = admitted \cup {q.inv}
      BY <3>1, <3>2, <3>3
    <3>6. returned' = returned
      BY <2>2, <3>2, <3>3, <3>4
    <3> QED  BY <2>2, <3>5, <3>6 DEF Ledger!Admit
  <2>3. ASSUME runs' = runs,
               \A i \in Invocation : (ledger'[i] = None) = (ledger[i] = None),
               \A i \in Invocation : ledger[i] # None => ledger'[i].outcome = ledger[i].outcome
        PROVE  UNCHANGED Ledger!vars
    <3>1. admitted' = admitted /\ returned' = returned
      BY <2>3
    <3> QED  BY <2>3, <3>1 DEF Ledger!vars
  <2>4. ASSUME runs' = runs, NEW q \in Request, Admitted(q), ledger[q.inv] # None
        PROVE  UNCHANGED Ledger!vars
    <3> DEFINE e == ledger[q.inv]
               f == [e EXCEPT !.deliveries = e.deliveries \cup q.deliveries]
    <3>1. q.inv \in Invocation /\ ledger' = [ledger EXCEPT ![q.inv] = f]
      BY <2>4 DEF Request, Admitted, MergeEntry
    <3>2. e \in Entry /\ f.outcome = e.outcome
      BY <2>0, <2>4, <3>1 DEF TypeOK, Entry
    <3>3. ledger'[q.inv] # None
      BY <2>0, <2>4, AdmittedTypes
    <3>4. \A i \in Invocation \ {q.inv} : ledger'[i] = ledger[i]
      BY <2>0, <3>1 DEF TypeOK
    <3>5. ledger'[q.inv] = f
      BY <2>0, <3>1 DEF TypeOK
    <3> HIDE DEF f
    <3> QED  BY <2>3, <2>4, <3>1, <3>2, <3>3, <3>4, <3>5
  <2>5. ASSUME runs' = runs, NEW i \in Invocation, NEW s \in Status, Writes(i, s), runs[i] = 1
        PROVE  [Ledger!Next]_(Ledger!vars)
    <3>1. ledger[i] # None /\ ledger[i].outcome \in {None, s}
      BY <2>5 DEF Writes, WriteOutcome
    <3>2. \A j \in Invocation \ {i} : ledger'[j] = ledger[j]
      BY <2>0, <2>5 DEF Writes, WriteOutcome, TypeOK
    <3>3. ledger'[i] # None /\ ledger'[i].outcome = s
      <4>1. ledger'[i] # None
        BY <2>0, <2>5, WritesTypes
      <4>2. ledger'[i].outcome = s
        BY <2>0, <2>5 DEF Writes, WriteOutcome, TypeOK, Entry
      <4> QED  BY <4>1, <4>2
    <3>4. CASE ledger[i].outcome = s
      BY <2>3, <2>5, <3>1, <3>2, <3>3, <3>4
    <3>5. CASE ledger[i].outcome = None
      <4>1. returned[i] = None /\ returned' = [returned EXCEPT ![i] = s]
        BY <3>1, <3>2, <3>3, <3>5
      <4>2. admitted' = admitted
        BY <3>1, <3>2, <3>3
      <4>3. Ledger!Return(i, s)
        BY <2>5, <4>1, <4>2 DEF Ledger!Return
      <4> QED  BY <4>3 DEF Ledger!Next
    <3> QED  BY <3>1, <3>4, <3>5
  <2>6. CASE ledger' = ledger /\ runs' = runs
    BY <2>3, <2>6
  <2>7. CASE \E p \in Process : Execute(p)
    <3>1. PICK p \in Process : Execute(p)
      BY <2>7
    <3>2. cur[p] \in Invocation
      BY <2>0, <3>1 DEF Execute, Wiring
    <3> QED  BY <2>1, <3>1, <3>2 DEF Ledger!Next
  <2>8. ASSUME runs' = runs, NEW q \in Request, Admitted(q), ledger[q.inv] = None
        PROVE  Ledger!Next
    BY <2>2, <2>8 DEF Ledger!Next, Request
  <2>9. CASE runs' = runs
    <3>1. \A p \in Process : pc[p] = "record" =>
              cur[p] \in Invocation /\ got[p] \in Status /\ runs[cur[p]] = 1
      BY <1>2, <2>0 DEF Wiring, Guarded, Once
    <3> QED  BY <2>0, <2>4, <2>5, <2>6, <2>8, <2>9, <3>1 DEF LedgerMoves
  <2> QED  BY <2>0, <2>7, <2>9, RunsMoves
<1> QED  BY <1>1, <1>2, Guards, PTL DEF Spec, LedgerSpec, Ledger!Spec

=============================================================================
