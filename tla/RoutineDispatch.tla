------------------------- MODULE RoutineDispatch -------------------------
(***************************************************************************)
(* From a due occurrence to a recorded return: the dispatcher of Routines  *)
(* (aikit-cli/src/routine_dispatch.rs), the recurrence planner, the ledger *)
(* of invocations and the store of Routines (aikit-store).                 *)
(*                                                                         *)
(* Durable: the dispatcher's watermark (a plain file, truncated and then   *)
(* written), the Routines and the ledger (each read and replaced whole     *)
(* under a lock of its own, so one step each).  Processes: the gateway's   *)
(* tick loop, `gateway tick`, `routine run-now`, the hook command's event  *)
(* pass and the owner's edits, each of which reads a record, decides, and  *)
(* writes it back under a lock taken only for the write.  One process does *)
(* one of these at a time and may die at any step.                         *)
(*                                                                         *)
(* All Routines automate one Method.  A revision is a hash of the body, so *)
(* it is the body: here the proof a Routine carries, since only Enabled    *)
(* bodies are admitted and authority does not change.  An identity derived *)
(* by hashing is the tuple that is hashed.                                 *)
(***************************************************************************)
EXTENDS Integers, FiniteSets, FiniteSetsExt

CONSTANTS Process,
          Scheduled, EventDriven, \* the Routines, by their trigger
          Occurrence,      \* the occurrences Central resolves
          OfRoutine,       \* [Occurrence -> Scheduled]
          Due,             \* [Occurrence -> the instant it is due]
          Within, AtMost,  \* [Scheduled -> ...]: the catch-up policy's bounds
          Event,           \* payloads a hook may carry
          Method,          \* revisions of the Method
          Status,          \* how a run may return: completed, failed or unreturned
          OnTime, Lookback,\* the widths of the two windows
          MaxClock, MaxUpsets,
          None

Routine == Scheduled \cup EventDriven
Time    == 0 .. MaxClock
State   == {"Enabled", "Disabled", "StaleProof", "absent"}
Body    == [state : State, proof : Method]

\* An invocation's identity: the occurrence, or the Routine's body and what
\* woke it (an instant for run-now, the packet for an event).
Woken      == [routine : Routine, proof : Method, by : Time \cup Event]
Invocation == Occurrence \cup Woken
RoutineOf(i) == IF i \in Occurrence THEN OfRoutine[i] ELSE i.routine

\* Delivery identities: the occurrence's own, and one per return.
Gate(o)      == [occurrence |-> o]
Outcome(i,s) == [invocation |-> i, status |-> s]
Delivery     == [occurrence : Occurrence] \cup [invocation : Invocation, status : Status]
Entry == [obs : Invocation, proof : Method, at : Time,
          deliveries : SUBSET Delivery, outcome : Status \cup {None}]

ASSUME BoundsAssumption ==
    /\ MaxClock \in Nat /\ MaxUpsets \in Nat
    /\ OnTime \in Nat /\ Lookback \in Nat
ASSUME PlanAssumption ==
    /\ OfRoutine \in [Occurrence -> Scheduled] /\ Due \in [Occurrence -> Time]
    /\ Within \in [Scheduled -> Nat] /\ AtMost \in [Scheduled -> Nat \ {0}]
ASSUME NoneAssumption ==
    /\ None \notin Time \cup Invocation \cup Status \cup Entry

VARIABLES
    clock,     \* the wall clock, which may step back
    watermark, \* routine-dispatcher.json: the previous tick, or None
    routines,  \* routines.json
    method,    \* the revision the catalogue answers with
    ledger,    \* routine-invocations.json
    pc, op,    \* where a process is, and in what
    now,       \* the instant its pass works with
    prev,      \* the watermark its tick found
    copy,      \* the Routines its pass listed (an edit: the one it read)
    todo,      \* invocations its pass has yet to admit
    cur,       \* the invocation it is working on
    got,       \* the return of the run it made
    runs,      \* history: how often each invocation was executed
    upsets     \* how often the owner stepped in or something failed

store   == <<watermark, routines, ledger>>
process == <<pc, op, now, prev, copy, todo, cur, got>>
vars    == <<clock, method, store, process, runs, upsets>>

Blank == [r \in Routine |-> [state |-> "absent", proof |-> CHOOSE m \in Method : TRUE]]
Enabled(rs) == {r \in Routine : rs[r].state = "Enabled"}

Init ==
    /\ clock = 0 /\ watermark = None /\ method \in Method
    /\ routines \in [Routine -> {b \in Body : b.state \in {"Enabled", "Disabled"}
                                              /\ b.proof = method}]
    /\ ledger = [i \in Invocation |-> None]
    /\ pc = [p \in Process |-> "idle"] /\ op = [p \in Process |-> "none"]
    /\ now = [p \in Process |-> 0] /\ prev = [p \in Process |-> None]
    /\ copy = [p \in Process |-> Blank]
    /\ todo = [p \in Process |-> {}]
    /\ cur = [p \in Process |-> None] /\ got = [p \in Process |-> None]
    /\ runs = [i \in Invocation |-> 0]
    /\ upsets = 0

-----------------------------------------------------------------------------
(* Processes. *)

At(p, o, l) == op[p] = o /\ pc[p] = l
Goto(p, l)  == pc' = [pc EXCEPT ![p] = l]

\* The command ends, or the service's tick returns to its loop.
Leave(p) ==
    /\ Goto(p, "idle") /\ op' = [op EXCEPT ![p] = "none"]
    /\ now' = [now EXCEPT ![p] = 0] /\ prev' = [prev EXCEPT ![p] = None]
    /\ copy' = [copy EXCEPT ![p] = Blank] /\ todo' = [todo EXCEPT ![p] = {}]
    /\ cur' = [cur EXCEPT ![p] = None] /\ got' = [got EXCEPT ![p] = None]

\* A bug: the item is not taken off the list.
NextItemKept(p) ==
    /\ Goto(p, "work")
    /\ cur' = [cur EXCEPT ![p] = None] /\ got' = [got EXCEPT ![p] = None]
    /\ UNCHANGED <<op, now, prev, copy, todo>>
\* On with the pass.
NextItem(p) ==
    /\ Goto(p, "work")
    /\ todo' = [todo EXCEPT ![p] = @ \ {cur[p]}]
    /\ cur' = [cur EXCEPT ![p] = None] /\ got' = [got EXCEPT ![p] = None]
    /\ UNCHANGED <<op, now, prev, copy>>

\* What an error in one item does: a tick notes it and goes on, the other
\* passes return it.
Failed(p) == IF op[p] = "tick" THEN NextItem(p) ELSE Leave(p)

Begin(p, o, l) ==
    /\ pc[p] = "idle"
    /\ op' = [op EXCEPT ![p] = o] /\ Goto(p, l)
    /\ now' = [now EXCEPT ![p] = clock]

\* A listing or a single read of routines.json.
Reads(p) == copy' = [copy EXCEPT ![p] = routines]

-----------------------------------------------------------------------------
(* A tick. *)

MovedBack(p) == prev'[p] # None /\ clock < prev'[p]

TickLoad(p) ==
    /\ prev' = [prev EXCEPT ![p] = watermark]
    /\ Begin(p, "tick", IF MovedBack(p) THEN "list" ELSE "stamp")
    /\ UNCHANGED <<clock, method, store, copy, todo, cur, got, runs, upsets>>

\* fs::write truncates, then writes; a reader in between parses nothing and
\* takes the default.
TickTruncate(p) ==
    /\ At(p, "tick", "stamp") /\ Goto(p, "stamping")
    /\ watermark' = None
    /\ UNCHANGED <<clock, method, routines, ledger, op, now, prev, copy, todo, cur, got,
                   runs, upsets>>

TickStamp(p) ==
    /\ At(p, "tick", "stamping") /\ Goto(p, "list")
    /\ watermark' = now[p]
    /\ UNCHANGED <<clock, method, routines, ledger, op, now, prev, copy, todo, cur, got,
                   runs, upsets>>

TickList(p) ==
    /\ At(p, "tick", "list") /\ Goto(p, "plan") /\ Reads(p)
    /\ UNCHANGED <<clock, method, store, op, now, prev, todo, cur, got, runs, upsets>>

\* The deliveries on record when the tick read the ledger.
Delivered == UNION {ledger[i].deliveries : i \in {j \in Invocation : ledger[j] # None}}

Earliest(p) == IF prev[p] # None /\ prev[p] < now[p] THEN prev[p] ELSE now[p]
\* What Central resolves in the tick's window, of what is already due.
Resolved(p, r) == {o \in Occurrence : /\ OfRoutine[o] = r /\ Due[o] <= now[p]
                                      /\ Earliest(p) <= Due[o] + Lookback}

\* The check point, moved onto the newest occurrence that is on time.
ReadingNow(p, r) ==
    LET fresh == {Due[o] : o \in {q \in Resolved(p, r) : now[p] < Due[q] + OnTime}}
    IN  IF fresh = {} THEN now[p] ELSE Max(fresh)

\* plan_recurrence: not yet delivered, of an age the policy allows, nothing
\* when the clock moved back.  It looks for the occurrence's own reference in
\* `delivered`, where the tick has put delivery references.
Eligible(p, r) ==
    IF prev[p] # None /\ ReadingNow(p, r) < prev[p] THEN {}
    ELSE {o \in Resolved(p, r) : /\ Due[o] <= ReadingNow(p, r) /\ o \notin Delivered
                                 /\ ReadingNow(p, r) <= Due[o] + Within[r]}

\* The newest `max` of them.
Newest(S, n) == {o \in S : Cardinality({q \in S : Due[q] > Due[o]}) < n}
Planned(p, r) == Newest(Eligible(p, r), AtMost[r])

TickPlan(p) ==
    /\ At(p, "tick", "plan") /\ Goto(p, "work")
    /\ todo' = [todo EXCEPT ![p] = UNION {Planned(p, r) : r \in Scheduled \cap Enabled(copy[p])}]
    /\ UNCHANGED <<clock, method, store, op, now, prev, copy, cur, got, runs, upsets>>

-----------------------------------------------------------------------------
(* The other passes. *)

Wake(r, by) == [routine |-> r, proof |-> routines[r].proof, by |-> by]

RunNow(p, r) ==
    /\ upsets < MaxUpsets /\ upsets' = upsets + 1
    /\ routines[r].state # "absent"
    /\ Begin(p, "run-now", "work") /\ Reads(p)
    /\ todo' = [todo EXCEPT ![p] = {Wake(r, clock)}]
    /\ UNCHANGED <<clock, method, store, prev, cur, got, runs>>

EventPass(p, e) ==
    /\ Begin(p, "event", "work") /\ Reads(p)
    /\ todo' = [todo EXCEPT ![p] = {Wake(r, e) : r \in EventDriven \cap Enabled(routines)}]
    /\ UNCHANGED <<clock, method, store, prev, cur, got, runs, upsets>>

PassEnds(p) ==
    /\ pc[p] = "work" /\ todo[p] = {} /\ Leave(p)
    /\ UNCHANGED <<clock, method, store, runs, upsets>>

-----------------------------------------------------------------------------
(* The ledger's one transaction. *)

\* A bug: the state of the Routine is left to the caller.
AuthorisedAnyState(b) == b.proof = method
\* authorise: the proof against the Method comes first, the state after it.
Stale(b)      == b.proof # method
Authorised(b) == b.state = "Enabled" /\ ~Stale(b)

\* A request: the invocation it names, the observation and delivery it brings,
\* and the rest of the basis.
Request == [inv : Invocation, obs : Invocation, proof : Method, at : Time,
            deliveries : SUBSET Delivery]

\* A bug: only the invocation's own entry is looked at.
BoundNowhere(q) == FALSE
\* The observation or a delivery is bound to another invocation.
BoundElsewhere(q) ==
    \E j \in Invocation \ {q.inv} :
        ledger[j] # None /\ (ledger[j].obs = q.obs \/ ledger[j].deliveries \cap q.deliveries # {})

SameBasis(q) ==
    ledger[q.inv] # None =>
        /\ ledger[q.inv].obs = q.obs /\ ledger[q.inv].proof = q.proof
        /\ ledger[q.inv].at = q.at

Refused(q) == BoundElsewhere(q) \/ ~SameBasis(q)

NewEntry(q) == [obs |-> q.obs, proof |-> q.proof, at |-> q.at,
                deliveries |-> q.deliveries, outcome |-> None]
\* A bug: an entry is written anew.
ReplaceEntry(q) == ledger' = [ledger EXCEPT ![q.inv] = NewEntry(q)]
\* A new entry, or the deliveries of the same invocation merged.
MergeEntry(q) ==
    LET e == ledger[q.inv]
    IN  ledger' = [ledger EXCEPT ![q.inv] =
            IF e = None THEN NewEntry(q)
            ELSE [e EXCEPT !.deliveries = e.deliveries \cup q.deliveries]]

\* admit
Admitted(q) == ~Refused(q) /\ MergeEntry(q)

-----------------------------------------------------------------------------
(* One due occurrence, or one Routine that was woken. *)

Held(p)  == copy[p][RoutineOf(cur[p])]
ObservedAt(p) == IF cur[p] \in Occurrence THEN ReadingNow(p, OfRoutine[cur[p]]) ELSE now[p]
Gates(i) == IF i \in Occurrence THEN {Gate(i)} ELSE {}

\* A tick takes the occurrences of a Routine as they came due; an event pass
\* first asks the ledger, without its lock.
Pick(p, i) ==
    /\ pc[p] = "work" /\ i \in todo[p]
    /\ op[p] = "tick" => \A o \in todo[p] : OfRoutine[o] = OfRoutine[i] => Due[i] <= Due[o]
    /\ IF op[p] = "event" /\ ledger[i] # None
       THEN todo' = [todo EXCEPT ![p] = @ \ {i}] /\ UNCHANGED <<pc, cur>>
       ELSE Goto(p, "admit") /\ cur' = [cur EXCEPT ![p] = i] /\ UNCHANGED todo
    /\ UNCHANGED <<clock, method, store, op, now, prev, copy, got, runs, upsets>>

Asked(p) == [inv |-> cur[p], obs |-> cur[p], proof |-> Held(p).proof, at |-> ObservedAt(p),
             deliveries |-> Gates(cur[p])]

\* A bug: whatever the ledger says, the run is made.
AfterAdmissionRun(p) ==
    Goto(p, "run") /\ UNCHANGED <<op, now, prev, copy, todo, cur, got>>

\* Only a new admission is executed.
AfterAdmission(p) ==
    IF ledger[cur[p]] = None
    THEN Goto(p, "run") /\ UNCHANGED <<op, now, prev, copy, todo, cur, got>>
    ELSE NextItem(p)

Admit(p) ==
    /\ pc[p] = "admit" /\ Authorised(Held(p)) /\ Admitted(Asked(p))
    /\ AfterAdmission(p)
    /\ UNCHANGED <<clock, method, watermark, routines, runs, upsets>>

\* An unauthorised request; from a tick, a stale proof is marked.
Reject(p, b) ==
    IF op[p] = "tick" /\ Stale(b)
    THEN Goto(p, "stale") /\ UNCHANGED <<op, now, prev, copy, todo, cur, got>>
    ELSE Failed(p)

AdmitRefused(p) ==
    /\ pc[p] = "admit"
    /\ \/ ~Authorised(Held(p)) /\ Reject(p, Held(p))
       \/ Authorised(Held(p)) /\ Refused(Asked(p)) /\ Failed(p)
    /\ UNCHANGED <<clock, method, store, runs, upsets>>

\* Writing the ledger fails, before its rename or after it.
AdmitFails(p) ==
    /\ pc[p] = "admit" /\ Authorised(Held(p)) /\ upsets < MaxUpsets
    /\ Admitted(Asked(p)) \/ (~Refused(Asked(p)) /\ UNCHANGED ledger)
    /\ Failed(p) /\ upsets' = upsets + 1
    /\ UNCHANGED <<clock, method, watermark, routines, runs>>

\* runner.run, whose steps are the encounter owner's.
Execute(p) ==
    /\ pc[p] = "run" /\ Goto(p, "executing")
    /\ runs' = [runs EXCEPT ![cur[p]] = @ + 1]
    /\ UNCHANGED <<clock, method, store, op, now, prev, copy, todo, cur, got, upsets>>

Return(p, s) ==
    /\ pc[p] = "executing" /\ Goto(p, "record")
    /\ got' = [got EXCEPT ![p] = s]
    /\ UNCHANGED <<clock, method, store, op, now, prev, copy, todo, cur, runs, upsets>>

\* record_outcome: written once, and never rewritten.
WriteOutcome(i, s) ==
    ledger[i].outcome \in {None, s} /\ ledger' = [ledger EXCEPT ![i].outcome = s]

\* A bug: the Routine is authorised again before the return is kept.
RecordIfAuthorised(p) ==
    /\ pc[p] = "record"
    /\ IF Authorised(routines[RoutineOf(cur[p])])
       THEN /\ WriteOutcome(cur[p], got[p])
            /\ Goto(p, "deliver") /\ UNCHANGED <<op, now, prev, copy, todo, cur, got>>
       ELSE Failed(p) /\ UNCHANGED ledger
    /\ UNCHANGED <<clock, method, watermark, routines, runs, upsets>>

Record(p) ==
    /\ pc[p] = "record"
    /\ \/ /\ WriteOutcome(cur[p], got[p])
          /\ Goto(p, "deliver") /\ UNCHANGED <<op, now, prev, copy, todo, cur, got>>
       \/ ledger[cur[p]].outcome \notin {None, got[p]} /\ Failed(p) /\ UNCHANGED ledger
    /\ UNCHANGED <<clock, method, watermark, routines, runs, upsets>>

RecordFails(p) ==
    /\ pc[p] = "record" /\ upsets < MaxUpsets
    /\ WriteOutcome(cur[p], got[p]) \/ UNCHANGED ledger
    /\ Failed(p) /\ upsets' = upsets + 1
    /\ UNCHANGED <<clock, method, watermark, routines, runs>>

\* The return as one more delivery: admitted again, with the Routine as it is
\* now.
Again(p) ==
    LET e == ledger[cur[p]]
    IN  [inv |-> cur[p], obs |-> e.obs, proof |-> routines[RoutineOf(cur[p])].proof,
         at |-> e.at, deliveries |-> {Outcome(cur[p], got[p])}]

Deliver(p) ==
    LET b == routines[RoutineOf(cur[p])]
    IN  /\ pc[p] = "deliver"
        /\ IF b.state # "absent" /\ Authorised(b) /\ ~Refused(Again(p))
           THEN MergeEntry(Again(p)) /\ NextItem(p)
           ELSE /\ UNCHANGED ledger
                /\ IF b.state # "absent" THEN Reject(p, b) ELSE Failed(p)
        /\ UNCHANGED <<clock, method, watermark, routines, runs, upsets>>

-----------------------------------------------------------------------------
(* The store of Routines: read, decide, and write under the lock. *)

\* persist_stale_proof
MarkRead(p) ==
    LET b == routines[RoutineOf(cur[p])]
    IN  /\ pc[p] = "stale"
        /\ \/ b.state = "absent" /\ Leave(p)
           \/ b.state = "StaleProof" /\ NextItem(p)
           \/ /\ b.state \in {"Enabled", "Disabled"} /\ Goto(p, "mark")
              /\ got' = [got EXCEPT ![p] = [b EXCEPT !.state = "StaleProof"]]
              /\ UNCHANGED <<op, now, prev, copy, todo, cur>>
        /\ UNCHANGED <<clock, method, store, runs, upsets>>

MarkPut(p) ==
    /\ pc[p] = "mark"
    /\ routines' = [routines EXCEPT ![RoutineOf(cur[p])] = got[p]]
    /\ NextItem(p)
    /\ UNCHANGED <<clock, method, watermark, ledger, runs, upsets>>

Enable(b)  == IF Stale(b) THEN {} ELSE {[b EXCEPT !.state = "Enabled"]}
Disable(b) == {[b EXCEPT !.state = "Disabled"]}
Reprove(b) == {[state |-> "Disabled", proof |-> method]}
Delete(b)  == IF b.state = "Enabled" THEN {} ELSE {[b EXCEPT !.state = "absent"]}

\* routine enable, disable, reprove, delete: up to the write.
EditRead(p, r) ==
    /\ upsets < MaxUpsets /\ upsets' = upsets + 1
    /\ routines[r].state # "absent"
    /\ pc[p] = "idle" /\ Goto(p, "put") /\ op' = [op EXCEPT ![p] = "edit"]
    /\ cur' = [cur EXCEPT ![p] = r]
    /\ \E b \in Enable(routines[r]) \cup Disable(routines[r]) \cup Reprove(routines[r])
                 \cup Delete(routines[r]) : got' = [got EXCEPT ![p] = b]
    /\ UNCHANGED <<clock, method, store, now, prev, copy, todo, runs>>

EditPut(p) ==
    /\ At(p, "edit", "put")
    /\ routines' = [routines EXCEPT ![cur[p]] = got[p]]
    /\ Leave(p)
    /\ UNCHANGED <<clock, method, watermark, ledger, runs, upsets>>

-----------------------------------------------------------------------------
(* Everything else. *)

\* `routine authorise-invocation`: a caller brings the request, with the bodies
\* to authorise it by.
Supplied(q) ==
    /\ upsets < MaxUpsets /\ upsets' = upsets + 1
    /\ Admitted(q)
    /\ UNCHANGED <<clock, method, watermark, routines, process, runs>>

Crash(p) ==
    /\ pc[p] # "idle" /\ upsets < MaxUpsets /\ upsets' = upsets + 1
    /\ Leave(p)
    /\ UNCHANGED <<clock, method, store, runs>>

ClockMoves ==
    /\ \/ clock < MaxClock /\ clock' = clock + 1 /\ UNCHANGED upsets
       \/ upsets < MaxUpsets /\ upsets' = upsets + 1 /\ clock' \in 0 .. clock - 1
    /\ UNCHANGED <<method, store, process, runs>>

MethodMoves ==
    /\ upsets < MaxUpsets /\ upsets' = upsets + 1
    /\ method' \in Method \ {method}
    /\ UNCHANGED <<clock, store, process, runs>>

\* What a process does by itself once it has begun.
Step(p) ==
    \/ TickTruncate(p) \/ TickStamp(p) \/ TickList(p) \/ TickPlan(p)
    \/ PassEnds(p) \/ Admit(p) \/ AdmitRefused(p) \/ Execute(p)
    \/ Record(p) \/ Deliver(p) \/ MarkRead(p) \/ MarkPut(p) \/ EditPut(p)
    \/ \E i \in todo[p] : Pick(p, i)
    \/ \E s \in Status : Return(p, s)

\* What is started from outside, and what goes wrong.
Begins(p) ==
    \/ TickLoad(p) \/ (\E r \in Routine : RunNow(p, r) \/ EditRead(p, r))
    \/ \E e \in Event : EventPass(p, e)
Faulty(p) == AdmitFails(p) \/ RecordFails(p) \/ Crash(p)

Next ==
    \/ \E p \in Process : Step(p) \/ Begins(p) \/ Faulty(p)
    \/ \E i, o \in Occurrence, ds \in {{}} \cup {{Gate(q)} : q \in Occurrence} :
           Supplied([inv |-> i, obs |-> o, proof |-> method, at |-> clock, deliveries |-> ds])
    \/ ClockMoves \/ MethodMoves

Spec == Init /\ [][Next]_vars
\* A process that has begun goes on.
FairSpec == Spec /\ \A p \in Process : WF_vars(Step(p))

-----------------------------------------------------------------------------
(* Properties. *)

\* Every variable keeps its type.
TypeOK ==
    /\ clock \in Time /\ watermark \in Time \cup {None} /\ method \in Method
    /\ routines \in [Routine -> Body]
    /\ ledger \in [Invocation -> Entry \cup {None}]
    /\ pc \in [Process -> {"idle", "stamp", "stamping", "list", "plan", "work", "admit", "run",
                           "executing", "record", "deliver", "stale", "mark", "put"}]
    /\ op \in [Process -> {"none", "tick", "run-now", "event", "edit"}]
    /\ now \in [Process -> Time] /\ prev \in [Process -> Time \cup {None}]
    /\ copy \in [Process -> [Routine -> Body]]
    /\ todo \in [Process -> SUBSET Invocation]
    /\ cur \in [Process -> Invocation \cup Routine \cup {None}]
    /\ got \in [Process -> Status \cup Body \cup {None}]
    /\ runs \in [Invocation -> Nat]
    /\ upsets \in 0 .. MaxUpsets

\* No invocation is executed twice, whatever passes overlap, die, are repeated
\* or see the clock move: only the admission that created the entry runs.
RunsAtMostOnce == \A i \in Invocation : runs[i] <= 1

\* The ledger can be loaded again: no observation and no delivery belongs to two
\* invocations.  RoutineInvocationStore::load refuses a file that breaks this,
\* for good.
LedgerLoads ==
    \A i, j \in Invocation : i # j /\ ledger[i] # None /\ ledger[j] # None =>
        ledger[i].obs # ledger[j].obs /\ ledger[i].deliveries \cap ledger[j].deliveries = {}

\* What runs is what the pass found Enabled, with the proof that the ledger
\* records, even when the Routine was edited or the Method moved since.
RunsWhatWasProven ==
    \A p \in Process : pc[p] \in {"run", "executing"} =>
        /\ Held(p).state = "Enabled"
        /\ ledger[cur[p]] # None /\ ledger[cur[p]].proof = Held(p).proof

\* An entry of the ledger is never taken back: its basis stands, deliveries are
\* only added, and a return once recorded is not rewritten.
EntriesStand ==
    [][\A i \in Invocation : ledger[i] # None =>
         /\ ledger'[i] # None
         /\ \A f \in {"obs", "proof", "at"} : ledger'[i][f] = ledger[i][f]
         /\ ledger[i].deliveries \subseteq ledger'[i].deliveries
         /\ ledger[i].outcome \in {None, ledger'[i].outcome}]_vars

\* The ledger implements its abstract specification.
Ledger == INSTANCE InvocationLedger WITH
    admitted <- {i \in Invocation : ledger[i] # None},
    returned <- [i \in Invocation |-> IF ledger[i] = None THEN None ELSE ledger[i].outcome]
LedgerSpec == Ledger!Spec

\* A run whose process is spared has its return recorded, and its pass goes on.
ReturnRecorded ==
    \A p \in Process :
        (pc[p] = "executing" /\ upsets = MaxUpsets) ~> pc[p] = "deliver"

\* Every pass and every edit that is spared comes to an end.
PassesEnd == \A p \in Process : pc[p] # "idle" ~> pc[p] = "idle"

\* "An occurrence fires on the first tick that sees it" (routine_dispatch.rs:13-16).
\* But a tick that comes late sees one older than its on-time window, and skips it.
FirstTickFires ==
    [][\A p \in Process : At(p, "tick", "plan") /\ pc'[p] = "work" =>
         \A o \in Occurrence :
            /\ OfRoutine[o] \in Enabled(copy[p]) /\ ledger[o] = None
            /\ prev[p] # None /\ prev[p] < Due[o] /\ Due[o] <= now[p]
            => o \in todo'[p]]_vars

\* "A restart replays the window and suppresses exactly what already ran"
\* (routine_dispatch.rs:19-21).  But the planner is given the refs of deliveries
\* and compares them with the refs of occurrences.
DeliveredSuppressed ==
    [][\A p \in Process : At(p, "tick", "plan") /\ pc'[p] = "work" =>
         \A o \in todo'[p] : Gate(o) \notin Delivered]_vars
=============================================================================
