------------------------- MODULE EncounterDelivery -------------------------
(***************************************************************************)
(* Machine requests addressed to one agent session, and the native body    *)
(* that answers them (aikit-store/src/encounter_delivery.rs, driven by the *)
(* encounter owner in aikit-cli).                                          *)
(*                                                                         *)
(* Durable: the encounter journal in SQLite, each of whose writes is one   *)
(* BEGIN IMMEDIATE transaction or one statement: the delivery rows, the    *)
(* latest native binding and the release intents and receipts.  Volatile:  *)
(* the owner process, its resident (one provider process with one lane),   *)
(* the request threads, and the two locks a thread takes, operations (a    *)
(* mutex in the resident) and agency (a file lock).                        *)
(*                                                                         *)
(* The host's reader thread closes a turn under the host's state lock and  *)
(* journals TurnEnded after it has let that lock go, so the lane reads     *)
(* idle before the journal knows the turn is over: `ending` is that turn.  *)
(*                                                                         *)
(* Deliveries of one session are all that interact: every statement names  *)
(* the session.  A native startup is one step here; its reservation and    *)
(* recovery journal is not modelled.                                       *)
(***************************************************************************)
EXTENDS Naturals, FiniteSets

CONSTANTS Delivery,  \* the delivery identities senders use
          Thread,    \* request threads of the owner
          MaxGen,    \* how many bodies (connection generations) may be opened
          Person,    \* the author of a turn that carries no delivery
          None

ASSUME DistinctAssumption == Person \notin Delivery /\ None \notin Delivery \cup {Person}
                             /\ None \notin Thread
ASSUME GenAssumption == MaxGen \in Nat

Generation == 1 .. MaxGen
NoGen == 0

Unresolved == {"dispatching", "submitted", "uncertain"}
Active  == Unresolved \cup {"queued"}
Settled == {"returned", "cancelled", "failed", "refused", "reconciled"}
Phase   == Active \cup Settled \cup {"absent"}
Stops   == {"returned", "cancelled", "failed"}

Turns == [of : Delivery \cup {Person}, gen : Generation]

VARIABLES
    row,       \* [Delivery -> [phase, gen]]: encounter_deliveries
    bound,     \* generation of the latest binding event
    release,   \* [Generation -> ...]: native-release-requested and -completed
    resident,  \* generation in the owner's residents map
    alive,     \* the latest body's bridge is running
    turn,      \* the turn in flight on the lane
    ending,    \* a turn closed by the host, its TurnEnded not yet journaled
    operations,\* holder of the resident's operations mutex
    agency,    \* holder of the session's agency file lock
    pc,        \* [Thread -> where the thread is]
    job,       \* [Thread -> what it is doing]
    on,        \* [Thread -> the delivery it works on]
    held,      \* [Thread -> generation of the resident it borrowed]
    sent,      \* [Delivery -> prompts carrying it that reached the transport]
    credit     \* [Delivery -> the turn whose end settled it]

journal  == <<row, bound, release>>
body     == <<resident, alive, turn, ending>>
locks    == <<operations, agency>>
threads  == <<pc, job, on, held>>
history  == <<sent, credit>>
vars     == <<journal, body, locks, threads, history>>

Init ==
    /\ row = [d \in Delivery |-> [phase |-> "absent", gen |-> NoGen]]
    /\ bound = NoGen
    /\ release = [g \in Generation |-> "none"]
    /\ resident = NoGen /\ alive = FALSE /\ turn = None /\ ending = None
    /\ operations = None /\ agency = None
    /\ pc = [t \in Thread |-> "idle"] /\ job = [t \in Thread |-> "none"]
    /\ on = [t \in Thread |-> None] /\ held = [t \in Thread |-> NoGen]
    /\ sent = [d \in Delivery |-> 0] /\ credit = [d \in Delivery |-> None]

-----------------------------------------------------------------------------
(* The journal's own questions and transactions. *)

Pending == \E d \in Delivery : row[d].phase \in Active

\* release_recovery: the latest release request has no confirmed receipt.
Recovery ==
    \E g \in Generation :
        /\ release[g] \in {"requested", "unconfirmed"}
        /\ \A h \in Generation : release[h] # "none" => h <= g

\* A bug: the active rows are not looked at.
AdmitsPending(d) == row[d].phase = "absent" /\ ~Recovery
\* A bug: the release journal is not looked at.
AdmitsReleasing(d) == row[d].phase = "absent" /\ ~Pending

\* reserve_with_phase admits a new identity; an existing one is only read back.
Admits(d) == row[d].phase = "absent" /\ ~Recovery /\ ~Pending

\* A bug: the connection generation is not compared.
AttributedAnyBody(d, n) == row[d].phase \in Unresolved

\* attribute and finish: the end of turn n, as stop, settles the unresolved row
\* of n's generation, whoever n carried.
Attributed(d, n) == row[d].phase \in Unresolved /\ row[d].gen = n.gen

FinishTurn(n, stop) ==
    LET hit == {d \in Delivery : Attributed(d, n)}
    IN  /\ row' = [d \in Delivery |->
                      IF d \in hit THEN [row[d] EXCEPT !.phase = stop] ELSE row[d]]
        /\ credit' = [d \in Delivery |-> IF d \in hit THEN n ELSE credit[d]]

\* A bug: the acknowledgement overwrites whatever the row holds.
AckRowBlind(d, phase) == row' = [row EXCEPT ![d].phase = phase]

\* delivery_ack changes only a row that is still dispatching: a reply may have
\* won the race.
AckRow(d, phase) ==
    row' = IF row[d].phase = "dispatching" THEN [row EXCEPT ![d].phase = phase] ELSE row

\* A bug: the refusal does not compare the phase.
RefuseRowBlind(d) == row' = [row EXCEPT ![d].phase = "refused"]

\* refuse_queued_delivery, and nothing when the row is no longer queued.  The
\* code writes failed with the detail "refused at drain": "refused" here.
RefuseRow(d) ==
    row' = IF row[d].phase = "queued" THEN [row EXCEPT ![d].phase = "refused"] ELSE row

-----------------------------------------------------------------------------
(* Threads. *)

At(t, j, p) == job[t] = j /\ pc[t] = p
Goto(t, p) == pc' = [pc EXCEPT ![t] = p] /\ UNCHANGED <<job, on, held>>
Unlocked(t) ==
    /\ operations' = IF operations = t THEN None ELSE operations
    /\ agency' = IF agency = t THEN None ELSE agency
\* The request is answered; its guards and its borrow of the resident drop.
Leave(t) ==
    /\ pc' = [pc EXCEPT ![t] = "idle"]
    /\ job' = [job EXCEPT ![t] = "none"]
    /\ on' = [on EXCEPT ![t] = None]
    /\ held' = [held EXCEPT ![t] = NoGen]
    /\ Unlocked(t)

Start(t, j, d) ==
    /\ pc[t] = "idle"
    /\ pc' = [pc EXCEPT ![t] = "borrowed"]
    /\ job' = [job EXCEPT ![t] = j]
    /\ on' = [on EXCEPT ![t] = d]
    /\ held' = [held EXCEPT ![t] = resident]
    /\ UNCHANGED <<journal, body, locks, history>>

\* send_addressed for an identity with no row yet (one that has is read back).
Send(t, d) == row[d].phase = "absent" /\ Start(t, "send", d)
\* Prompt: the person's draft, on a resident.
Prompt(t) == resident # NoGen /\ Start(t, "prompt", None)

\* drain_queued_deliveries reads the queue; drain_one_queued re-admits the row.
Drain(t, d) ==
    /\ row[d].phase = "queued" /\ pc[t] = "idle"
    /\ pc' = [pc EXCEPT ![t] = "read"]
    /\ job' = [job EXCEPT ![t] = "drain"]
    /\ on' = [on EXCEPT ![t] = d]
    /\ UNCHANGED <<journal, body, locks, held, history>>
DrainBorrow(t) ==
    /\ At(t, "drain", "read") /\ resident # NoGen
    /\ held' = [held EXCEPT ![t] = resident]
    /\ pc' = [pc EXCEPT ![t] = "borrowed"]
    /\ UNCHANGED <<journal, body, locks, job, on, history>>

\* operations first (when a resident was borrowed), then the agency lock.
Lock(t) ==
    /\ pc[t] = "borrowed" /\ job[t] # "release"
    /\ held[t] # NoGen => operations = None
    /\ agency = None
    /\ operations' = IF held[t] # NoGen THEN t ELSE operations
    /\ agency' = t
    /\ Goto(t, "locked")
    /\ UNCHANGED <<journal, body, history>>

\* Every way a request ends early without a journal write: admission refused,
\* a lock's deadline, a context check of a live send, a drain deferred because
\* there is no resident, the handshake fails or the Flow cannot be read.
GiveUp(t) ==
    /\ \/ pc[t] = "borrowed"
       \/ At(t, "drain", "read")
       \/ job[t] # "release" /\ pc[t] \in {"locked", "ready"}
    /\ Leave(t)
    /\ UNCHANGED <<journal, body, history>>

Ready(t) == held[t] # NoGen /\ alive /\ turn = None

\* The presence check.  A send that finds no live idle lane queues, a drain defers.
CheckReady(t) ==
    /\ pc[t] = "locked" /\ job[t] \in {"send", "drain"}
    /\ IF Ready(t) THEN Goto(t, "ready") /\ UNCHANGED locks
       ELSE IF job[t] = "send" THEN Goto(t, "absent") /\ UNCHANGED locks
       ELSE Leave(t)
    /\ UNCHANGED <<journal, body, history>>

\* queue_delivery
Queue(t) ==
    /\ At(t, "send", "absent")
    /\ row' = IF Admits(on[t])
              THEN [row EXCEPT ![on[t]] = [phase |-> "queued", gen |-> NoGen]] ELSE row
    /\ Leave(t)
    /\ UNCHANGED <<bound, release, body, history>>

\* reserve_delivery: the intent is durable before the prompt.
Reserve(t) ==
    /\ At(t, "send", "ready")
    /\ \/ /\ Admits(on[t])
          /\ row' = [row EXCEPT ![on[t]] = [phase |-> "dispatching", gen |-> held[t]]]
          /\ Goto(t, "claimed") /\ UNCHANGED locks
       \/ ~Admits(on[t]) /\ Leave(t) /\ UNCHANGED row
    /\ UNCHANGED <<bound, release, body, history>>

\* A drain's admission, context or membership check refuses.
RefuseUnclaimed(t) ==
    /\ job[t] = "drain" /\ pc[t] \in {"read", "ready"}
    /\ RefuseRow(on[t])
    /\ Leave(t)
    /\ UNCHANGED <<bound, release, body, history>>

\* A bug: the claim trusts the row the drain read.
ClaimableStale(d) == row[d].phase # "absent"

Claimable(d) == row[d].phase = "queued"

\* dispatch_queued_delivery: queued -> dispatching under this generation.
Claim(t) ==
    /\ At(t, "drain", "ready")
    /\ \/ /\ Claimable(on[t])
          /\ row' = [row EXCEPT ![on[t]] = [phase |-> "dispatching", gen |-> held[t]]]
          /\ Goto(t, "claimed") /\ UNCHANGED locks
       \/ ~Claimable(on[t]) /\ Leave(t) /\ UNCHANGED row
    /\ UNCHANGED <<bound, release, body, history>>

\* After the claim the drain composes the agency text and the NOW context; when
\* that fails it calls the refusal of a queued row on a row it has claimed.
RefuseClaimed(t) ==
    /\ At(t, "drain", "claimed")
    /\ RefuseRow(on[t])
    /\ Leave(t)
    /\ UNCHANGED <<bound, release, body, history>>

\* SessionLane::prompt: begin_turn, then the write.  A failed write leaves the
\* turn begun; the adapter may also refuse before begin_turn.
Dispatch(t) ==
    /\ pc[t] = "claimed"
    /\ \/ /\ alive /\ turn = None
          /\ turn' = [of |-> on[t], gen |-> held[t]]
          /\ sent' = [sent EXCEPT ![on[t]] = @ + 1]
          /\ \E p \in {"accepted", "rejected"} : Goto(t, p)
       \/ Goto(t, "rejected") /\ UNCHANGED <<turn, sent>>
    /\ UNCHANGED <<journal, resident, alive, ending, locks, credit>>

\* A bug: the transport's own word is written as the phase.
AckPhaseRaw(p) == p

AckPhase(p) == IF p = "accepted" THEN "submitted" ELSE "uncertain"

\* delivery_ack; when the journal cannot be written the row stays as it is.
Ack(t) ==
    /\ pc[t] \in {"accepted", "rejected"}
    /\ AckRow(on[t], AckPhase(pc[t])) \/ UNCHANGED row
    /\ Leave(t)
    /\ UNCHANGED <<bound, release, body, history>>

\* submit: the prompt leaves inside the journal's writer transaction.  No
\* delivery row is read.
Submit(t) ==
    /\ At(t, "prompt", "locked") /\ alive /\ turn = None
    /\ turn' = [of |-> Person, gen |-> held[t]]
    /\ Leave(t)
    /\ UNCHANGED <<journal, resident, alive, ending, history>>

-----------------------------------------------------------------------------
(* release_native: stop the exact idle body a caller names. *)

Release(t) ==
    /\ resident # NoGen /\ release[resident] = "none"
    /\ Start(t, "release", None)

ReleaseLock(t) ==
    /\ At(t, "release", "borrowed") /\ operations = None
    /\ operations' = t
    /\ Goto(t, "locked")
    /\ UNCHANGED <<journal, body, agency, history>>

Leased == \E t \in Thread : job[t] = "release" /\ pc[t] \notin {"borrowed", "locked"}

\* The lane must be idle and the startup lease free; the resident leaves the
\* map and the mutex is dropped.
Remove(t) ==
    /\ At(t, "release", "locked")
    /\ \/ /\ turn = None /\ ~Leased /\ ~Recovery /\ resident = held[t]
          /\ resident' = NoGen
          /\ operations' = None
          /\ Goto(t, "removed") /\ UNCHANGED agency
       \/ Leave(t) /\ UNCHANGED resident
    /\ UNCHANGED <<journal, alive, turn, ending, history>>

Borrowed(t) == \E u \in Thread \ {t} : held[u] # NoGen

\* Arc::try_unwrap, then reserve_native_release.  Either failing puts the
\* resident back.
ReserveRelease(t) ==
    /\ At(t, "release", "removed")
    /\ \/ /\ ~Borrowed(t) /\ bound = held[t] /\ ~Pending /\ ~Recovery
          /\ release' = [release EXCEPT ![held[t]] = "requested"]
          /\ Goto(t, "intended") /\ UNCHANGED <<resident, locks>>
       \/ /\ Borrowed(t) \/ bound # held[t] \/ Pending \/ Recovery
          /\ resident' = held[t]
          /\ Leave(t) /\ UNCHANGED release
    /\ UNCHANGED <<row, bound, alive, turn, ending, history>>

\* host.shutdown: a confirmed stop has joined the reader, which journals first.
Shutdown(t) ==
    /\ At(t, "release", "intended")
    /\ \/ ending = None /\ Goto(t, "stopped")
       \/ Goto(t, "unstopped")
    /\ alive' = FALSE
    /\ UNCHANGED <<journal, resident, turn, ending, locks, history>>

\* finish_native_release; when it cannot be written only the intent remains.
FinishRelease(t) ==
    /\ job[t] = "release" /\ pc[t] \in {"stopped", "unstopped"}
    /\ \/ release' = [release EXCEPT ![held[t]] =
                         IF pc[t] = "stopped" THEN "confirmed" ELSE "unconfirmed"]
       \/ UNCHANGED release
    /\ Leave(t)
    /\ UNCHANGED <<row, bound, body, history>>

-----------------------------------------------------------------------------
(* The host, the owner and the operator. *)

\* A fresh body, or the reconnection of one whose bridge has stopped; when its
\* process would not end its reader is not joined, and may journal later.
Open ==
    /\ bound < MaxGen /\ agency = None /\ ~Leased /\ ~Recovery
    /\ resident = NoGen \/ (~alive /\ \A t \in Thread : held[t] = NoGen)
    /\ bound' = bound + 1 /\ resident' = bound + 1
    /\ alive' = TRUE /\ turn' = None
    /\ UNCHANGED <<row, release, ending, locks, threads, history>>

\* route: the provider's terminal signal closes the turn.
CloseTurn ==
    /\ alive /\ turn # None /\ ending = None
    /\ ending' = turn /\ turn' = None
    /\ UNCHANGED <<journal, resident, alive, locks, threads, history>>

\* Journal::append of TurnEnded, after the host's lock.  A journal that cannot
\* be written stops the reader's own bridge.
JournalEnd ==
    /\ ending # None /\ ending' = None
    /\ \/ (\E stop \in Stops : FinishTurn(ending, stop)) /\ UNCHANGED alive
       \/ alive' = (alive /\ ending.gen # bound) /\ UNCHANGED <<row, credit>>
    /\ UNCHANGED <<bound, release, resident, turn, locks, threads, sent>>

\* state_stop_bridge: the turn in flight fails and is journaled under the
\* host's lock (an error there is dropped).  The reader may be between a turn
\* it closed and its record.
StopBridge ==
    /\ alive
    /\ alive' = FALSE /\ turn' = None
    /\ IF turn = None THEN UNCHANGED <<row, credit>>
       ELSE FinishTurn(turn, "failed") \/ UNCHANGED <<row, credit>>
    /\ UNCHANGED <<bound, release, resident, ending, locks, threads, sent>>

\* The owner process dies: only the journal is left.
Crash ==
    /\ resident' = NoGen /\ alive' = FALSE /\ turn' = None /\ ending' = None
    /\ operations' = None /\ agency' = None
    /\ pc' = [t \in Thread |-> "idle"] /\ job' = [t \in Thread |-> "none"]
    /\ on' = [t \in Thread |-> None] /\ held' = [t \in Thread |-> NoGen]
    /\ UNCHANGED <<journal, history>>

\* encounter-delivery-reconcile: compare and set on the phase the operator read.
Reconcile(d) ==
    /\ row[d].phase \in Unresolved
    /\ row' = [row EXCEPT ![d].phase = "reconciled"]
    /\ UNCHANGED <<bound, release, body, locks, threads, history>>

Advance(t) ==
    \/ DrainBorrow(t) \/ Lock(t) \/ GiveUp(t) \/ CheckReady(t) \/ Queue(t)
    \/ Reserve(t) \/ RefuseUnclaimed(t) \/ Claim(t) \/ RefuseClaimed(t)
    \/ Dispatch(t) \/ Ack(t) \/ Submit(t) \/ ReleaseLock(t) \/ Remove(t)
    \/ ReserveRelease(t) \/ Shutdown(t) \/ FinishRelease(t)

Next ==
    \/ \E t \in Thread :
          \/ \E d \in Delivery : Send(t, d) \/ Drain(t, d)
          \/ Prompt(t) \/ Release(t) \/ Advance(t)
    \/ Open \/ CloseTurn \/ JournalEnd \/ StopBridge \/ Crash
    \/ \E d \in Delivery : Reconcile(d)

Spec == Init /\ [][Next]_vars

-----------------------------------------------------------------------------
(* Properties. *)

\* Every variable keeps its shape.
TypeOK ==
    /\ row \in [Delivery -> [phase : Phase, gen : 0 .. MaxGen]]
    /\ bound \in 0 .. MaxGen
    /\ release \in [Generation -> {"none", "requested", "unconfirmed", "confirmed"}]
    /\ resident \in 0 .. MaxGen /\ alive \in BOOLEAN
    /\ turn \in Turns \cup {None} /\ ending \in Turns \cup {None}
    /\ operations \in Thread \cup {None} /\ agency \in Thread \cup {None}
    /\ pc \in [Thread -> {"idle", "read", "borrowed", "locked", "absent", "ready",
                          "claimed", "accepted", "rejected", "removed", "intended",
                          "stopped", "unstopped"}]
    /\ job \in [Thread -> {"none", "send", "drain", "prompt", "release"}]
    /\ on \in [Thread -> Delivery \cup {None}]
    /\ held \in [Thread -> 0 .. MaxGen]
    /\ sent \in [Delivery -> Nat]
    /\ credit \in [Delivery -> Turns \cup {None}]

\* A session has at most one delivery waiting, dispatched or unresolved, across
\* live sends, queues, drains and restarts (encounter_delivery_active).
OneActive ==
    \A d, e \in Delivery : row[d].phase \in Active /\ row[e].phase \in Active => d = e

\* However senders retry, drains overlap and owners restart, the body is
\* prompted with a delivery at most once ("never resends, including after owner
\* restart", CAW-NATIVE-DELIVERY.md).
SentAtMostOnce == \A d \in Delivery : sent[d] <= 1

\* A delivery recorded as refused at drain was never put to the body, and is
\* not later (refuse_queued_delivery: "must never be delivered").
RefusedNeverSent == \A d \in Delivery : row[d].phase = "refused" => sent[d] = 0

\* While a release of the body is intended or its cleanup unconfirmed, no
\* delivery waits or runs (reserve_native_release and reserve_with_phase
\* exclude each other).
ReleaseExcludesDelivery == Recovery => ~Pending

\* A settled delivery stays as it settled: a late acknowledgement, a second
\* drain, a reconcile or a reply changes nothing (reply against delivery_ack).
SettledStays ==
    [][\A d \in Delivery : row[d].phase \in Settled => row'[d] = row[d]]_vars

\* A reply settles only a delivery of its own generation, and one delivery's
\* reply never settles another, unless the first had already been settled by
\* something else: the operator, or another turn's end.
RepliesNotCrossed ==
    \A d \in Delivery : credit[d] # None =>
        /\ row[d].gen = credit[d].gen
        /\ \A e \in Delivery \ {d} : credit[d].of = e =>
               row[e].phase = "reconciled" \/ credit[e] \notin {None, credit[d]}

\* "`returned` means the native host observed a completed provider turn"
\* (docs/implementation/CAW-NATIVE-DELIVERY.md:103).  Only the part that cannot be
\* disputed: it was put to the body at all.
ReturnedWasSent == \A d \in Delivery : row[d].phase = "returned" => sent[d] # 0

\* "A recipient-side admission or preparation check failed after the queue, so the
\* message must never be delivered": the row becomes failed with the reason and
\* its slot is free (encounter_delivery.rs:225-229), the row the drain has
\* claimed too.
RefusalRecorded ==
    [][\A t \in Thread :
          RefuseClaimed(t) /\ row[on[t]].phase = "dispatching" => row'[on[t]].phase = "refused"]_vars

=============================================================================
