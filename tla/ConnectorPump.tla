-------------------------- MODULE ConnectorPump --------------------------
(***************************************************************************)
(* The worker of one connector (aikit-adapters gateway_connector_pump.rs)  *)
(* between the gateway's kernel (gateway_runtime.rs), the state file       *)
(* (gateway_service.rs) and the platform.                                  *)
(*                                                                         *)
(* The kernel lives in memory under one lock; whoever changes it writes    *)
(* the whole snapshot before letting the lock go, except for the callers   *)
(* that do not, and the write may fail.  The outbound queue is in memory   *)
(* only, under a lock of its own.  The service dies anywhere, or is        *)
(* stopped, and starts again from the snapshot.                            *)
(*                                                                         *)
(* Callers prepare outbound operations in four ways: a turn's answer       *)
(* pushes after the lock, a control line under it, a tool line or typing   *)
(* mark without writing the snapshot, and a carrier's own operation before *)
(* writing it.  An operation's reference is the kernel's cursor; its       *)
(* number counts what was ever prepared.                                   *)
(***************************************************************************)
EXTENDS Integers, Sequences, FiniteSets, SequencesExt

CONSTANTS Caller,
          Event,       \* inbound events, by their native identity
          MaxOps,      \* bound: operations prepared
          MaxFailures, \* MAX_EVENT_FAILURES
          MaxFaults,   \* bound: failed writes, ended connections, stops and crashes
          None

Number == 1 .. MaxOps
Op     == [ref : Number, number : Number]
Kind   == {"answer", "line", "tool", "carrier"}
Kernel == [next : 1 .. MaxOps + 1, pending : SUBSET Op, receipts : SUBSET Op,
           journal : SUBSET Event]

ASSUME BoundsAssumption ==
    MaxOps \in Nat /\ MaxFailures \in Nat \ {0} /\ MaxFaults \in Nat
ASSUME NoneAssumption == None \notin Op /\ None \notin Event /\ None \notin Caller /\ None # "pump"
ASSUME CallerAssumption == "pump" \notin Caller

VARIABLES
    mem, disk,   \* the kernel, and the snapshot in the state file
    lock,        \* who holds the kernel's lock, or None
    up, shutdown,
    queue,       \* the connector's outbound queue
    paused,      \* the pump's admission control
    pc, hand,    \* the worker: its place, and the operation or event it holds
    seen,        \* native events of this connection
    failures,    \* consecutive failures of next_event
    kind, holds, \* a caller: how it prepares, and the operation it prepared
    step,        \* a caller's place
    sent,        \* history: how often the platform was given an operation
    heard,       \* history: how often this connection had an event journaled
    made,        \* operations prepared so far
    faults

kernel == <<mem, disk, lock>>
worker == <<pc, hand, seen, failures, heard>>
caller == <<kind, holds, step, made>>
vars   == <<kernel, up, shutdown, queue, paused, worker, caller, sent, faults>>

Fresh == [next |-> 1, pending |-> {}, receipts |-> {}, journal |-> {}]

\* A process that has just started.
Started ==
    /\ lock = None /\ up = TRUE /\ shutdown = FALSE /\ queue = <<>> /\ paused = FALSE
    /\ pc = "connect" /\ hand = None /\ seen = {} /\ failures = 0
    /\ heard = [e \in Event |-> 0]
    /\ kind = [c \in Caller |-> None] /\ holds = [c \in Caller |-> None]
    /\ step = [c \in Caller |-> "idle"]

Init ==
    /\ mem = Fresh /\ disk = Fresh /\ Started
    /\ sent = [n \in Number |-> 0] /\ made = 0 /\ faults = 0

Fault == faults < MaxFaults /\ faults' = faults + 1

\* persist_gateway_state: the snapshot as a whole, or an error.
Persists ==
    \/ disk' = mem /\ UNCHANGED faults
    \/ UNCHANGED disk /\ Fault

-----------------------------------------------------------------------------
(* Callers. *)

Stands(c, l) == up /\ step[c] = l
Moves(c, l)  == step' = [step EXCEPT ![c] = l]
Rests(c) ==
    /\ Moves(c, "idle")
    /\ kind' = [kind EXCEPT ![c] = None] /\ holds' = [holds EXCEPT ![c] = None]
Pushes(o) == queue' = Append(queue, o)

\* prepare_operation
Prepare(c, k) ==
    LET o == [ref |-> mem.next, number |-> made + 1]
    IN  /\ Stands(c, "idle") /\ lock = None /\ made < MaxOps /\ made' = made + 1
        /\ mem' = [mem EXCEPT !.next = @ + 1, !.pending = @ \cup {o}]
        /\ kind' = [kind EXCEPT ![c] = k] /\ holds' = [holds EXCEPT ![c] = o]
        /\ IF k = "tool" THEN Moves(c, "push") /\ UNCHANGED lock
                         ELSE Moves(c, "persist") /\ lock' = c
        /\ IF k = "carrier" THEN Pushes(o) ELSE UNCHANGED queue
        /\ UNCHANGED <<disk, up, shutdown, paused, worker, sent, faults>>

\* The snapshot, and what the caller does under the lock after it.
Saved(c) ==
    /\ Stands(c, "persist") /\ disk' = mem /\ lock' = None
    /\ CASE kind[c] = "answer"  -> Moves(c, "push") /\ UNCHANGED <<kind, holds, queue>>
         [] kind[c] = "line"    -> Pushes(holds[c]) /\ Rests(c)
         [] kind[c] = "carrier" -> Rests(c) /\ UNCHANGED queue
    /\ UNCHANGED <<mem, up, shutdown, paused, worker, made, sent, faults>>

\* The write fails: the caller has its error, and the kernel its operation.
SaveFails(c) ==
    /\ Stands(c, "persist") /\ Fault /\ lock' = None /\ Rests(c)
    /\ UNCHANGED <<mem, disk, up, shutdown, queue, paused, worker, made, sent>>

Push(c) ==
    /\ Stands(c, "push") /\ Pushes(holds[c]) /\ Rests(c)
    /\ UNCHANGED <<kernel, up, shutdown, paused, worker, made, sent, faults>>

\* Pause and resume.
Pause ==
    /\ up /\ paused' = ~paused
    /\ UNCHANGED <<kernel, up, shutdown, queue, worker, caller, sent, faults>>

-----------------------------------------------------------------------------
(* The worker: run_connector_worker. *)

At(l)   == up /\ pc = l
Goto(l) == pc' = l /\ UNCHANGED <<hand, seen, failures, heard>>

\* A new connection knows no event.
Connect ==
    /\ At("connect") /\ ~shutdown /\ lock = None
    /\ pc' = "top" /\ seen' = {} /\ failures' = 0 /\ heard' = [e \in Event |-> 0]
    /\ disk' = mem
    /\ UNCHANGED <<mem, lock, hand, up, shutdown, queue, paused, caller, sent, faults>>

\* The kernel refuses the connector's hello, or it cannot be written: the worker
\* waits for the shutdown.
Park ==
    /\ At("connect") /\ ~shutdown /\ lock = None /\ Fault /\ Goto("parked")
    /\ UNCHANGED <<kernel, up, shutdown, queue, paused, caller, sent>>

Ends ==
    /\ \/ At("connect") \/ At("top") \/ At("parked")
    /\ shutdown /\ Goto("ended")
    /\ UNCHANGED <<kernel, up, shutdown, queue, paused, caller, sent, faults>>

\* A bug: a paused worker goes back to sleep before the outbound queue.
TopUnpaused ==
    /\ At("top") /\ ~shutdown /\ Goto(IF paused THEN "top" ELSE "serve")
    /\ UNCHANGED <<kernel, up, shutdown, queue, paused, caller, sent, faults>>
Top ==
    /\ At("top") /\ ~shutdown /\ Goto("serve")
    /\ UNCHANGED <<kernel, up, shutdown, queue, paused, caller, sent, faults>>

\* try_pop, until the queue is empty, whatever the shutdown flag says.
Pop ==
    /\ At("serve") /\ queue # <<>>
    /\ hand' = Head(queue) /\ queue' = Tail(queue) /\ pc' = "execute"
    /\ UNCHANGED <<kernel, up, shutdown, paused, seen, failures, heard, caller, sent, faults>>

\* execute_and_record: the platform has it, or refuses it; there is a receipt.
Execute ==
    /\ At("execute") /\ Goto("record")
    /\ \/ sent' = [sent EXCEPT ![hand.number] = @ + 1]
       \/ UNCHANGED sent
    /\ UNCHANGED <<kernel, up, shutdown, queue, paused, caller, faults>>

\* record_delivery; an operation the kernel does not know is an error.
Record ==
    /\ At("record") /\ lock = None
    /\ IF \E o \in mem.pending : o.ref = hand.ref
       THEN /\ mem' = [mem EXCEPT !.pending = {o \in @ : o.ref # hand.ref},
                                  !.receipts = @ \cup {hand}]
            /\ lock' = "pump" /\ pc' = "recording"
       ELSE UNCHANGED <<mem, lock>> /\ pc' = "serve"
    /\ hand' = None
    /\ UNCHANGED <<disk, up, shutdown, queue, paused, seen, failures, heard, caller, sent, faults>>

Recorded ==
    /\ At("recording") /\ Persists /\ lock' = None /\ Goto("serve")
    /\ UNCHANGED <<mem, up, shutdown, queue, paused, caller, sent>>

\* record_health, written as every command is, or not.
Reports == lock = None /\ disk' \in {disk, mem} /\ UNCHANGED <<mem, lock>>

Health ==
    /\ At("serve") /\ queue = <<>> /\ Goto(IF paused THEN "top" ELSE "poll")
    /\ Reports \/ UNCHANGED kernel
    /\ UNCHANGED <<up, shutdown, queue, paused, caller, sent, faults>>

\* A bug: only the last key is kept.
NotedLast(e) == {e}
Noted(e) == seen \cup {e}

\* next_event brings an event, which counts as seen before it is ingested.
Arrives(e) ==
    /\ At("poll") /\ failures' = 0
    /\ IF e \in seen THEN pc' = "top" /\ UNCHANGED <<hand, seen>>
                     ELSE pc' = "ingest" /\ hand' = e /\ seen' = Noted(e)
    /\ UNCHANGED <<kernel, up, shutdown, queue, paused, heard, caller, sent, faults>>

Quiet ==
    /\ At("poll") /\ Goto("top")
    /\ UNCHANGED <<kernel, up, shutdown, queue, paused, caller, sent, faults>>

TooMany(n) == n >= MaxFailures

\* next_event fails; only an event resets the count.
PollFails ==
    /\ At("poll") /\ failures' = failures + 1 /\ Reports
    /\ IF TooMany(failures + 1) THEN Fault /\ pc' = "connect"
                                ELSE UNCHANGED faults /\ pc' = "top"
    /\ UNCHANGED <<up, shutdown, queue, paused, hand, seen, heard, caller, sent>>

StreamEnds ==
    /\ At("poll") /\ Fault /\ Goto("connect") /\ Reports
    /\ UNCHANGED <<up, shutdown, queue, paused, caller, sent>>

\* The kernel appends the event, or it does not.  In what order is the subject of
\* StreamSubscription.
Ingest ==
    /\ At("ingest") /\ lock = None /\ hand' = None
    /\ \/ /\ mem' = [mem EXCEPT !.journal = @ \cup {hand}]
          /\ heard' = [heard EXCEPT ![hand] = @ + 1]
          /\ lock' = "pump" /\ pc' = "ingesting"
       \/ UNCHANGED <<mem, heard, lock>> /\ pc' = "top"
    /\ UNCHANGED <<disk, up, shutdown, queue, paused, seen, failures, caller, sent, faults>>

Ingested ==
    /\ At("ingesting") /\ Persists /\ lock' = None /\ Goto("top")
    /\ UNCHANGED <<mem, up, shutdown, queue, paused, caller, sent>>

-----------------------------------------------------------------------------
(* The service. *)

Stop ==
    /\ up /\ ~shutdown /\ Fault /\ shutdown' = TRUE
    /\ UNCHANGED <<kernel, up, queue, paused, worker, caller, sent>>

\* What is left of a process that is gone.
Gone ==
    /\ up' = FALSE /\ lock' = None /\ shutdown' = FALSE /\ queue' = <<>> /\ paused' = FALSE
    /\ pc' = "connect" /\ hand' = None /\ seen' = {} /\ failures' = 0
    /\ heard' = [e \in Event |-> 0]
    /\ kind' = [c \in Caller |-> None] /\ holds' = [c \in Caller |-> None]
    /\ step' = [c \in Caller |-> "idle"]

\* The worker is joined, then the final state is written, if no carrier failed.
Exit ==
    /\ At("ended") /\ lock = None /\ Gone
    /\ disk' = mem \/ UNCHANGED disk
    /\ UNCHANGED <<mem, made, sent, faults>>

Crash ==
    /\ up /\ Fault /\ Gone
    /\ UNCHANGED <<mem, disk, made, sent>>

\* A bug: what is pending goes out again.
RestartResends ==
    /\ ~up /\ up' = TRUE /\ mem' = disk
    /\ queue' \in SetToSeqs(disk.pending)
    /\ UNCHANGED <<disk, lock, shutdown, paused, worker, caller, sent, faults>>

\* from_snapshot: what is pending stays pending, and nothing is queued.
Restart ==
    /\ ~up /\ up' = TRUE /\ mem' = disk
    /\ UNCHANGED <<disk, lock, shutdown, queue, paused, worker, caller, sent, faults>>

-----------------------------------------------------------------------------
Polls == Quiet \/ PollFails \/ StreamEnds \/ \E e \in Event : Arrives(e)
Works ==
    \/ Ends \/ Top \/ Pop \/ Execute \/ Record \/ Recorded \/ Health \/ Polls
    \/ Ingest \/ Ingested
Calls(c) == Saved(c) \/ SaveFails(c) \/ Push(c)

Next ==
    \/ Works \/ Connect \/ Park \/ Pause \/ Stop \/ Exit \/ Crash \/ Restart
    \/ \E c \in Caller : Calls(c) \/ \E k \in Kind : Prepare(c, k)

Spec == Init /\ [][Next]_vars
\* Threads go on, a platform that is called answers, and a connector that tries
\* again for ever is at last let in.
FairSpec ==
    /\ Spec /\ WF_vars(Works) /\ WF_vars(Exit) /\ SF_vars(Connect)
    /\ \A c \in Caller : WF_vars(Calls(c))

-----------------------------------------------------------------------------
(* Properties. *)

\* Every variable keeps its type.
TypeOK ==
    /\ mem \in Kernel /\ disk \in Kernel
    /\ lock \in Caller \cup {"pump", None}
    /\ up \in BOOLEAN /\ shutdown \in BOOLEAN /\ paused \in BOOLEAN
    /\ queue \in Seq(Op)
    /\ pc \in {"connect", "parked", "ended", "top", "serve", "execute", "record", "recording",
               "poll", "ingest", "ingesting"}
    /\ hand \in Op \cup Event \cup {None}
    /\ seen \subseteq Event /\ failures \in 0 .. MaxFailures
    /\ kind \in [Caller -> Kind \cup {None}] /\ holds \in [Caller -> Op \cup {None}]
    /\ step \in [Caller -> {"idle", "persist", "push"}]
    /\ sent \in [Number -> Nat] /\ heard \in [Event -> Nat]
    /\ made \in 0 .. MaxOps /\ faults \in 0 .. MaxFaults

\* An operation is never sent again, whatever is written, lost or restarted: a
\* send that may have reached the platform cannot be told from one that did not.
SentAtMostOnce == \A n \in Number : sent[n] <= 1

\* One connection journals an event once, however often the platform repeats it
\* and whatever the write of the snapshot answers.
JournaledOnce == \A e \in Event : heard[e] <= 1

\* Whatever is queued is taken off the queue, paused or not, unless the connector
\* is parked or the process goes.
QueueServed ==
    \A n \in Number :
        (\E i \in DOMAIN queue : queue[i].number = n)
            ~> (pc = "parked" \/ \A i \in DOMAIN queue : queue[i].number # n)

=============================================================================
