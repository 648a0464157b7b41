------------------------ MODULE ConversationTurns ------------------------
(***************************************************************************)
(* The turn plane of one connector conversation: what becomes of an        *)
(* admitted message in aikit-adapters/src/gateway_conversation_engine.rs.  *)
(*                                                                         *)
(* Shared state: the kernel's binding of the conversation, whose route is  *)
(* bound anew by each New (generation after generation), and its journal,  *)
(* both under the kernel lock; the engine's in-flight turns, starting      *)
(* claims, queues and draining flag, under the engine lock; one slot per   *)
(* turn, out of which whoever waits first takes the outcome.  No step      *)
(* holds both locks but the ingress, which admits under both.              *)
(*                                                                         *)
(* Actors: the ingress, one worker thread per message that gets a turn,    *)
(* the harness, and the threads that carry Stop, New and the drain of a    *)
(* restart.  The harness runs one turn per lane, and a lane belongs to a   *)
(* generation.  What is sent to the connector is journaled in the same     *)
(* critical section, so an answer is its journal entry.                    *)
(***************************************************************************)
EXTENDS Integers, Sequences, FiniteSets, SequencesExt

CONSTANTS MaxMessages,   \* bound: inbound messages, named by their order of arrival
          Control,       \* threads that carry a control operation
          QueueLimit,    \* TURN_QUEUE_LIMIT
          MaxGeneration, \* bound: how far New may take the binding
          MaxControls,   \* bound: control operations begun
          None

Message    == 1 .. MaxMessages
Generation == 1 .. MaxGeneration
Outcome    == {"Replied", "Failed", "Interrupted"}

ASSUME BoundsAssumption ==
    /\ MaxGeneration \in Nat \ {0} /\ MaxMessages \in Nat
    /\ QueueLimit \in Nat /\ MaxControls \in Nat
ASSUME NoneAssumption == None \notin Message /\ None \notin Outcome /\ None \notin Generation

VARIABLES
    bound,     \* the binding's generation
    genOf,     \* the generation a message was admitted under, or None
    answers,   \* what was journaled and sent in answer to a message
    flight,    \* in_flight: a generation's registered turn, or None
    starting,  \* generations whose plane is claimed and not yet registered
    queue,     \* queued
    draining,
    up,        \* the service runs
    worker,    \* where a message's worker is
    held,      \* the outcome it brought from the wait
    next,      \* the queued message it popped
    streamed,  \* messages whose reply was delivered as a segment
    lane,      \* the turn the harness runs for a generation, or None
    ended,     \* how the harness ended a turn, or None
    taken,     \* turns whose slot was emptied
    cancelled, \* running turns the harness was told to cancel
    said,      \* how a stop, a reset, a refusal or a drain named a message
    ctl, arg,  \* a control thread: its place, and the generation it is about
    turns, got,\* the turns a drain has to settle, and the outcome it got
    orders     \* control operations begun

kernel  == <<bound, genOf, answers>>
plane   == <<flight, starting, queue, draining>>
work    == <<worker, held, next, streamed>>
harness == <<lane, ended, taken, cancelled>>
control == <<ctl, arg, turns, got, orders>>
vars    == <<kernel, plane, up, work, harness, said, control>>

Init ==
    /\ bound = 1 /\ genOf = [m \in Message |-> None] /\ answers = [m \in Message |-> <<>>]
    /\ flight = [g \in Generation |-> None] /\ starting = {} /\ draining = FALSE /\ up = TRUE
    /\ queue = [g \in Generation |-> <<>>]
    /\ worker = [m \in Message |-> "none"] /\ held = [m \in Message |-> None]
    /\ next = [m \in Message |-> None] /\ streamed = {}
    /\ lane = [g \in Generation |-> None] /\ ended = [m \in Message |-> None]
    /\ taken = {} /\ cancelled = {} /\ said = [m \in Message |-> "nothing"]
    /\ ctl = [c \in Control |-> "idle"] /\ arg = [c \in Control |-> None]
    /\ turns = [c \in Control |-> {}] /\ got = [c \in Control |-> None] /\ orders = 0

At(m, place)   == up /\ worker[m] = place
Goto(m, place) == worker' = [worker EXCEPT ![m] = place]

-----------------------------------------------------------------------------
(* The ingress: the kernel appends, and the engine admits, refuses or        *)
(* ignores under the same locks.                                             *)

\* A bug: a claim that is not yet registered does not count.
BusyInFlight(g) == flight[g] # None
Busy(g) == flight[g] # None \/ g \in starting

QueueFull(g) == Len(queue[g]) >= QueueLimit

Admit(m) ==
    IF Busy(bound)
    THEN /\ UNCHANGED starting
         /\ IF QueueFull(bound)
            THEN /\ said' = [said EXCEPT ![m] = "queue_full"]
                 /\ Goto(m, "done") /\ UNCHANGED queue
            ELSE /\ queue' = [queue EXCEPT ![bound] = Append(@, m)]
                 /\ Goto(m, "queued") /\ UNCHANGED said
    ELSE starting' = starting \cup {bound} /\ Goto(m, "prompt") /\ UNCHANGED <<queue, said>>

Ingest(m) ==
    /\ At(m, "none") /\ \A n \in 1 .. m - 1 : worker[n] # "none"
    /\ genOf' = [genOf EXCEPT ![m] = bound]
    /\ IF draining THEN Goto(m, "ignored") /\ UNCHANGED <<starting, queue, said>>
                   ELSE Admit(m)
    /\ UNCHANGED <<bound, answers, flight, draining, up, held, next, streamed, harness, control>>

-----------------------------------------------------------------------------
(* run_turn, the worker of one message. *)

Gen(m)       == genOf[m]
Available(m) == ended[m] # None /\ m \notin taken
Take(m)      == taken' = taken \cup {m}
\* The handle's interrupt reaches whatever turn its lane runs.
InterruptLane(g) == cancelled' = cancelled \cup ({lane[g]} \ {None})

\* source.prompt
Prompt(m) ==
    /\ At(m, "prompt")
    /\ \/ /\ lane[Gen(m)] = None /\ lane' = [lane EXCEPT ![Gen(m)] = m]
          /\ Goto(m, "register") /\ UNCHANGED held
       \/ Goto(m, "release") /\ held' = [held EXCEPT ![m] = "Failed"] /\ UNCHANGED lane
    /\ UNCHANGED <<kernel, plane, up, next, streamed, ended, taken, cancelled, said, control>>

\* pop_next_claimed, with the starting claims as they are at that moment.
Pop(m, claims) ==
    LET g == Gen(m)
    IN  IF draining \/ flight[g] # None \/ g \in claims \/ queue[g] = <<>>
        THEN /\ starting' = claims /\ UNCHANGED <<queue, next>>
             /\ Goto(m, IF held[m] = None THEN "done" ELSE "answer")
        ELSE /\ starting' = claims \cup {g} /\ queue' = [queue EXCEPT ![g] = Tail(@)]
             /\ next' = [next EXCEPT ![m] = Head(queue[g])]
             /\ worker' = [worker EXCEPT ![m] = "spawn", ![Head(queue[g])] = "popped"]

\* A bug: the claim is let go and the queue left to the next message.
ReleaseOnly(m) ==
    /\ At(m, "release") /\ starting' = starting \ {Gen(m)} /\ Goto(m, "answer")
    /\ UNCHANGED <<kernel, flight, queue, draining, up, held, next, streamed, harness, said, control>>

\* release_starting_and_advance, after a failed start.
Release(m) ==
    /\ At(m, "release") /\ Pop(m, starting \ {Gen(m)})
    /\ UNCHANGED <<kernel, flight, draining, up, held, streamed, harness, said, control>>

\* spawn_turn_for, with the binding as it is now: a popped message whose binding
\* is gone is let fall, its claim with it.
Spawn(m) ==
    /\ At(m, "spawn")
    /\ worker' = [worker EXCEPT
           ![m] = IF held[m] = None THEN "done" ELSE "answer",
           ![next[m]] = IF bound = Gen(next[m]) THEN "prompt" ELSE "fell"]
    /\ next' = [next EXCEPT ![m] = None]
    /\ UNCHANGED <<kernel, plane, up, held, streamed, harness, said, control>>

\* Registering the turn, unless a drain has begun.
Register(m) ==
    /\ At(m, "register") /\ starting' = starting \ {Gen(m)}
    /\ IF draining
       THEN Goto(m, "refused") /\ UNCHANGED flight
       ELSE Goto(m, "await") /\ flight' = [flight EXCEPT ![Gen(m)] = m]
    /\ UNCHANGED <<kernel, queue, draining, up, held, next, streamed, harness, said, control>>

Refuse(m) ==
    /\ At(m, "refused") /\ InterruptLane(Gen(m)) /\ Goto(m, "grace")
    /\ UNCHANGED <<kernel, plane, up, held, next, streamed, lane, ended, taken, said, control>>

\* The outcome, or the interruption when the grace is over.
AfterGrace(m) ==
    /\ At(m, "grace") /\ Goto(m, "answer")
    /\ IF Available(m) THEN Take(m) /\ held' = [held EXCEPT ![m] = ended[m]]
                       ELSE held' = [held EXCEPT ![m] = "Interrupted"] /\ UNCHANGED taken
    /\ UNCHANGED <<kernel, plane, up, next, streamed, lane, ended, cancelled, said, control>>

-----------------------------------------------------------------------------
(* await_outcome, and what follows it. *)

Journal(m, what) ==
    answers' = [answers EXCEPT ![m] = IF bound = Gen(m) THEN Append(@, what) ELSE @]

\* send_segment: the reply, delivered while the turn runs.
Stream(m) ==
    /\ At(m, "await") /\ m \notin streamed /\ bound = Gen(m)
    /\ Journal(m, "segment") /\ streamed' = streamed \cup {m}
    /\ UNCHANGED <<bound, genOf, plane, up, worker, held, next, harness, said, control>>

\* The wait ends with the outcome, or with the news that a drain took it.
Await(m) ==
    /\ At(m, "await") /\ ended[m] # None
    /\ IF m \in taken THEN held' = [held EXCEPT ![m] = "Interrupted"] /\ UNCHANGED taken
                      ELSE held' = [held EXCEPT ![m] = ended[m]] /\ Take(m)
    /\ Goto(m, "remove")
    /\ UNCHANGED <<kernel, plane, up, next, streamed, lane, ended, cancelled, said, control>>

\* Whoever removes the record owns the recording.
Unregister(m) ==
    /\ At(m, "remove") /\ flight' = [flight EXCEPT ![Gen(m)] = None]
    /\ IF flight[Gen(m)] # None
       THEN Goto(m, "record") /\ UNCHANGED held
       ELSE Goto(m, "done") /\ held' = [held EXCEPT ![m] = None]
    /\ UNCHANGED <<kernel, starting, queue, draining, up, next, streamed, harness, said, control>>

\* A bug: whatever was streamed counts as the answer.
StreamedAnyEnd(m) == m \in streamed
FullyStreamed(m) == m \in streamed /\ held[m] = "Replied"

Record(m) ==
    /\ At(m, "record")
    /\ IF FullyStreamed(m) THEN UNCHANGED answers ELSE Journal(m, held[m])
    /\ held' = [held EXCEPT ![m] = None] /\ Goto(m, "advance")
    /\ UNCHANGED <<bound, genOf, plane, up, next, streamed, harness, said, control>>

\* advance_queue
Advance(m) ==
    /\ At(m, "advance") /\ Pop(m, starting)
    /\ UNCHANGED <<kernel, flight, draining, up, held, streamed, harness, said, control>>

\* record_outcome of a turn that failed to start or was refused by the drain.
Answer(m) ==
    /\ At(m, "answer") /\ Journal(m, held[m]) /\ Goto(m, "done")
    /\ held' = [held EXCEPT ![m] = None]
    /\ UNCHANGED <<bound, genOf, plane, up, next, streamed, harness, said, control>>

-----------------------------------------------------------------------------
(* The harness: a turn ends once, as cancelled only when it was asked to.    *)

EndTurn(g, out) ==
    /\ up /\ lane[g] # None
    /\ out = "Interrupted" => lane[g] \in cancelled
    /\ ended' = [ended EXCEPT ![lane[g]] = out] /\ lane' = [lane EXCEPT ![g] = None]
    /\ cancelled' = cancelled \ {lane[g]}
    /\ UNCHANGED <<kernel, plane, up, work, taken, said, control>>

-----------------------------------------------------------------------------
(* Stop, New and the drain. *)

In(c, place)  == up /\ ctl[c] = place
To(c, place)  == ctl' = [ctl EXCEPT ![c] = place]
Order(c, place, what) ==
    /\ In(c, "idle") /\ orders < MaxControls /\ orders' = orders + 1
    /\ To(c, place) /\ arg' = [arg EXCEPT ![c] = what]
\* Back to idle; a control thread is forgotten with its operation.
Over(c) == To(c, "idle") /\ arg' = [arg EXCEPT ![c] = None]
SayAll(M, what) == said' = [m \in Message |-> IF m \in M THEN what ELSE said[m]]
Unqueue(M) == worker' = [m \in Message |-> IF m \in M THEN "done" ELSE worker[m]]

\* stop: the binding is looked up, and the plane read, under different locks.
Stop(c) ==
    /\ Order(c, "stop", bound)
    /\ UNCHANGED <<kernel, plane, up, work, harness, said, turns, got>>

DropQueue(g) ==
    LET M == Range(queue[g])
    IN  queue' = [queue EXCEPT ![g] = <<>>] /\ SayAll(M, "dropped") /\ Unqueue(M)

StopReads(c) ==
    /\ In(c, "stop") /\ DropQueue(arg[c])
    /\ IF flight[arg[c]] = None THEN Over(c) ELSE To(c, "stopping") /\ UNCHANGED arg
    /\ UNCHANGED <<kernel, flight, starting, draining, up, held, next, streamed, harness,
                   turns, got, orders>>

StopInterrupts(c) ==
    /\ In(c, "stopping") /\ InterruptLane(arg[c]) /\ Over(c)
    /\ UNCHANGED <<kernel, plane, up, work, lane, ended, taken, said, turns, got, orders>>

\* reset: the route is bound anew under the kernel lock, the queue dropped after.
New(c) ==
    /\ Order(c, "reset", bound) /\ bound < MaxGeneration /\ bound' = bound + 1
    /\ UNCHANGED <<genOf, answers, plane, up, work, harness, said, turns, got>>

NewDrops(c) ==
    /\ In(c, "reset") /\ DropQueue(arg[c]) /\ Over(c)
    /\ UNCHANGED <<kernel, flight, starting, draining, up, held, next, streamed, harness,
                   turns, got, orders>>

\* drain
Drain(c) ==
    /\ Order(c, "drain", None)
    /\ UNCHANGED <<kernel, plane, up, work, harness, said, turns, got>>

Queued   == UNION {Range(queue[g]) : g \in Generation}
InFlight == Range(flight) \ {None}

\* A bug: the in-flight turns are read, not taken.
DrainReads(c) ==
    /\ In(c, "drain") /\ draining' = TRUE
    /\ turns' = [turns EXCEPT ![c] = InFlight]
    /\ queue' = [g \in Generation |-> <<>>]
    /\ SayAll(Queued, "not_started") /\ Unqueue(Queued) /\ To(c, "wait")
    /\ UNCHANGED <<kernel, flight, starting, up, held, next, streamed, harness, arg, got, orders>>

DrainTakes(c) ==
    /\ In(c, "drain") /\ draining' = TRUE
    /\ turns' = [turns EXCEPT ![c] = InFlight] /\ flight' = [g \in Generation |-> None]
    /\ queue' = [g \in Generation |-> <<>>]
    /\ SayAll(Queued, "not_started") /\ Unqueue(Queued) /\ To(c, "wait")
    /\ UNCHANGED <<kernel, starting, up, held, next, streamed, harness, arg, got, orders>>

\* The turns are settled in the order of their bindings.
Turn(c) == CHOOSE m \in turns[c] : \A n \in turns[c] : genOf[m] <= genOf[n]

DrainWaits(c) ==
    /\ In(c, "wait") /\ turns[c] # {}
    /\ IF Available(Turn(c))
       THEN /\ Take(Turn(c)) /\ got' = [got EXCEPT ![c] = ended[Turn(c)]]
            /\ said' = [said EXCEPT ![Turn(c)] = "resolved"] /\ To(c, "record")
       ELSE To(c, "interrupt") /\ UNCHANGED <<taken, got, said>>
    /\ UNCHANGED <<kernel, plane, up, work, lane, ended, cancelled, arg, turns, orders>>

DrainInterrupts(c) ==
    /\ In(c, "interrupt") /\ InterruptLane(genOf[Turn(c)]) /\ To(c, "grace")
    /\ UNCHANGED <<kernel, plane, up, work, lane, ended, taken, said, arg, turns, got, orders>>

DrainAfterGrace(c) ==
    /\ In(c, "grace") /\ To(c, "record")
    /\ said' = [said EXCEPT ![Turn(c)] = "interrupted"]
    /\ IF Available(Turn(c))
       THEN Take(Turn(c)) /\ got' = [got EXCEPT ![c] = ended[Turn(c)]]
       ELSE got' = [got EXCEPT ![c] = "Interrupted"] /\ UNCHANGED taken
    /\ UNCHANGED <<kernel, plane, up, work, lane, ended, cancelled, arg, turns, orders>>

\* record_outcome, which is told of nothing that was streamed.
DrainRecords(c) ==
    /\ In(c, "record") /\ Journal(Turn(c), got[c])
    /\ turns' = [turns EXCEPT ![c] = @ \ {Turn(c)}] /\ To(c, "wait")
    /\ got' = [got EXCEPT ![c] = None]
    /\ UNCHANGED <<bound, genOf, plane, up, work, harness, said, arg, orders>>

\* A restart asked for by a carrier or by the system ends the service, one asked
\* for in the conversation does not.
DrainEnds(c) ==
    /\ In(c, "wait") /\ turns[c] = {} /\ To(c, "idle") /\ up' \in BOOLEAN
    /\ UNCHANGED <<kernel, plane, work, harness, said, arg, turns, got, orders>>

-----------------------------------------------------------------------------
Works(m) ==
    \/ Prompt(m) \/ Release(m) \/ Spawn(m) \/ Register(m) \/ Refuse(m) \/ AfterGrace(m)
    \/ Stream(m) \/ Await(m) \/ Unregister(m) \/ Record(m) \/ Advance(m) \/ Answer(m)
Carries(c) ==
    \/ StopReads(c) \/ StopInterrupts(c) \/ NewDrops(c) \/ DrainTakes(c) \/ DrainWaits(c)
    \/ DrainInterrupts(c) \/ DrainAfterGrace(c) \/ DrainRecords(c) \/ DrainEnds(c)
Asked(c) == Stop(c) \/ New(c) \/ Drain(c)
Ends(g)  == \E out \in Outcome : EndTurn(g, out)

Next ==
    \/ \E m \in Message : Ingest(m) \/ Works(m)
    \/ \E g \in Generation : Ends(g)
    \/ \E c \in Control : Asked(c) \/ Carries(c)

Spec == Init /\ [][Next]_vars
\* Threads go on, and the harness ends the turns it was given: here only that not
\* all of them stand still, which is weaker and enough.
FairSpec ==
    Spec /\ WF_vars(\/ \E m \in Message : Works(m)
                    \/ \E g \in Generation : Ends(g)
                    \/ \E c \in Control : Carries(c))

-----------------------------------------------------------------------------
(* Properties. *)

Place == {"none", "ignored", "queued", "popped", "prompt", "release", "spawn", "register",
          "refused", "grace", "await", "remove", "record", "advance", "answer", "done", "fell"}
Step  == {"idle", "stop", "stopping", "reset", "drain", "wait", "interrupt", "grace", "record"}
Word  == {"nothing", "queue_full", "dropped", "not_started", "resolved", "interrupted"}

\* Every variable keeps its type.
TypeOK ==
    /\ bound \in Generation /\ genOf \in [Message -> Generation \cup {None}]
    /\ answers \in [Message -> Seq(Outcome \cup {"segment"})]
    /\ flight \in [Generation -> Message \cup {None}] /\ starting \subseteq Generation
    /\ queue \in [Generation -> Seq(Message)]
    /\ \A g \in Generation : Len(queue[g]) <= QueueLimit
    /\ draining \in BOOLEAN /\ up \in BOOLEAN
    /\ worker \in [Message -> Place]
    /\ held \in [Message -> Outcome \cup {None}] /\ next \in [Message -> Message \cup {None}]
    /\ streamed \subseteq Message /\ taken \subseteq Message /\ cancelled \subseteq Message
    /\ lane \in [Generation -> Message \cup {None}]
    /\ ended \in [Message -> Outcome \cup {None}]
    /\ said \in [Message -> Word] /\ ctl \in [Control -> Step]
    /\ arg \in [Control -> Generation \cup {None}]
    /\ turns \in [Control -> SUBSET Message] /\ got \in [Control -> Outcome \cup {None}]
    /\ orders \in 0 .. MaxControls

\* No message is lost to the lane's one-turn-at-a-time guard: a turn is asked of
\* the harness only when its lane is free.
LaneNeverBusy == \A m \in Message : worker[m] = "prompt" => lane[genOf[m]] = None

\* The entries of the journal that record the outcome of m, by their positions.
Final(m) == {i \in DOMAIN answers[m] : answers[m][i] # "segment"}
\* A turn's outcome is recorded once, by its worker or by the drain that took it,
\* however the two and the stops interleave.
AnsweredOnce == \A m \in Message : \A i, j \in Final(m) : i = j

Working(m)  == worker[m] \notin {"none", "ignored", "queued", "done", "fell"}
Answered(m) == Final(m) # {} \/ (m \in streamed /\ ended[m] = "Replied")
\* Never silence: as long as the conversation is not reset under it, every message
\* that was admitted is queued, at work, being settled, answered, or named to
\* whoever dropped it.
NeverSilent ==
    up => \A m \in Message :
        genOf[m] = bound /\ worker[m] # "ignored" =>
            \/ Working(m) \/ Answered(m) \/ said[m] # "nothing"
            \/ m \in Range(queue[bound]) \/ \E c \in Control : m \in turns[c]

\* A queued message does not wait for ever: it gets its turn, or is dropped by
\* name.
QueuedRuns == \A m \in Message : worker[m] = "queued" ~> worker[m] # "queued"

\* A message that has to wait "is queued and becomes the next turn in arrival
\* order" (gateway_conversation_engine.rs:46-47).  But one that arrives after a
\* turn's end and before the next is popped goes first.
ArrivalOrder ==
    [][\A m \in Message : worker[m] = "none" /\ worker'[m] = "prompt" => queue[bound] = <<>>]_vars

\* DrainReport: "Turns interrupted because they did not finish"
\* (gateway_conversation_engine.rs:1331).  But one that has is interrupted too, when
\* its worker has taken the outcome and not yet its record.
InterruptsUnfinished ==
    [][\A c \in Control : ctl[c] = "wait" /\ ctl'[c] = "interrupt" => ended[Turn(c)] = None]_vars
=============================================================================
