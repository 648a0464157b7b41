------------------------ MODULE ConnectorPumpProofs ------------------------
(***************************************************************************)
(* Proofs about ConnectorPump, for any callers and events and any bounds:  *)
(* no operation reaches the platform twice, and no connection journals an  *)
(* event twice.                                                            *)
(***************************************************************************)
EXTENDS ConnectorPump, TLAPS

Place == {"connect", "parked", "ended", "top", "serve", "execute", "record", "recording",
          "poll", "ingest", "ingesting"}
Linked == Place \ {"connect", "parked", "ended"}

(* What the worker and a caller carry at each point, and how far the       *)
(* kernel's cursor can have got.                                           *)
Wiring ==
    /\ mem.next <= made + 1 /\ disk.next <= made + 1
    /\ pc \in {"execute", "record"} => hand \in Op
    /\ pc = "ingest" => hand \in Event
    /\ pc \in Linked => failures < MaxFailures
    /\ \A c \in Caller :
          /\ step[c] # "idle" => holds[c] \in Op
          /\ step[c] = "persist" => kind[c] \in {"answer", "line", "carrier"}

Shape == TypeOK /\ Wiring

-----------------------------------------------------------------------------
(* The kernel's two forms, and the bounds. *)

LEMMA Bounds == MaxOps \in Nat /\ MaxFailures \in Nat /\ MaxFailures > 0 /\ MaxFaults \in Nat
  BY BoundsAssumption

LEMMA FaultKeeps == ASSUME TypeOK, Fault \/ UNCHANGED faults PROVE faults' \in 0 .. MaxFaults
  BY Bounds DEF TypeOK, Fault

LEMMA PersistsKeeps ==
  ASSUME Shape, Persists, mem' = mem, made' = made
  PROVE  disk' \in Kernel /\ disk'.next <= made' + 1 /\ faults' \in 0 .. MaxFaults
  BY FaultKeeps DEF Shape, TypeOK, Wiring, Persists

LEMMA ReportsKeeps ==
  ASSUME Shape, Reports \/ UNCHANGED kernel, made' = made
  PROVE  /\ mem' = mem /\ lock' = lock
         /\ disk' \in Kernel /\ disk'.next <= made' + 1
  BY DEF Shape, TypeOK, Wiring, Reports, kernel

(* What an operation that is prepared leaves in memory.                    *)
LEMMA PrepareKeeps ==
  ASSUME Shape, NEW c \in Caller, NEW k \in Kind, Prepare(c, k)
  PROVE  LET o == [ref |-> mem.next, number |-> made + 1]
         IN  /\ o \in Op /\ mem' \in Kernel /\ mem'.next <= made' + 1
             /\ made' = made + 1 /\ made' \in 0 .. MaxOps
<1> DEFINE o == [ref |-> mem.next, number |-> made + 1]
<1>1. made < MaxOps /\ made' = made + 1 /\ made \in 0 .. MaxOps /\ mem \in Kernel
      /\ mem.next <= made + 1
  BY DEF Shape, TypeOK, Wiring, Prepare
<1>2. mem.next \in 1 .. MaxOps + 1 /\ mem.pending \in SUBSET Op
  BY <1>1 DEF Kernel
<1>3. o \in Op /\ made' \in 0 .. MaxOps
  BY <1>1, <1>2, Bounds DEF Op, Number
<1>4. mem' = [mem EXCEPT !.next = mem.next + 1, !.pending = mem.pending \cup {o}]
  BY DEF Prepare
<1>5. mem.next + 1 \in 1 .. MaxOps + 1 /\ mem.pending \cup {o} \in SUBSET Op
  BY <1>1, <1>2, <1>3, Bounds
<1> HIDE DEF o
<1>6. mem' \in Kernel /\ mem'.next = mem.next + 1
  BY <1>1, <1>4, <1>5 DEF Kernel
<1> QED  BY <1>1, <1>2, <1>3, <1>6, Bounds DEF o

LEMMA RecordKeeps ==
  ASSUME Shape, Record
  PROVE  mem' \in Kernel /\ mem'.next = mem.next
<1>1. mem \in Kernel /\ hand \in Op
  BY DEF Shape, TypeOK, Wiring, Record, At
<1>2. CASE mem' = mem
  BY <1>1, <1>2
<1>3. CASE mem' = [mem EXCEPT !.pending = {o \in mem.pending : o.ref # hand.ref},
                              !.receipts = mem.receipts \cup {hand}]
  <2>1. {o \in mem.pending : o.ref # hand.ref} \in SUBSET Op /\ mem.receipts \cup {hand} \in SUBSET Op
    BY <1>1 DEF Kernel
  <2> QED  BY <1>1, <1>3, <2>1 DEF Kernel
<1> QED  BY <1>2, <1>3 DEF Record

LEMMA IngestKeeps ==
  ASSUME Shape, Ingest
  PROVE  /\ mem' \in Kernel /\ mem'.next = mem.next /\ heard' \in [Event -> Nat]
<1>1. mem \in Kernel /\ hand \in Event /\ heard \in [Event -> Nat]
  BY DEF Shape, TypeOK, Wiring, Ingest, At
<1>2. CASE mem' = mem /\ heard' = heard
  BY <1>1, <1>2
<1>3. CASE /\ mem' = [mem EXCEPT !.journal = mem.journal \cup {hand}]
           /\ heard' = [heard EXCEPT ![hand] = heard[hand] + 1]
  <2>1. mem.journal \cup {hand} \in SUBSET Event
    BY <1>1 DEF Kernel
  <2>2. mem' \in Kernel /\ mem'.next = mem.next
    BY <1>1, <1>3, <2>1 DEF Kernel
  <2>3. heard' \in [Event -> Nat]
    BY <1>1, <1>3
  <2> QED  BY <2>2, <2>3
<1> QED  BY <1>2, <1>3 DEF Ingest

-----------------------------------------------------------------------------
(* The queue. *)

LEMMA PushMoves ==
  ASSUME queue \in Seq(Op), NEW o \in Op, Pushes(o)
  PROVE  /\ queue' \in Seq(Op) /\ Len(queue') = Len(queue) + 1
         /\ \A i \in 1 .. Len(queue) : queue'[i] = queue[i]
         /\ queue'[Len(queue) + 1] = o
  BY DEF Pushes

LEMMA PopMoves ==
  ASSUME queue \in Seq(Op), queue # <<>>, queue' = Tail(queue)
  PROVE  /\ queue' \in Seq(Op) /\ Len(queue) \in Nat \ {0} /\ Len(queue') = Len(queue) - 1
         /\ \A i \in 1 .. Len(queue') : queue'[i] = queue[i + 1]
         /\ Head(queue) = queue[1] /\ queue[1] \in Op
  OBVIOUS

-----------------------------------------------------------------------------
(* Types, and what is carried. *)

LEMMA Blanks ==
    /\ <<>> \in Seq(Op) /\ 0 \in 0 .. MaxFailures
    /\ [e \in Event |-> 0] \in [Event -> Nat] /\ [n \in Number |-> 0] \in [Number -> Nat]
    /\ \A S : [c \in Caller |-> None] \in [Caller -> S \cup {None}]
    /\ [c \in Caller |-> "idle"] \in [Caller -> {"idle", "persist", "push"}]
<1>1. <<>> \in Seq(Op)
  OBVIOUS
<1>2. 0 \in 0 .. MaxFailures
  BY Bounds
<1>3. \A S : [c \in Caller |-> None] \in [Caller -> S \cup {None}]
  OBVIOUS
<1>4. [c \in Caller |-> "idle"] \in [Caller -> {"idle", "persist", "push"}]
  OBVIOUS
<1>5. [e \in Event |-> 0] \in [Event -> Nat] /\ [n \in Number |-> 0] \in [Number -> Nat]
  OBVIOUS
<1> QED  BY <1>1, <1>2, <1>3, <1>4, <1>5

LEMMA ShapeInit == Init => Shape
<1> SUFFICES ASSUME Init PROVE Shape
  OBVIOUS
<1>1. Fresh \in Kernel /\ Fresh.next = 1
  BY Bounds DEF Fresh, Kernel
<1>2. TypeOK
  <2>1. kind \in [Caller -> Kind \cup {None}] /\ holds \in [Caller -> Op \cup {None}]
    BY Blanks DEF Init, Started
  <2>2. /\ queue \in Seq(Op) /\ failures \in 0 .. MaxFailures /\ heard \in [Event -> Nat]
        /\ step \in [Caller -> {"idle", "persist", "push"}]
    BY Blanks DEF Init, Started
  <2>3. sent \in [Number -> Nat] /\ made \in 0 .. MaxOps /\ faults \in 0 .. MaxFaults
    BY Blanks, Bounds DEF Init
  <2>4. /\ lock = None /\ up = TRUE /\ shutdown = FALSE /\ paused = FALSE
        /\ pc = "connect" /\ hand = None /\ seen = {} /\ mem \in Kernel /\ disk \in Kernel
    BY <1>1 DEF Init, Started
  <2> QED  BY <2>1, <2>2, <2>3, <2>4 DEF TypeOK
<1>3. Wiring
  BY <1>1, Bounds DEF Init, Started, Wiring, Linked
<1> QED  BY <1>2, <1>3 DEF Shape

LEMMA GoneKeeps ==
  ASSUME Shape, Gone, mem' = mem, made' = made, sent' = sent, faults' \in 0 .. MaxFaults,
         disk' \in {disk, mem}
  PROVE  Shape'
<1>1. TypeOK'
  BY Blanks, Bounds DEF Shape, TypeOK, Gone
<1>2. Wiring'
  BY Bounds DEF Shape, TypeOK, Wiring, Gone, Linked
<1> QED  BY <1>1, <1>2 DEF Shape

LEMMA ShapeStep == Shape /\ [Next]_vars => Shape'
<1> SUFFICES ASSUME Shape, [Next]_vars PROVE Shape'
  OBVIOUS
<1>0. TypeOK /\ Wiring
  BY DEF Shape
<1>1. ASSUME NEW c \in Caller, NEW k \in Kind, Prepare(c, k) PROVE Shape'
  <2> DEFINE o == [ref |-> mem.next, number |-> made + 1]
  <2>1. /\ o \in Op /\ mem' \in Kernel /\ mem'.next <= made' + 1
        /\ made' = made + 1 /\ made' \in 0 .. MaxOps
    BY <1>1, PrepareKeeps
  <2>2. holds' = [holds EXCEPT ![c] = o] /\ (Pushes(o) \/ UNCHANGED queue)
    BY <1>1 DEF Prepare
  <2>3. queue' \in Seq(Op)
    BY <1>0, <2>1, <2>2, PushMoves DEF TypeOK
  <2> HIDE DEF o
  <2>4. TypeOK'
    BY <1>0, <1>1, <2>1, <2>2, <2>3 DEF Prepare, Moves, worker, TypeOK
  <2>5. /\ disk' = disk /\ pc' = pc /\ hand' = hand /\ failures' = failures
    BY <1>1 DEF Prepare, worker
  <2>6. \A d \in Caller : /\ step'[d] # "idle" => holds'[d] \in Op
                          /\ step'[d] = "persist" => kind'[d] \in {"answer", "line", "carrier"}
    BY <1>0, <1>1, <2>1, <2>2 DEF Prepare, Moves, Kind, TypeOK, Wiring
  <2>7. disk'.next <= made' + 1
    BY <1>0, <2>1, <2>5 DEF TypeOK, Wiring, Kernel
  <2>8. Wiring'
    BY <1>0, <2>1, <2>5, <2>6, <2>7 DEF Wiring
  <2> QED  BY <2>4, <2>8 DEF Shape
(* A caller that goes on.                                                  *)
<1>2. ASSUME NEW c \in Caller, Calls(c) PROVE Shape'
  <2>1. queue' \in Seq(Op)
    <3>1. step[c] # "idle" => holds[c] \in Op
      BY <1>0 DEF Wiring
    <3>2. UNCHANGED queue \/ (Pushes(holds[c]) /\ step[c] # "idle")
      BY <1>0, <1>2 DEF Calls, Saved, SaveFails, Push, Stands, Wiring
    <3> QED  BY <1>0, <3>1, <3>2, PushMoves DEF TypeOK
  <2>2. /\ mem' = mem /\ made' = made /\ disk' \in {disk, mem} /\ lock' \in {lock, None}
        /\ UNCHANGED <<up, shutdown, paused, worker, sent>>
    BY <1>2 DEF Calls, Saved, SaveFails, Push, kernel
  <2>3. Rests(c) \/ (step[c] = "persist" /\ Moves(c, "push") /\ UNCHANGED <<kind, holds>>)
    BY <1>0, <1>2 DEF Calls, Saved, SaveFails, Push, Stands, Wiring
  <2>4. faults' \in 0 .. MaxFaults
    BY <1>0, <1>2, FaultKeeps DEF Calls, Saved, SaveFails, Push
  <2>5. TypeOK'
    BY <1>0, <2>1, <2>2, <2>3, <2>4 DEF Rests, Moves, worker, TypeOK
  <2>6. Wiring'
    BY <1>0, <2>2, <2>3 DEF Rests, Moves, worker, TypeOK, Wiring
  <2> QED  BY <2>5, <2>6 DEF Shape
(* A step that only moves the worker, or the service's flags.              *)
<1>3. ASSUME mem' \in Kernel, disk' \in Kernel, mem'.next <= made + 1, disk'.next <= made + 1,
             lock' \in Caller \cup {"pump", None}, UNCHANGED <<caller, queue>>,
             up' \in BOOLEAN, shutdown' \in BOOLEAN, paused' \in BOOLEAN,
             pc' \in Place, hand' \in Op \cup Event \cup {None}, seen' \subseteq Event,
             failures' \in 0 .. MaxFailures, pc' \in Linked => failures' < MaxFailures,
             pc' \in {"execute", "record"} => hand' \in Op,
             pc' = "ingest" => hand' \in Event,
             sent' \in [Number -> Nat], heard' \in [Event -> Nat], faults' \in 0 .. MaxFaults
      PROVE  Shape'
  <2>1. TypeOK'
    BY <1>0, <1>3 DEF caller, Place, TypeOK
  <2>2. Wiring'
    BY <1>0, <1>3 DEF caller, Wiring
  <2> QED  BY <2>1, <2>2 DEF Shape
<1>4. CASE Pause \/ Stop \/ Restart
  <2>1. faults' \in 0 .. MaxFaults
    BY <1>0, <1>4, FaultKeeps DEF Pause, Stop, Restart
  <2> QED  BY <1>0, <1>3, <1>4, <2>1 DEF Pause, Stop, Restart, kernel, worker, TypeOK, Wiring, Place
<1>5. CASE Connect
  <2>1. disk' \in Kernel /\ disk'.next <= made + 1 /\ faults' \in 0 .. MaxFaults
    <3>1. Persists
      BY <1>5 DEF Connect, Persists
    <3> QED  BY <1>5, <3>1, PersistsKeeps DEF Connect, caller
  <2>2. 0 \in 0 .. MaxFailures /\ 0 < MaxFailures /\ [e \in Event |-> 0] \in [Event -> Nat]
    BY Bounds
  <2> QED  BY <1>0, <1>3, <1>5, <2>1, <2>2 DEF Connect, At, TypeOK, Wiring, Place, Linked
<1>6. CASE Park \/ Ends \/ Top \/ Quiet
  <2>1. faults' \in 0 .. MaxFaults
    BY <1>0, <1>6, FaultKeeps DEF Park, Ends, Top, Quiet
  <2> QED  BY <1>0, <1>3, <1>6, <2>1
           DEF Park, Ends, Top, Quiet, At, Goto, kernel, TypeOK, Wiring, Place, Linked
<1>7. CASE Pop
  <2>1. queue' \in Seq(Op) /\ hand' \in Op
    BY <1>0, <1>7, PopMoves DEF Pop, TypeOK
  <2>2. TypeOK'
    BY <1>0, <1>7, <2>1 DEF Pop, kernel, caller, TypeOK
  <2>3. Wiring'
    BY <1>0, <1>7, <2>1 DEF Pop, At, kernel, caller, TypeOK, Wiring, Place, Linked
  <2> QED  BY <2>2, <2>3 DEF Shape
<1>8. CASE Execute
  <2>1. sent' \in [Number -> Nat]
    BY <1>0, <1>8 DEF Execute, TypeOK
  <2> QED  BY <1>0, <1>3, <1>8, <2>1
           DEF Execute, At, Goto, kernel, TypeOK, Wiring, Place, Linked
<1>9. CASE Record
  <2>1. mem' \in Kernel /\ mem'.next <= made + 1
    BY <1>0, <1>9, RecordKeeps DEF Wiring
  <2> QED  BY <1>0, <1>3, <1>9, <2>1 DEF Record, At, TypeOK, Wiring, Place, Linked
<1>10. CASE Recorded \/ Ingested
  <2>1. disk' \in Kernel /\ disk'.next <= made + 1 /\ faults' \in 0 .. MaxFaults
    BY <1>10, PersistsKeeps DEF Recorded, Ingested, caller
  <2> QED  BY <1>0, <1>3, <1>10, <2>1
           DEF Recorded, Ingested, At, Goto, TypeOK, Wiring, Place, Linked
<1>11. CASE Health \/ StreamEnds
  <2>1. mem' = mem /\ lock' = lock /\ disk' \in Kernel /\ disk'.next <= made + 1
    BY <1>11, ReportsKeeps DEF Health, StreamEnds, caller
  <2>2. faults' \in 0 .. MaxFaults
    BY <1>0, <1>11, FaultKeeps DEF Health, StreamEnds
  <2> QED  BY <1>0, <1>3, <1>11, <2>1, <2>2
           DEF Health, StreamEnds, At, Goto, TypeOK, Wiring, Place, Linked
<1>12. CASE PollFails
  <2>1. mem' = mem /\ lock' = lock /\ disk' \in Kernel /\ disk'.next <= made + 1
    BY <1>12, ReportsKeeps DEF PollFails, caller
  <2>2. faults' \in 0 .. MaxFaults
    BY <1>0, <1>12, FaultKeeps DEF PollFails
  <2>3. failures' = failures + 1 /\ failures < MaxFailures /\ failures \in Nat
    BY <1>0, <1>12, Bounds DEF PollFails, At, TypeOK, Wiring, Linked, Place
  <2>4. failures' \in 0 .. MaxFailures /\ (pc' \in Linked => failures' < MaxFailures)
    BY <1>12, <2>3, Bounds DEF PollFails, TooMany, Linked
  <2> QED  BY <1>0, <1>3, <1>12, <2>1, <2>2, <2>4 DEF PollFails, TypeOK, Wiring, Place
<1>13. ASSUME NEW e \in Event, Arrives(e) PROVE Shape'
  <2>1. 0 \in 0 .. MaxFailures /\ 0 < MaxFailures
    BY Bounds
  <2> QED  BY <1>0, <1>3, <1>13, <2>1
           DEF Arrives, At, Noted, kernel, TypeOK, Wiring, Place, Linked
<1>14. CASE Ingest
  <2>1. mem' \in Kernel /\ mem'.next <= made + 1 /\ heard' \in [Event -> Nat]
    BY <1>0, <1>14, IngestKeeps DEF Wiring
  <2> QED  BY <1>0, <1>3, <1>14, <2>1 DEF Ingest, At, TypeOK, Wiring, Place, Linked
<1>15. CASE Exit \/ Crash
  BY <1>0, <1>15, GoneKeeps, FaultKeeps DEF Exit, Crash, TypeOK
<1>16. CASE UNCHANGED vars
  <2>1. TypeOK'
    BY <1>0, <1>16 DEF vars, kernel, worker, caller, TypeOK
  <2>2. Wiring'
    BY <1>0, <1>16 DEF vars, kernel, worker, caller, Wiring
  <2> QED  BY <2>1, <2>2 DEF Shape
<1> QED
  BY <1>1, <1>2, <1>4, <1>5, <1>6, <1>7, <1>8, <1>9, <1>10, <1>11, <1>12, <1>13, <1>14, <1>15, <1>16
  DEF Next, Works, Polls

(* Every variable keeps its type: the kernel's cursor stays within what    *)
(* was prepared, also after a restart from an older snapshot, and the      *)
(* count of failures within its bound.                                     *)
THEOREM Typing == Spec => []TypeOK
<1>1. Shape => TypeOK
  BY DEF Shape
<1> QED  BY <1>1, ShapeInit, ShapeStep, PTL DEF Spec

-----------------------------------------------------------------------------
(* What the platform is given. *)

(* A caller that has yet to push what it prepared.                         *)
Owes(c) == step[c] = "push" \/ (step[c] = "persist" /\ kind[c] # "carrier")

Unsent(o)  == o \in Op /\ o.number <= made /\ sent[o.number] = 0
Queued(n)  == \E i \in 1 .. Len(queue) : queue[i].number = n
InHand(n)  == pc = "execute" /\ hand.number = n

(* An operation that was not given to the platform is in one place: with a *)
(* caller that will push it, once in the queue, in the worker's hand, or   *)
(* nowhere any more.  What left those places is never put back.            *)
Sends ==
    /\ \A n \in Number : sent[n] \in 0 .. 1 /\ (n > made => sent[n] = 0)
    /\ \A i \in 1 .. Len(queue) : Unsent(queue[i])
    /\ \A i, j \in 1 .. Len(queue) : i # j => queue[i].number # queue[j].number
    /\ pc = "execute" => Unsent(hand) /\ ~Queued(hand.number)
    /\ \A c \in Caller : Owes(c) => /\ Unsent(holds[c])
                                   /\ ~Queued(holds[c].number) /\ ~InHand(holds[c].number)
    /\ \A c, d \in Caller : c # d /\ Owes(c) /\ Owes(d) => holds[c].number # holds[d].number

(* A step that gives nothing and queues nothing.                           *)
LEMMA CalmStep ==
  ASSUME Shape, Sends, UNCHANGED <<queue, sent, made>>,
         pc' = "execute" => pc = "execute" /\ hand' = hand,
         \A c \in Caller : Owes(c)' => Owes(c) /\ holds'[c] = holds[c]
  PROVE  Sends'
<1>1. \A o : Unsent(o)' = Unsent(o)
  BY DEF Unsent
<1>2. \A n : Queued(n)' = Queued(n) /\ (InHand(n)' => InHand(n))
  BY DEF Queued, InHand
<1>3. \A n \in Number : sent'[n] \in 0 .. 1 /\ (n > made' => sent'[n] = 0)
  BY DEF Sends
<1>4. /\ \A i \in 1 .. Len(queue') : Unsent(queue[i])'
      /\ \A i, j \in 1 .. Len(queue') : i # j => queue'[i].number # queue'[j].number
  BY <1>1 DEF Sends
<1>5. pc' = "execute" => Unsent(hand)' /\ ~Queued(hand.number)'
  BY <1>1, <1>2 DEF Sends
<1>6. \A c \in Caller : Owes(c)' =>
          Unsent(holds[c])' /\ ~Queued(holds[c].number)' /\ ~InHand(holds[c].number)'
  BY <1>1, <1>2 DEF Sends
<1>7. \A c, d \in Caller : c # d /\ Owes(c)' /\ Owes(d)' => holds'[c].number # holds'[d].number
  BY DEF Sends
<1> QED  BY <1>3, <1>4, <1>5, <1>6, <1>7 DEF Sends

LEMMA SendsStep == Shape /\ Sends /\ [Next]_vars => Sends'
<1> SUFFICES ASSUME Shape, Sends, [Next]_vars PROVE Sends'
  OBVIOUS
<1>0. TypeOK /\ Wiring
  BY DEF Shape
(* A number that no operation had.                                         *)
<1>1. ASSUME NEW c \in Caller, NEW k \in Kind, Prepare(c, k) PROVE Sends'
  <2>0. PICK o : o = [ref |-> mem.next, number |-> made + 1]
    OBVIOUS
  <2>1. o \in Op /\ o.number = made + 1 /\ made' = made + 1 /\ made \in Nat
    BY <1>0, <1>1, <2>0, PrepareKeeps, Bounds DEF TypeOK
  <2>2. /\ holds' = [holds EXCEPT ![c] = o] /\ kind' = [kind EXCEPT ![c] = k]
        /\ step[c] = "idle" /\ pc' = pc /\ hand' = hand /\ sent' = sent
        /\ (k # "carrier" /\ queue' = queue) \/ (k = "carrier" /\ Pushes(o))
        /\ step' \in {[step EXCEPT ![c] = "push"], [step EXCEPT ![c] = "persist"]}
        /\ k = "carrier" => step' = [step EXCEPT ![c] = "persist"]
    BY <1>1, <2>0 DEF Prepare, Stands, Moves, worker, Kind
  <2>3. sent[o.number] = 0 /\ o.number \in Number
    BY <2>1 DEF Sends, Op
  <2>4. Unsent(o)' /\ \A x : Unsent(x) => Unsent(x)' /\ x.number # o.number
    <3>1. Unsent(o)'
      BY <2>1, <2>2, <2>3 DEF Unsent
    <3>2. ASSUME NEW x, Unsent(x) PROVE Unsent(x)' /\ x.number # o.number
      BY <2>1, <2>2, <3>2 DEF Unsent, Op, Number
    <3> QED  BY <3>1, <3>2
  <2>5. \A n \in Number : sent'[n] \in 0 .. 1 /\ (n > made' => sent'[n] = 0)
    BY <2>1, <2>2 DEF Sends, Number
  <2>6. ~Queued(o.number) /\ ~InHand(o.number)
        /\ \A d \in Caller : Owes(d) => holds[d].number # o.number
    BY <2>4 DEF Sends, Queued, InHand
  <2>7. \A d \in Caller \ {c} : (Owes(d)' <=> Owes(d)) /\ holds'[d] = holds[d]
    BY <1>0, <2>2 DEF TypeOK, Owes
  <2>8. holds'[c] = o /\ ~Owes(c) /\ (Owes(c)' <=> k # "carrier")
    BY <1>0, <2>2 DEF TypeOK, Owes
  <2>9. CASE k # "carrier"
    <3>1. queue' = queue /\ \A n : (Queued(n)' <=> Queued(n)) /\ (InHand(n)' <=> InHand(n))
      BY <2>2, <2>9 DEF Queued, InHand
    <3>2. \A d \in Caller : Owes(d)' =>
              Unsent(holds[d])' /\ ~Queued(holds[d].number)' /\ ~InHand(holds[d].number)'
      BY <2>4, <2>6, <2>7, <2>8, <3>1 DEF Sends
    <3>3. \A d, e \in Caller : d # e /\ Owes(d)' /\ Owes(e)' => holds'[d].number # holds'[e].number
      BY <2>6, <2>7, <2>8 DEF Sends
    <3>4. pc' = "execute" => Unsent(hand)' /\ ~Queued(hand.number)'
      BY <2>2, <2>4, <3>1 DEF Sends
    <3> QED  BY <2>4, <2>5, <3>1, <3>2, <3>3, <3>4 DEF Sends
  <2>10. CASE k = "carrier"
    <3>1. /\ Len(queue') = Len(queue) + 1 /\ queue'[Len(queue) + 1] = o /\ Len(queue) \in Nat
          /\ \A i \in 1 .. Len(queue) : queue'[i] = queue[i]
      BY <1>0, <2>1, <2>2, <2>10, PushMoves DEF TypeOK
    <3>2. \A n : /\ Queued(n)' => Queued(n) \/ n = o.number
                 /\ InHand(n)' <=> InHand(n)
      BY <2>2, <3>1 DEF Queued, InHand
    <3>3. \A i \in 1 .. Len(queue') : Unsent(queue[i])'
      BY <2>4, <3>1 DEF Sends
    <3>4. \A i, j \in 1 .. Len(queue') : i # j => queue'[i].number # queue'[j].number
      BY <2>6, <3>1 DEF Sends, Queued
    <3>5. \A d \in Caller : Owes(d)' =>
              Unsent(holds[d])' /\ ~Queued(holds[d].number)' /\ ~InHand(holds[d].number)'
      BY <2>4, <2>6, <2>7, <2>8, <2>10, <3>2 DEF Sends
    <3>6. \A d, e \in Caller : d # e /\ Owes(d)' /\ Owes(e)' => holds'[d].number # holds'[e].number
      BY <2>7, <2>8, <2>10 DEF Sends
    <3>7. pc' = "execute" => Unsent(hand)' /\ ~Queued(hand.number)'
      BY <2>2, <2>4, <3>2 DEF Sends
    <3> QED  BY <2>5, <3>3, <3>4, <3>5, <3>6, <3>7 DEF Sends
  <2> QED  BY <2>9, <2>10
(* What a caller owes goes into the queue.                                 *)
<1>2. ASSUME NEW c \in Caller, Owes(c), Pushes(holds[c]), Rests(c),
             UNCHANGED <<made, sent, pc, hand>>
      PROVE  Sends'
  <2>1. holds[c] \in Op /\ Unsent(holds[c]) /\ ~Queued(holds[c].number) /\ ~InHand(holds[c].number)
    BY <1>2 DEF Sends, Unsent
  <2>2. /\ Len(queue') = Len(queue) + 1 /\ queue'[Len(queue) + 1] = holds[c]
        /\ Len(queue) \in Nat /\ \A i \in 1 .. Len(queue) : queue'[i] = queue[i]
    BY <1>0, <1>2, <2>1, PushMoves DEF TypeOK
  <2>3. \A x : Unsent(x)' <=> Unsent(x)
    BY <1>2 DEF Unsent
  <2>4. \A n : /\ Queued(n)' => Queued(n) \/ n = holds[c].number
               /\ InHand(n)' <=> InHand(n)
    BY <1>2, <2>2 DEF Queued, InHand
  <2>5. \A d \in Caller \ {c} : (Owes(d)' <=> Owes(d)) /\ holds'[d] = holds[d]
    BY <1>0, <1>2 DEF TypeOK, Owes, Rests, Moves
  <2>6. ~Owes(c)'
    BY <1>0, <1>2 DEF TypeOK, Owes, Rests, Moves
  <2>7. \A i \in 1 .. Len(queue') : Unsent(queue[i])'
    BY <2>1, <2>2, <2>3 DEF Sends
  <2>8. \A i, j \in 1 .. Len(queue') : i # j => queue'[i].number # queue'[j].number
    BY <2>1, <2>2 DEF Sends, Queued
  <2>9. \A d \in Caller : Owes(d)' =>
            Unsent(holds[d])' /\ ~Queued(holds[d].number)' /\ ~InHand(holds[d].number)'
    BY <1>2, <2>3, <2>4, <2>5, <2>6 DEF Sends
  <2>10. \A d, e \in Caller : d # e /\ Owes(d)' /\ Owes(e)' => holds'[d].number # holds'[e].number
    BY <2>5, <2>6 DEF Sends
  <2>11. pc' = "execute" => Unsent(hand)' /\ ~Queued(hand.number)'
    BY <1>2, <2>1, <2>3, <2>4 DEF Sends, InHand
  <2>12. \A n \in Number : sent'[n] \in 0 .. 1 /\ (n > made' => sent'[n] = 0)
    BY <1>2 DEF Sends
  <2> QED  BY <2>7, <2>8, <2>9, <2>10, <2>11, <2>12 DEF Sends
<1>3. ASSUME NEW c \in Caller, Calls(c) PROVE Sends'
  <2>1. made' = made /\ sent' = sent /\ pc' = pc /\ hand' = hand
    BY <1>3 DEF Calls, Saved, SaveFails, Push, worker
  <2>2. \/ Rests(c) /\ UNCHANGED queue
        \/ Rests(c) /\ Pushes(holds[c]) /\ Owes(c)
        \/ Moves(c, "push") /\ UNCHANGED <<kind, holds, queue>> /\ Owes(c)
    BY <1>0, <1>3 DEF Calls, Saved, SaveFails, Push, Stands, Wiring, Owes
  <2>3. CASE UNCHANGED queue
    <3>1. \A d \in Caller : Owes(d)' => Owes(d) /\ holds'[d] = holds[d]
      BY <1>0, <2>2, <2>3 DEF Rests, Moves, Owes, TypeOK
    <3> QED  BY <2>1, <2>3, <3>1, CalmStep
  <2> QED  BY <1>2, <2>1, <2>2, <2>3
<1>4. CASE Pop
  <2>1. /\ Len(queue) \in Nat \ {0} /\ Len(queue') = Len(queue) - 1 /\ hand' = queue[1]
        /\ \A i \in 1 .. Len(queue') : queue'[i] = queue[i + 1]
        /\ pc = "serve" /\ pc' = "execute" /\ UNCHANGED <<kind, holds, step, made, sent>>
    BY <1>0, <1>4, PopMoves DEF Pop, At, caller, TypeOK
  <2>2. \A x : Unsent(x)' <=> Unsent(x)
    BY <2>1 DEF Unsent
  <2>3. \A n : Queued(n)' \/ InHand(n)' => Queued(n)
    BY <2>1 DEF Queued, InHand
  <2>4. \A i \in 1 .. Len(queue') : Unsent(queue[i])'
    BY <2>1, <2>2 DEF Sends
  <2>5. \A i, j \in 1 .. Len(queue') : i # j => queue'[i].number # queue'[j].number
    <3>1. ASSUME NEW i \in 1 .. Len(queue'), NEW j \in 1 .. Len(queue'), i # j
          PROVE  queue'[i].number # queue'[j].number
      <4>1. i + 1 \in 1 .. Len(queue) /\ j + 1 \in 1 .. Len(queue) /\ i + 1 # j + 1
        BY <2>1, <3>1
      <4> QED  BY <2>1, <4>1 DEF Sends
    <3> QED  BY <3>1
  <2>6. Unsent(hand)' /\ ~Queued(hand.number)'
    <3>1. Unsent(hand')
      BY <2>1 DEF Sends
    <3>2. \A i \in 1 .. Len(queue') : queue'[i].number # queue[1].number
      <4>1. \A i \in 1 .. Len(queue') : i + 1 \in 1 .. Len(queue) /\ 1 \in 1 .. Len(queue) /\ i + 1 # 1
        BY <2>1
      <4> QED  BY <2>1, <4>1 DEF Sends
    <3> QED  BY <2>1, <2>2, <3>1, <3>2 DEF Queued
  <2>7. \A c \in Caller : Owes(c)' => Owes(c) /\ holds'[c] = holds[c]
    BY <2>1 DEF Owes
  <2>8. \A c \in Caller : Owes(c)' =>
            Unsent(holds[c])' /\ ~Queued(holds[c].number)' /\ ~InHand(holds[c].number)'
    BY <2>2, <2>3, <2>7 DEF Sends
  <2>9. \A c, d \in Caller : c # d /\ Owes(c)' /\ Owes(d)' => holds'[c].number # holds'[d].number
    BY <2>7 DEF Sends
  <2>10. \A n \in Number : sent'[n] \in 0 .. 1 /\ (n > made' => sent'[n] = 0)
    BY <2>1 DEF Sends
  <2> QED  BY <2>4, <2>5, <2>6, <2>8, <2>9, <2>10 DEF Sends
<1>5. CASE Execute
  <2>1. /\ pc = "execute" /\ pc' = "record" /\ UNCHANGED <<queue, kind, holds, step, made, hand>>
        /\ hand \in Op /\ hand.number \in Number /\ hand.number <= made
        /\ sent[hand.number] = 0 /\ ~Queued(hand.number)
    BY <1>5 DEF Execute, At, Goto, caller, Sends, Unsent, Op
  <2>2. CASE sent' = sent
    <3>1. \A c \in Caller : Owes(c)' => Owes(c) /\ holds'[c] = holds[c]
      BY <2>1 DEF Owes
    <3> QED  BY <2>1, <2>2, <3>1, CalmStep
  <2>3. CASE sent' = [sent EXCEPT ![hand.number] = sent[hand.number] + 1]
    <3>1. sent'[hand.number] = 1 /\ \A n \in Number \ {hand.number} : sent'[n] = sent[n]
      BY <1>0, <2>1, <2>3 DEF TypeOK
    <3>2. \A x : Unsent(x) /\ x.number # hand.number => Unsent(x)'
      BY <2>1, <3>1 DEF Unsent, Op
    <3>3. \A n : (Queued(n)' <=> Queued(n)) /\ ~InHand(n)'
      BY <2>1 DEF Queued, InHand
    <3>4. \A c \in Caller : Owes(c)' => Owes(c) /\ holds'[c] = holds[c]
                                       /\ holds[c].number # hand.number
      BY <2>1 DEF Owes, Sends, InHand
    <3>5. \A i \in 1 .. Len(queue') : Unsent(queue[i])'
      BY <2>1, <3>2 DEF Sends, Queued
    <3>6. \A c \in Caller : Owes(c)' =>
              Unsent(holds[c])' /\ ~Queued(holds[c].number)' /\ ~InHand(holds[c].number)'
      BY <3>2, <3>3, <3>4 DEF Sends
    <3>7. \A n \in Number : sent'[n] \in 0 .. 1 /\ (n > made' => sent'[n] = 0)
      <4>1. made \in Nat /\ hand.number \in Nat
        BY <1>0, <2>1 DEF TypeOK, Number
      <4> QED  BY <2>1, <3>1, <4>1 DEF Sends, Number
    <3>8. \A c, d \in Caller : c # d /\ Owes(c)' /\ Owes(d)' => holds'[c].number # holds'[d].number
      BY <3>4 DEF Sends
    <3>9. \A i, j \in 1 .. Len(queue') : i # j => queue'[i].number # queue'[j].number
      BY <2>1 DEF Sends
    <3> QED  BY <2>1, <3>5, <3>6, <3>7, <3>8, <3>9 DEF Sends
  <2> QED  BY <1>5, <2>2, <2>3 DEF Execute
(* What goes with the process was never sent, and never will be.           *)
<1>6. CASE Exit \/ Crash
  <2>1. /\ queue' = <<>> /\ pc' = "connect" /\ sent' = sent /\ made' = made
        /\ \A c \in Caller : step'[c] = "idle"
    BY <1>6 DEF Exit, Crash, Gone
  <2>2. Len(queue') = 0 /\ \A c \in Caller : ~Owes(c)'
    BY <2>1 DEF Owes
  <2> QED  BY <2>1, <2>2 DEF Sends
<1>7. ASSUME UNCHANGED <<queue, sent, made, kind, holds, step>>,
             pc' = "execute" => pc = "execute" /\ hand' = hand
      PROVE  Sends'
  <2>1. \A c \in Caller : Owes(c)' => Owes(c) /\ holds'[c] = holds[c]
    BY <1>7 DEF Owes
  <2> QED  BY <1>7, <2>1, CalmStep
<1>8. CASE Pause \/ Connect \/ Park \/ Stop \/ Restart \/ Ends \/ Top
  BY <1>7, <1>8 DEF Pause, Connect, Park, Stop, Restart, Ends, Top, Goto, worker, caller
<1>9. CASE Record \/ Recorded \/ Health
  BY <1>7, <1>9 DEF Record, Recorded, Health, Goto, caller
<1>10. CASE Polls \/ Ingest \/ Ingested
  BY <1>7, <1>10 DEF Polls, Quiet, PollFails, StreamEnds, Arrives, Ingest, Ingested, Goto, caller
<1>11. CASE UNCHANGED vars
  BY <1>7, <1>11 DEF vars, worker, caller
<1> QED
  BY <1>1, <1>3, <1>4, <1>5, <1>6, <1>8, <1>9, <1>10, <1>11 DEF Next, Works

(* No operation is given to the platform twice, whatever is written, lost  *)
(* or restarted.                                                           *)
THEOREM AlwaysSentAtMostOnce == Spec => []SentAtMostOnce
<1>1. Init => Sends
  <2> SUFFICES ASSUME Init PROVE Sends
    OBVIOUS
  <2>1. Len(queue) = 0 /\ pc = "connect" /\ \A c \in Caller : ~Owes(c)
    BY DEF Init, Started, Owes
  <2>2. \A n \in Number : sent[n] = 0
    BY DEF Init
  <2> QED  BY <2>1, <2>2 DEF Sends
<1>2. Sends => SentAtMostOnce
  BY DEF Sends, SentAtMostOnce
<1> QED  BY <1>1, <1>2, ShapeInit, ShapeStep, SendsStep, PTL DEF Spec

-----------------------------------------------------------------------------
(* What a connection journals. *)

(* An event that was not journaled yet is new, or in the worker's hand.    *)
Hears ==
    /\ \A e \in Event : heard[e] \in 0 .. 1 /\ (e \notin seen => heard[e] = 0)
    /\ pc = "ingest" => heard[hand] = 0 /\ hand \in seen

(* One connection journals an event once, however often it is told of it.  *)
THEOREM AlwaysJournaledOnce == Spec => []JournaledOnce
<1>1. Init => Hears
  BY DEF Init, Started, Hears
<1>2. ASSUME Shape, Hears, [Next]_vars PROVE Hears'
  <2>0. TypeOK /\ Wiring
    BY <1>2 DEF Shape
  <2>1. ASSUME UNCHANGED <<heard, seen>>, pc' = "ingest" => pc = "ingest" /\ hand' = hand
        PROVE  Hears'
    BY <1>2, <2>1 DEF Hears
  <2>2. CASE Exit \/ Crash \/ Connect
    BY <2>2 DEF Exit, Crash, Gone, Connect, Hears
  <2>3. ASSUME NEW e \in Event, Arrives(e) PROVE Hears'
    BY <1>2, <2>3 DEF Arrives, Noted, Hears
  <2>4. CASE Ingest
    <3>1. hand \in Event /\ heard[hand] = 0 /\ hand \in seen /\ heard \in [Event -> Nat]
      BY <1>2, <2>0, <2>4 DEF Ingest, At, TypeOK, Wiring, Hears
    <3>2. seen' = seen /\ pc' # "ingest"
      BY <2>4 DEF Ingest
    <3>3. CASE heard' = heard
      BY <1>2, <3>2, <3>3 DEF Hears
    <3>4. CASE heard' = [heard EXCEPT ![hand] = heard[hand] + 1]
      BY <1>2, <3>1, <3>2, <3>4 DEF Hears
    <3> QED  BY <2>4, <3>3, <3>4 DEF Ingest
  <2>5. CASE \E c \in Caller : Calls(c) \/ \E k \in Kind : Prepare(c, k)
    BY <2>1, <2>5 DEF Calls, Saved, SaveFails, Push, Prepare, worker
  <2>6. CASE Pause \/ Park \/ Stop \/ Restart \/ Ends \/ Top \/ Pop \/ Execute
    BY <2>1, <2>6 DEF Pause, Park, Stop, Restart, Ends, Top, Pop, Execute, Goto, worker
  <2>7. CASE Record \/ Recorded \/ Health \/ Ingested \/ Quiet \/ PollFails \/ StreamEnds
    BY <2>1, <2>7 DEF Record, Recorded, Health, Ingested, Quiet, PollFails, StreamEnds, Goto
  <2>8. CASE UNCHANGED vars
    BY <2>1, <2>8 DEF vars, worker
  <2> QED  BY <1>2, <2>2, <2>3, <2>4, <2>5, <2>6, <2>7, <2>8 DEF Next, Works, Polls
<1>3. Hears => JournaledOnce
  BY DEF Hears, JournaledOnce
<1> QED  BY <1>1, <1>2, <1>3, ShapeInit, ShapeStep, PTL DEF Spec

=============================================================================
