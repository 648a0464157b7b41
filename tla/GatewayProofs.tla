--------------------------- MODULE GatewayProofs ---------------------------
(***************************************************************************)
(* Proofs about two parts of the gateway: the turns of its conversations   *)
(* (ConversationTurns, first), for any number of messages, of generations, *)
(* of control operations and any limit of the queue, and what is streamed  *)
(* of them to its clients (StreamSubscription, after it), for any clients, *)
(* any replay limit and any number of events and faults.  The two share no *)
(* variable, and neither's proof uses the other's.                         *)
(***************************************************************************)
EXTENDS ConversationTurns, StreamSubscription, SequenceTheorems, WellFoundedInduction, TLAPS

-----------------------------------------------------------------------------
(* The inductive invariant, in parts. *)

(* A message is admitted under the binding of the moment, and the binding  *)
(* of one that was let fall is gone.                                       *)
Admitted ==
    \A m \in Message :
        /\ genOf[m] = None <=> worker[m] = "none"
        /\ genOf[m] # None => genOf[m] <= bound
        /\ worker[m] = "fell" => genOf[m] < bound

(* The queue of a generation holds its queued messages, each once.         *)
Holds(q, m) == \E i \in 1 .. Len(q) : q[i] = m
Distinct(q) == \A i, j \in 1 .. Len(q) : q[i] = q[j] => i = j
QueuedOnce ==
    /\ \A g \in Generation : Distinct(queue[g])
    /\ \A g \in Generation, m \in Message :
          Holds(queue[g], m) <=> worker[m] = "queued" /\ genOf[m] = g

(* A popped message is handed to its own worker by the one that popped it. *)
HandedOn ==
    /\ \A m \in Message : next[m] # None <=> worker[m] = "spawn"
    /\ \A m, n \in Message : next[m] = n => worker[n] = "popped"
    /\ \A k, m, n \in Message : next[m] = k /\ next[n] = k => m = n

(* One message at most is between the claim of its generation's plane and  *)
(* the registration of its turn.                                           *)
Claiming == {"popped", "prompt", "register", "release"}
OneClaim ==
    /\ \A m \in Message : worker[m] \in Claiming => genOf[m] \in starting
    /\ \A m, n \in Message :
          worker[m] \in Claiming /\ worker[n] \in Claiming /\ genOf[m] = genOf[n] => m = n
    /\ \A g \in Generation : g \in starting => flight[g] = None

(* A registered turn is its worker's to wait for, unless a drain took it.  *)
Registered ==
    /\ \A g \in Generation, m \in Message : flight[g] = m =>
          genOf[m] = g /\ worker[m] \in {"await", "remove"}
    /\ \A m \in Message : worker[m] \in {"await", "remove"} =>
          flight[genOf[m]] = m \/ draining
    /\ draining => \A g \in Generation : flight[g] = None /\ queue[g] = <<>>

(* The turn a lane runs is known to the plane until a drain begins, and    *)
(* whoever has the claim has not prompted yet finds the lane free.         *)
LaneKnown ==
    /\ \A g \in Generation, m \in Message : lane[g] = m =>
          genOf[m] = g /\ (worker[m] = "register" \/ flight[g] = m \/ draining)
    /\ \A m \in Message :
          worker[m] \in {"popped", "prompt", "release"} => lane[genOf[m]] = None

(* The turn a lane runs was asked of the harness and has not ended.        *)
Unasked == {"none", "ignored", "queued", "popped", "prompt", "release", "fell"}
LaneRuns ==
    /\ \A g \in Generation, m \in Message : lane[g] = m =>
          worker[m] \notin Unasked /\ ended[m] = None
    /\ \A m \in Message : worker[m] \in Unasked => ended[m] = None
    /\ \A m \in Message : worker[m] \in {"remove", "record"} => ended[m] # None

(* A drain has turns while it settles them, and no two drains one turn.    *)
Settling == {"wait", "interrupt", "grace", "record"}
Drained ==
    /\ \A c \in Control :
          /\ ctl[c] \notin Settling => turns[c] = {}
          /\ ctl[c] \in Settling \ {"wait"} => turns[c] # {}
          /\ ctl[c] = "record" => got[c] # None
          /\ ctl[c] \in {"stop", "stopping", "reset"} => arg[c] # None
          /\ \A m \in Message : m \in turns[c] =>
                draining /\ worker[m] \in {"await", "remove", "done"}
    /\ \A c, d \in Control, m \in Message : m \in turns[c] /\ m \in turns[d] => c = d

(* A worker brings an outcome exactly where it has one to record.          *)
Brought ==
    \A m \in Message :
        /\ worker[m] \in {"release", "remove", "record", "answer"} => held[m] # None
        /\ held[m] # None => worker[m] \in {"release", "spawn", "remove", "record", "answer"}
        /\ worker[m] \in {"remove", "record"} /\ held[m] = "Replied" => ended[m] = "Replied"

(* While somebody is yet to record a message's outcome, nobody did.        *)
Owed(m) ==
    \/ worker[m] \notin {"spawn", "await", "remove", "advance", "done"}
    \/ worker[m] = "spawn" /\ held[m] # None
    \/ worker[m] \in {"await", "remove"} /\ flight[genOf[m]] = m
    \/ \E c \in Control : m \in turns[c]
NotYet == \A m \in Message : Owed(m) => Final(m) = {}

(* Once nobody is to, it was recorded or the message named, unless its     *)
(* conversation was reset.                                                 *)
Accounted ==
    \A m \in Message : genOf[m] = bound =>
        Owed(m) \/ Answered(m) \/ said[m] # "nothing"

Inv ==
    /\ TypeOK /\ Admitted /\ QueuedOnce /\ HandedOn /\ OneClaim /\ Registered
    /\ LaneKnown /\ LaneRuns /\ Drained /\ Brought /\ NotYet /\ AnsweredOnce /\ Accounted

-----------------------------------------------------------------------------
(* What the values of the variables are, without their ranges. *)

Shapes ==
    /\ bound \in Generation /\ genOf \in [Message -> Generation \cup {None}]
    /\ answers \in [Message -> Seq(Outcome \cup {"segment"})]
    /\ flight \in [Generation -> Message \cup {None}] /\ starting \subseteq Generation
    /\ queue \in [Generation -> Seq(Message)]
    /\ worker \in [Message -> Place] /\ held \in [Message -> Outcome \cup {None}]
    /\ next \in [Message -> Message \cup {None}]
    /\ lane \in [Generation -> Message \cup {None}]
    /\ ended \in [Message -> Outcome \cup {None}] /\ said \in [Message -> Word]
    /\ ctl \in [Control -> Step] /\ arg \in [Control -> Generation \cup {None}]
    /\ turns \in [Control -> SUBSET Message] /\ got \in [Control -> Outcome \cup {None}]

LEMMA Shaped == TypeOK => Shapes
BY DEF TypeOK, Shapes

LEMMA Constants ==
    /\ \A m \in Message : m \in Nat /\ m # None
    /\ \A g \in Generation : g \in Nat /\ g # None
    /\ \A out \in Outcome : out # None /\ out # "segment"
BY BoundsAssumption, NoneAssumption DEF Message, Generation, Outcome

LEMMA Moves ==
  ASSUME Shapes, NEW m \in Message, NEW place \in Place, Goto(m, place)
  PROVE  worker' \in [Message -> Place]
BY DEF Shapes, Goto

(* Journaling an outcome records it, unless the binding is gone; a segment *)
(* records nothing.                                                        *)
LEMMA Journaled ==
  ASSUME TypeOK, NEW m \in Message, NEW what \in Outcome \cup {"segment"}, Journal(m, what)
  PROVE  /\ answers' \in [Message -> Seq(Outcome \cup {"segment"})]
         /\ \A n \in Message : n # m \/ what = "segment" => Final(n)' = Final(n)
         /\ Final(m) = {} => \A i, j \in Final(m)' : i = j
         /\ what # "segment" /\ bound = genOf[m] => Final(m)' # {}
         /\ Final(m) # {} => Final(m)' # {}
<1> DEFINE Entry == Outcome \cup {"segment"}
<1>1. answers \in [Message -> Seq(Entry)]
  BY DEF TypeOK
<1>2. CASE bound # genOf[m]
  <2>1. answers' = answers
    BY <1>1, <1>2 DEF Journal, Gen
  <2> QED  BY <1>1, <1>2, <2>1 DEF Final
<1>3. CASE bound = genOf[m]
  <2>1. PICK old \in Seq(Entry) : old = answers[m]
    BY <1>1
  <2>2. PICK new \in Seq(Entry) : new = Append(old, what)
    BY <2>1, AppendProperties
  <2>3. /\ Len(old) \in Nat /\ DOMAIN old = 1 .. Len(old)
        /\ DOMAIN new = 1 .. Len(old) + 1 /\ new[Len(old) + 1] = what
        /\ \A i \in 1 .. Len(old) : new[i] = old[i]
    BY <2>1, <2>2, AppendProperties
  <2>4. answers' = [answers EXCEPT ![m] = new]
    BY <1>1, <1>3, <2>1, <2>2 DEF Journal, Gen
  <2>5. answers' \in [Message -> Seq(Entry)] /\ answers'[m] = new
        /\ \A n \in Message : n # m => answers'[n] = answers[n]
    BY <1>1, <2>4
  <2>6. \A n \in Message : n # m => Final(n)' = Final(n)
    BY <2>5 DEF Final
  <2>7. /\ Final(m) = {i \in DOMAIN old : old[i] # "segment"}
        /\ Final(m)' = {i \in DOMAIN new : new[i] # "segment"}
    BY <2>1, <2>5 DEF Final
  <2>8. what = "segment" => Final(m)' = Final(m)
    BY <2>3, <2>7
  <2>9. Final(m) = {} => \A i \in Final(m)' : i = Len(old) + 1
    BY <2>3, <2>7
  <2>10. what # "segment" => Len(old) + 1 \in Final(m)'
    BY <2>3, <2>7
  <2>11. \A i \in Final(m) : i \in Final(m)'
    BY <2>3, <2>7
  <2> QED  BY <1>3, <2>5, <2>6, <2>8, <2>9, <2>10, <2>11
<1> QED  BY <1>2, <1>3

LEMMA NothingJournaled ==
  ASSUME UNCHANGED answers
  PROVE  \A n \in Message : Final(n)' = Final(n)
BY DEF Final

(* What a queue holds after each of the things done to it. *)
LEMMA HoldsNothing == Distinct(<<>>) /\ \A m : ~Holds(<<>>, m)
BY DEF Distinct, Holds

LEMMA HoldsRange ==
  ASSUME NEW q \in Seq(Message)
  PROVE  \A m : m \in Range(q) <=> m \in Message /\ Holds(q, m)
BY DEF Holds, Range

LEMMA HoldsAppended ==
  ASSUME NEW q \in Seq(Message), NEW m \in Message, Distinct(q), ~Holds(q, m)
  PROVE  /\ Append(q, m) \in Seq(Message) /\ Len(Append(q, m)) = Len(q) + 1
         /\ Distinct(Append(q, m))
         /\ \A n \in Message : Holds(Append(q, m), n) <=> Holds(q, n) \/ n = m
<1>1. /\ Append(q, m) \in Seq(Message) /\ Len(Append(q, m)) = Len(q) + 1 /\ Len(q) \in Nat
      /\ \A i \in 1 .. Len(q) : Append(q, m)[i] = q[i]
      /\ Append(q, m)[Len(q) + 1] = m
  BY AppendProperties
<1>2. PICK l \in Nat : l = Len(q)
  BY <1>1
<1>3. PICK a \in Seq(Message) : a = Append(q, m)
  BY <1>1
<1>4. \A i \in 1 .. l + 1 : IF i = l + 1 THEN a[i] = m ELSE i \in 1 .. l /\ a[i] = q[i]
  BY <1>1, <1>2, <1>3
<1>5. Distinct(a)
  BY <1>1, <1>2, <1>3, <1>4 DEF Distinct, Holds
<1>6. \A n \in Message : Holds(a, n) <=> Holds(q, n) \/ n = m
  BY <1>1, <1>2, <1>3, <1>4 DEF Holds
<1> QED  BY <1>1, <1>3, <1>5, <1>6

LEMMA HoldsPopped ==
  ASSUME NEW q \in Seq(Message), Distinct(q), q # <<>>
  PROVE  /\ Tail(q) \in Seq(Message) /\ Len(Tail(q)) < Len(q)
         /\ Head(q) \in Message /\ Holds(q, Head(q))
         /\ Distinct(Tail(q))
         /\ \A n \in Message : Holds(Tail(q), n) <=> Holds(q, n) /\ n # Head(q)
<1>1. /\ Head(q) \in Message /\ Tail(q) \in Seq(Message) /\ Len(Tail(q)) = Len(q) - 1
      /\ \A i \in 1 .. Len(Tail(q)) : Tail(q)[i] = q[i + 1]
      /\ Len(q) \in Nat /\ Len(q) # 0 /\ Head(q) = q[1]
  BY HeadTailProperties, EmptySeq
<1>2. PICK l \in Nat : l = Len(q) /\ l # 0
  BY <1>1
<1>3. PICK t \in Seq(Message) : t = Tail(q)
  BY <1>1
<1>4. Len(t) = l - 1 /\ \A i \in 1 .. l - 1 : i + 1 \in 1 .. l /\ t[i] = q[i + 1]
  BY <1>1, <1>2, <1>3
<1>5. Distinct(t)
  BY <1>2, <1>4 DEF Distinct
<1>6. Holds(q, Head(q))
  BY <1>1, <1>2 DEF Holds
<1>7. \A n \in Message : Holds(t, n) => Holds(q, n) /\ n # Head(q)
  BY <1>1, <1>2, <1>4 DEF Holds, Distinct
<1>8. ASSUME NEW n \in Message, Holds(q, n), n # Head(q) PROVE Holds(t, n)
  <2>1. PICK i \in 1 .. l : q[i] = n
    BY <1>2, <1>8 DEF Holds
  <2>2. i - 1 \in 1 .. l - 1
    BY <1>1, <1>8, <2>1
  <2>3. t[i - 1] = n
    BY <1>4, <2>1, <2>2
  <2>4. i - 1 \in 1 .. Len(t)
    BY <1>4, <2>2
  <2> QED  BY <2>3, <2>4 DEF Holds
<1> QED  BY <1>1, <1>2, <1>3, <1>5, <1>6, <1>7, <1>8

(* Dropping a queue drops the messages it holds, each by its name.         *)
LEMMA Unqueued ==
  ASSUME Shapes, NEW M \in SUBSET Message, NEW what \in Word, SayAll(M, what), Unqueue(M)
  PROVE  /\ worker' \in [Message -> Place] /\ said' \in [Message -> Word]
         /\ \A n \in Message : n \in M => worker'[n] = "done" /\ said'[n] = what
         /\ \A n \in Message : n \notin M => worker'[n] = worker[n] /\ said'[n] = said[n]
<1>1. "done" \in Place
  BY DEF Place
<1> QED  BY <1>1 DEF Shapes, SayAll, Unqueue

LEMMA QueueDropped ==
  ASSUME Shapes, QueuedOnce, NEW g \in Generation, DropQueue(g)
  PROVE  /\ queue' \in [Generation -> Seq(Message)] /\ queue'[g] = <<>>
         /\ \A h \in Generation : h # g => queue'[h] = queue[h]
         /\ worker' \in [Message -> Place] /\ said' \in [Message -> Word]
         /\ \A n \in Message : worker[n] = "queued" /\ genOf[n] = g =>
               worker'[n] = "done" /\ said'[n] # "nothing"
         /\ \A n \in Message : worker[n] # "queued" \/ genOf[n] # g =>
               worker'[n] = worker[n] /\ said'[n] = said[n]
<1>1. queue[g] \in Seq(Message)
  BY DEF Shapes
<1>2. PICK M \in SUBSET Message :
        M = Range(queue[g]) /\ \A n \in Message : n \in M <=> Holds(queue[g], n)
  BY <1>1, HoldsRange
<1>3. \A n \in Message : n \in M <=> worker[n] = "queued" /\ genOf[n] = g
  BY <1>2 DEF QueuedOnce
<1>4. SayAll(M, "dropped") /\ Unqueue(M) /\ queue' = [queue EXCEPT ![g] = <<>>]
  BY <1>2 DEF DropQueue
<1>5. "dropped" \in Word /\ "dropped" # "nothing"
  BY DEF Word
<1>6. <<>> \in Seq(Message)
  OBVIOUS
<1>7. /\ queue' \in [Generation -> Seq(Message)] /\ queue'[g] = <<>>
      /\ \A h \in Generation : h # g => queue'[h] = queue[h]
  BY <1>4, <1>6 DEF Shapes
<1>8. /\ worker' \in [Message -> Place] /\ said' \in [Message -> Word]
      /\ \A n \in Message : n \in M => worker'[n] = "done" /\ said'[n] = "dropped"
      /\ \A n \in Message : n \notin M => worker'[n] = worker[n] /\ said'[n] = said[n]
  BY <1>4, <1>5, Unqueued
<1> QED  BY <1>3, <1>5, <1>7, <1>8

(* pop_next_claimed finds nothing to run, or hands on the head of the queue. *)
Nothing(m, claims) ==
    draining \/ flight[genOf[m]] # None \/ genOf[m] \in claims \/ queue[genOf[m]] = <<>>

LEMMA PopsNothing ==
  ASSUME Shapes, NEW m \in Message, NEW claims, Pop(m, claims), Nothing(m, claims)
  PROVE  /\ starting' = claims /\ UNCHANGED <<queue, next>>
         /\ worker' \in [Message -> Place]
         /\ worker'[m] = IF held[m] = None THEN "done" ELSE "answer"
         /\ \A n \in Message : n # m => worker'[n] = worker[n]
<1>1. /\ starting' = claims /\ UNCHANGED <<queue, next>>
      /\ Goto(m, IF held[m] = None THEN "done" ELSE "answer")
  BY DEF Pop, Nothing, Gen
<1>2. "done" \in Place /\ "answer" \in Place
  BY DEF Place
<1> QED  BY <1>1, <1>2 DEF Goto, Shapes

LEMMA PopsNext ==
  ASSUME Shapes, QueuedOnce, NEW m \in Message, genOf[m] \in Generation, worker[m] # "queued",
         NEW claims, Pop(m, claims), ~Nothing(m, claims)
  PROVE  /\ starting' = claims \cup {genOf[m]}
         /\ worker' \in [Message -> Place] /\ next' \in [Message -> Message \cup {None}]
         /\ queue' \in [Generation -> Seq(Message)]
         /\ Distinct(queue'[genOf[m]]) /\ Len(queue'[genOf[m]]) <= Len(queue[genOf[m]])
         /\ \A g \in Generation : g # genOf[m] => queue'[g] = queue[g]
         /\ \A n \in Message : n # m => next'[n] = next[n]
         /\ \E h \in Message :
               /\ h # m /\ worker[h] = "queued" /\ genOf[h] = genOf[m] /\ next'[m] = h
               /\ \A n \in Message : Holds(queue'[genOf[m]], n)
                                     <=> Holds(queue[genOf[m]], n) /\ n # h
               /\ worker'[m] = "spawn" /\ worker'[h] = "popped"
               /\ \A n \in Message : n # m /\ n # h => worker'[n] = worker[n]
<1>1. PICK q \in Seq(Message) : q = queue[genOf[m]] /\ Distinct(q) /\ q # <<>>
  BY DEF Shapes, QueuedOnce, Nothing
<1>2. PICK t \in Seq(Message), h \in Message :
        /\ t = Tail(q) /\ h = Head(q) /\ Len(t) <= Len(q) /\ Holds(q, h) /\ Distinct(t)
        /\ \A n \in Message : Holds(t, n) <=> Holds(q, n) /\ n # h
  <2>1. /\ Tail(q) \in Seq(Message) /\ Len(Tail(q)) < Len(q)
        /\ Head(q) \in Message /\ Holds(q, Head(q)) /\ Distinct(Tail(q))
        /\ \A n \in Message : Holds(Tail(q), n) <=> Holds(q, n) /\ n # Head(q)
    BY <1>1, HoldsPopped
  <2>2. Len(Tail(q)) \in Nat /\ Len(q) \in Nat
    BY <2>1, LenProperties
  <2>3. Len(Tail(q)) <= Len(q)
    BY <2>1, <2>2
  <2>4. PICK t \in Seq(Message) : t = Tail(q)
    BY <2>1
  <2>5. PICK h \in Message : h = Head(q)
    BY <2>1
  <2> WITNESS t \in Seq(Message), h \in Message
  <2> QED  BY <2>1, <2>3, <2>4, <2>5
<1>3. h # m /\ worker[h] = "queued" /\ genOf[h] = genOf[m]
  <2>1. Holds(queue[genOf[m]], h)
    BY <1>1, <1>2
  <2> QED  BY <2>1 DEF QueuedOnce
<1>4. /\ starting' = claims \cup {genOf[m]} /\ queue' = [queue EXCEPT ![genOf[m]] = t]
      /\ next' = [next EXCEPT ![m] = h]
      /\ worker' = [worker EXCEPT ![m] = "spawn", ![h] = "popped"]
  <2>1. /\ starting' = claims \cup {genOf[m]}
        /\ queue' = [queue EXCEPT ![genOf[m]] = Tail(queue[genOf[m]])]
        /\ next' = [next EXCEPT ![m] = Head(queue[genOf[m]])]
        /\ worker' = [worker EXCEPT ![m] = "spawn", ![Head(queue[genOf[m]])] = "popped"]
    BY DEF Pop, Nothing, Gen
  <2> QED  BY <1>1, <1>2, <2>1
<1>5. /\ queue' \in [Generation -> Seq(Message)] /\ queue'[genOf[m]] = t
      /\ \A g \in Generation : g # genOf[m] => queue'[g] = queue[g]
  BY <1>4 DEF Shapes
<1>6. /\ next' \in [Message -> Message \cup {None}] /\ next'[m] = h
      /\ \A n \in Message : n # m => next'[n] = next[n]
  BY <1>4 DEF Shapes
<1>7. "spawn" \in Place /\ "popped" \in Place
  BY DEF Place
<1>8. /\ worker' \in [Message -> Place] /\ worker'[m] = "spawn" /\ worker'[h] = "popped"
      /\ \A n \in Message : n # m /\ n # h => worker'[n] = worker[n]
  BY <1>3, <1>4, <1>7 DEF Shapes
<1> QED  BY <1>1, <1>2, <1>3, <1>4, <1>5, <1>6, <1>8

(* A drain that has turns to settle settles one of them. *)
LEMMA Least ==
  ASSUME NEW S \in SUBSET Nat, S # {}
  PROVE  \E x \in S : \A y \in S : x <= y
<1> DEFINE R == OpToRel(<, Nat)
<1>1. IsWellFoundedOn(R, Nat)
  BY NatLessThanWellFounded
<1>2. R = {pair \in Nat \X Nat : pair[1] < pair[2]}
  BY DEF OpToRel
<1> HIDE DEF R
<1>3. PICK x \in S : \A y \in S : <<y, x>> \notin R
  BY <1>1, WFMin
<1>4. \A y \in S : ~(y < x)
  BY <1>2, <1>3
<1> QED  BY <1>3, <1>4

LEMMA TurnIsOne ==
  ASSUME Shapes, Admitted, Drained, NEW c \in Control, turns[c] # {}
  PROVE  Turn(c) \in turns[c] /\ Turn(c) \in Message /\ genOf[Turn(c)] \in Generation
<1>1. PICK T \in SUBSET Message : T = turns[c] /\ T # {}
  BY DEF Shapes
<1>2. \A m \in T : genOf[m] \in Generation
  <2>1. \A m \in T : worker[m] # "none"
    BY <1>1 DEF Drained
  <2> QED  BY <2>1 DEF Shapes, Admitted
<1>3. \A m \in T : genOf[m] \in Nat
  BY <1>2, Constants
<1>4. PICK S : S = {genOf[m] : m \in T}
  OBVIOUS
<1>5. S \in SUBSET Nat /\ S # {}
  BY <1>1, <1>3, <1>4
<1>6. PICK x \in S : \A y \in S : x <= y
  BY <1>5, Least
<1>7. PICK m \in T : genOf[m] = x
  BY <1>4, <1>6
<1>8. \A n \in T : genOf[m] <= genOf[n]
  BY <1>4, <1>6, <1>7
<1>9. Turn(c) \in T
  BY <1>1, <1>7, <1>8 DEF Turn
<1> QED  BY <1>1, <1>2, <1>9

-----------------------------------------------------------------------------
(* The ingress. *)

LEMMA IngestIgnoredKeeps ==
  ASSUME Inv, NEW m \in Message, Ingest(m), draining
  PROVE  Inv'
<1>1. Shapes /\ TypeOK /\ Admitted /\ QueuedOnce /\ HandedOn /\ OneClaim /\ Registered
      /\ LaneKnown /\ LaneRuns /\ Drained /\ Brought /\ NotYet /\ AnsweredOnce /\ Accounted
  BY Shaped DEF Inv
<1>2. /\ worker[m] = "none" /\ bound \in Generation /\ bound \in Nat /\ bound # None
      /\ genOf' = [genOf EXCEPT ![m] = bound] /\ genOf'[m] = bound
      /\ Goto(m, "ignored") /\ worker'[m] = "ignored"
      /\ \A n \in Message : n # m => worker'[n] = worker[n] /\ genOf'[n] = genOf[n]
      /\ draining
      /\ \A n \in Message : worker[n] # "none" => genOf[n] \in Generation
      /\ UNCHANGED <<bound, answers, flight, starting, queue, draining, held, next,
                     streamed, lane, ended, said, ctl, arg, turns, got>>
  <2>1. worker[m] = "none" /\ genOf' = [genOf EXCEPT ![m] = bound]
    BY DEF Ingest, At
  <2>2. Goto(m, "ignored")
    BY DEF Ingest, Admit
  <2>3. UNCHANGED <<bound, answers, flight, starting, queue, draining, held, next,
                    streamed, lane, ended, said, ctl, arg, turns, got>>
    <3>1. UNCHANGED <<bound, answers, flight, draining, held, next, streamed, lane,
                      ended, ctl, arg, turns, got>>
      BY DEF Ingest, harness, control
    <3>2. UNCHANGED <<starting, queue, said>>
      BY DEF Ingest, Admit
    <3> QED  BY <3>1, <3>2
  <2>4. bound \in Generation /\ bound \in Nat /\ bound # None
    BY <1>1, Constants DEF Shapes
  <2>5. genOf'[m] = bound /\ (\A n \in Message : n # m => genOf'[n] = genOf[n])
    BY <1>1, <2>1 DEF Shapes
  <2>6. worker'[m] = "ignored" /\ (\A n \in Message : n # m => worker'[n] = worker[n])
    BY <1>1, <2>2 DEF Shapes, Goto
  <2>7. \A n \in Message : worker[n] # "none" => genOf[n] \in Generation
    BY <1>1 DEF Shapes, Admitted
  <2> QED  BY <2>1, <2>2, <2>3, <2>4, <2>5, <2>6, <2>7
<1>3. \A n \in Message : Final(n)' = Final(n)
  BY <1>2, NothingJournaled
<1>4. genOf' \in [Message -> Generation \cup {None}]
  BY <1>1, <1>2 DEF Shapes
<1>5. worker' \in [Message -> Place]
  <2> "ignored" \in Place
    BY DEF Place
  <2> QED  BY <1>1, <1>2, Moves
<1>6. TypeOK'
  <2>1. UNCHANGED <<up, streamed, taken, cancelled, orders>>
    BY DEF Ingest, harness, control
  <2> QED  BY <1>1, <1>2, <1>4, <1>5, <2>1 DEF TypeOK
<1>7. AnsweredOnce'
  BY <1>1, <1>2, <1>3 DEF AnsweredOnce
<1>8. Admitted'
  BY <1>1, <1>2 DEF Admitted
<1>9. QueuedOnce'
  BY <1>1, <1>2 DEF QueuedOnce
<1>10. HandedOn'
  BY <1>1, <1>2 DEF HandedOn
<1>11. OneClaim'
  BY <1>1, <1>2 DEF OneClaim, Claiming
<1>12. Registered'
  BY <1>1, <1>2 DEF Registered
<1>13. LaneKnown'
  BY <1>1, <1>2, Constants DEF LaneKnown, OneClaim, Claiming, Registered, LaneRuns, Unasked
<1>14. LaneRuns'
  BY <1>1, <1>2 DEF LaneRuns, Unasked
<1>15. Drained'
  BY <1>1, <1>2 DEF Drained, Settling
<1>16. Brought'
  BY <1>1, <1>2 DEF Brought
<1>17. NotYet'
  BY <1>1, <1>2, <1>3 DEF NotYet, Owed
<1>18. Accounted'
  BY <1>1, <1>2, <1>3 DEF Accounted, Owed, Answered
<1> QED  BY <1>6, <1>7, <1>8, <1>9, <1>10, <1>11, <1>12, <1>13, <1>14, <1>15, <1>16,
         <1>17, <1>18 DEF Inv

LEMMA IngestRefusedKeeps ==
  ASSUME Inv, NEW m \in Message, Ingest(m), ~draining, Busy(bound), QueueFull(bound)
  PROVE  Inv'
<1>1. Shapes /\ TypeOK /\ Admitted /\ QueuedOnce /\ HandedOn /\ OneClaim /\ Registered
      /\ LaneKnown /\ LaneRuns /\ Drained /\ Brought /\ NotYet /\ AnsweredOnce /\ Accounted
  BY Shaped DEF Inv
<1>2. /\ worker[m] = "none" /\ bound \in Generation /\ bound \in Nat /\ bound # None
      /\ genOf' = [genOf EXCEPT ![m] = bound] /\ genOf'[m] = bound
      /\ Goto(m, "done") /\ worker'[m] = "done"
      /\ \A n \in Message : n # m => worker'[n] = worker[n] /\ genOf'[n] = genOf[n]
      /\ said' = [said EXCEPT ![m] = "queue_full"]
      /\ said'[m] = "queue_full" /\ (\A n \in Message : n # m => said'[n] = said[n])
      /\ \A n \in Message : worker[n] # "none" => genOf[n] \in Generation
      /\ UNCHANGED <<bound, answers, flight, starting, queue, draining, held, next,
                     streamed, lane, ended, ctl, arg, turns, got>>
  <2>1. worker[m] = "none" /\ genOf' = [genOf EXCEPT ![m] = bound]
    BY DEF Ingest, At
  <2>2. Goto(m, "done")
    BY DEF Ingest, Admit
  <2>3. UNCHANGED <<bound, answers, flight, starting, queue, draining, held, next,
                    streamed, lane, ended, ctl, arg, turns, got>>
    <3>1. UNCHANGED <<bound, answers, flight, draining, held, next, streamed, lane,
                      ended, ctl, arg, turns, got>>
      BY DEF Ingest, harness, control
    <3>2. UNCHANGED <<starting, queue>>
      BY DEF Ingest, Admit
    <3> QED  BY <3>1, <3>2
  <2>4. bound \in Generation /\ bound \in Nat /\ bound # None
    BY <1>1, Constants DEF Shapes
  <2>5. genOf'[m] = bound /\ (\A n \in Message : n # m => genOf'[n] = genOf[n])
    BY <1>1, <2>1 DEF Shapes
  <2>6. worker'[m] = "done" /\ (\A n \in Message : n # m => worker'[n] = worker[n])
    BY <1>1, <2>2 DEF Shapes, Goto
  <2>7. \A n \in Message : worker[n] # "none" => genOf[n] \in Generation
    BY <1>1 DEF Shapes, Admitted
  <2>8. said' = [said EXCEPT ![m] = "queue_full"]
    BY DEF Ingest, Admit
  <2>9. said'[m] = "queue_full" /\ (\A n \in Message : n # m => said'[n] = said[n])
    BY <1>1, <2>8 DEF Shapes
  <2> QED  BY <2>1, <2>2, <2>3, <2>4, <2>5, <2>6, <2>7, <2>8, <2>9
<1>3. \A n \in Message : Final(n)' = Final(n)
  BY <1>2, NothingJournaled
<1>4. genOf' \in [Message -> Generation \cup {None}]
  BY <1>1, <1>2 DEF Shapes
<1>5. worker' \in [Message -> Place]
  <2> "done" \in Place
    BY DEF Place
  <2> QED  BY <1>1, <1>2, Moves
<1>6. said' \in [Message -> Word]
  BY <1>1, <1>2 DEF Shapes, Word, Ingest, At, Goto, Admit, Busy, QueueFull, control
<1>7. TypeOK'
  <2>1. UNCHANGED <<up, streamed, taken, cancelled, orders>>
    BY DEF Ingest, harness, control
  <2> QED  BY <1>1, <1>2, <1>4, <1>5, <1>6, <2>1 DEF TypeOK
<1>8. AnsweredOnce'
  BY <1>1, <1>2, <1>3 DEF AnsweredOnce
<1>9. Admitted'
  BY <1>1, <1>2 DEF Admitted
<1>10. QueuedOnce'
  BY <1>1, <1>2 DEF QueuedOnce
<1>11. HandedOn'
  BY <1>1, <1>2 DEF HandedOn
<1>12. OneClaim'
  BY <1>1, <1>2 DEF OneClaim, Claiming
<1>13. Registered'
  BY <1>1, <1>2 DEF Registered
<1>14. LaneKnown'
  BY <1>1, <1>2, Constants DEF LaneKnown, OneClaim, Claiming, Registered, LaneRuns, Unasked
<1>15. LaneRuns'
  BY <1>1, <1>2 DEF LaneRuns, Unasked
<1>16. Drained'
  BY <1>1, <1>2 DEF Drained, Settling
<1>17. Brought'
  BY <1>1, <1>2 DEF Brought
<1>18. NotYet'
  BY <1>1, <1>2, <1>3 DEF NotYet, Owed
<1>19. Accounted'
  BY <1>1, <1>2, <1>3 DEF Accounted, Owed, Answered
<1> QED  BY <1>7, <1>8, <1>9, <1>10, <1>11, <1>12, <1>13, <1>14, <1>15, <1>16, <1>17,
         <1>18, <1>19 DEF Inv

LEMMA IngestQueuedKeeps ==
  ASSUME Inv, NEW m \in Message, Ingest(m), ~draining, Busy(bound), ~QueueFull(bound)
  PROVE  Inv'
<1>1. Shapes /\ TypeOK /\ Admitted /\ QueuedOnce /\ HandedOn /\ OneClaim /\ Registered
      /\ LaneKnown /\ LaneRuns /\ Drained /\ Brought /\ NotYet /\ AnsweredOnce /\ Accounted
  BY Shaped DEF Inv
<1>2. /\ worker[m] = "none" /\ bound \in Generation /\ bound \in Nat /\ bound # None
      /\ genOf' = [genOf EXCEPT ![m] = bound] /\ genOf'[m] = bound
      /\ Goto(m, "queued") /\ worker'[m] = "queued"
      /\ \A n \in Message : n # m => worker'[n] = worker[n] /\ genOf'[n] = genOf[n]
      /\ ~draining
      /\ queue' = [queue EXCEPT ![bound] = Append(queue[bound], m)]
      /\ \A n \in Message : worker[n] # "none" => genOf[n] \in Generation
      /\ UNCHANGED <<bound, answers, flight, starting, draining, held, next, streamed,
                     lane, ended, said, ctl, arg, turns, got>>
  <2>1. worker[m] = "none" /\ genOf' = [genOf EXCEPT ![m] = bound]
    BY DEF Ingest, At
  <2>2. Goto(m, "queued")
    BY DEF Ingest, Admit
  <2>3. UNCHANGED <<bound, answers, flight, starting, draining, held, next, streamed,
                    lane, ended, said, ctl, arg, turns, got>>
    <3>1. UNCHANGED <<bound, answers, flight, draining, held, next, streamed, lane,
                      ended, ctl, arg, turns, got>>
      BY DEF Ingest, harness, control
    <3>2. UNCHANGED <<starting, said>>
      BY DEF Ingest, Admit
    <3> QED  BY <3>1, <3>2
  <2>4. bound \in Generation /\ bound \in Nat /\ bound # None
    BY <1>1, Constants DEF Shapes
  <2>5. genOf'[m] = bound /\ (\A n \in Message : n # m => genOf'[n] = genOf[n])
    BY <1>1, <2>1 DEF Shapes
  <2>6. worker'[m] = "queued" /\ (\A n \in Message : n # m => worker'[n] = worker[n])
    BY <1>1, <2>2 DEF Shapes, Goto
  <2>7. \A n \in Message : worker[n] # "none" => genOf[n] \in Generation
    BY <1>1 DEF Shapes, Admitted
  <2>8. queue' = [queue EXCEPT ![bound] = Append(queue[bound], m)]
    BY DEF Ingest, Admit
  <2> QED  BY <2>1, <2>2, <2>3, <2>4, <2>5, <2>6, <2>7, <2>8
<1>3. Distinct(queue[bound]) /\ ~Holds(queue[bound], m) /\ queue[bound] \in Seq(Message)
  BY <1>1, <1>2 DEF QueuedOnce, Shapes
<1>4. PICK q \in Seq(Message) :
        /\ q = Append(queue[bound], m) /\ Len(q) = Len(queue[bound]) + 1 /\ Distinct(q)
        /\ \A n \in Message : Holds(q, n) <=> Holds(queue[bound], n) \/ n = m
  BY <1>3, HoldsAppended
<1>5. /\ queue'[bound] = q /\ queue' \in [Generation -> Seq(Message)]
      /\ \A g \in Generation : g # bound => queue'[g] = queue[g]
  BY <1>1, <1>2, <1>4 DEF Shapes
<1>6. \A g \in Generation : Len(queue'[g]) <= QueueLimit
  <2>1. Len(queue[bound]) < QueueLimit /\ Len(queue[bound]) \in Nat
    BY <1>2, <1>3, BoundsAssumption, LenProperties DEF QueueFull
  <2> QED  BY <1>1, <1>2, <1>4, <1>5, <2>1, BoundsAssumption DEF TypeOK
<1>7. \A n \in Message : Final(n)' = Final(n)
  BY <1>2, <1>3, <1>4, <1>5, <1>6, NothingJournaled
<1>8. genOf' \in [Message -> Generation \cup {None}]
  BY <1>1, <1>2, <1>3, <1>4, <1>5, <1>6 DEF Shapes
<1>9. worker' \in [Message -> Place]
  <2> "queued" \in Place
    BY DEF Place
  <2> QED  BY <1>1, <1>2, <1>3, <1>4, <1>5, <1>6, Moves
<1>10. TypeOK'
  <2>1. UNCHANGED <<up, streamed, taken, cancelled, orders>>
    BY DEF Ingest, harness, control
  <2> QED  BY <1>1, <1>2, <1>3, <1>4, <1>5, <1>6, <1>8, <1>9, <2>1 DEF TypeOK
<1>11. AnsweredOnce'
  BY <1>1, <1>2, <1>3, <1>4, <1>5, <1>6, <1>7 DEF AnsweredOnce
<1>12. Admitted'
  BY <1>1, <1>2 DEF Admitted
<1>13. QueuedOnce'
  <2>1. \A g \in Generation : Distinct(queue'[g])
    BY <1>1, <1>4, <1>5 DEF QueuedOnce
  <2>2. ASSUME NEW g \in Generation, NEW n \in Message
        PROVE  Holds(queue'[g], n) <=> worker'[n] = "queued" /\ genOf'[n] = g
    <3>1. Holds(queue[g], n) <=> worker[n] = "queued" /\ genOf[n] = g
      BY <1>1 DEF QueuedOnce
    <3>2. CASE g = bound
      <4>1. Holds(queue'[g], n) <=> Holds(queue[g], n) \/ n = m
        BY <1>4, <1>5, <3>2
      <4> QED  BY <1>2, <3>1, <3>2, <4>1
    <3>3. CASE g # bound
      BY <1>2, <1>5, <3>1, <3>3
    <3> QED  BY <3>2, <3>3
  <2> QED  BY <2>1, <2>2 DEF QueuedOnce
<1>14. HandedOn'
  BY <1>1, <1>2 DEF HandedOn
<1>15. OneClaim'
  BY <1>1, <1>2 DEF OneClaim, Claiming
<1>16. Registered'
  BY <1>1, <1>2 DEF Registered
<1>17. LaneKnown'
  BY <1>1, <1>2, Constants DEF LaneKnown, OneClaim, Claiming, Registered, LaneRuns, Unasked
<1>18. LaneRuns'
  BY <1>1, <1>2 DEF LaneRuns, Unasked
<1>19. Drained'
  BY <1>1, <1>2 DEF Drained, Settling
<1>20. Brought'
  BY <1>1, <1>2 DEF Brought
<1>21. NotYet'
  BY <1>1, <1>2, <1>3, <1>4, <1>5, <1>6, <1>7 DEF NotYet, Owed
<1>22. Accounted'
  BY <1>1, <1>2, <1>3, <1>4, <1>5, <1>6, <1>7 DEF Accounted, Owed, Answered
<1> QED  BY <1>10, <1>11, <1>12, <1>13, <1>14, <1>15, <1>16, <1>17, <1>18, <1>19, <1>20,
         <1>21, <1>22 DEF Inv

LEMMA IngestClaimsKeeps ==
  ASSUME Inv, NEW m \in Message, Ingest(m), ~draining, ~Busy(bound)
  PROVE  Inv'
<1>1. Shapes /\ TypeOK /\ Admitted /\ QueuedOnce /\ HandedOn /\ OneClaim /\ Registered
      /\ LaneKnown /\ LaneRuns /\ Drained /\ Brought /\ NotYet /\ AnsweredOnce /\ Accounted
  BY Shaped DEF Inv
<1>2. /\ worker[m] = "none" /\ bound \in Generation /\ bound \in Nat /\ bound # None
      /\ genOf' = [genOf EXCEPT ![m] = bound] /\ genOf'[m] = bound
      /\ Goto(m, "prompt") /\ worker'[m] = "prompt"
      /\ \A n \in Message : n # m => worker'[n] = worker[n] /\ genOf'[n] = genOf[n]
      /\ ~draining
      /\ bound \notin starting /\ flight[bound] = None /\ starting' = starting \cup {bound}
      /\ \A n \in Message : worker[n] # "none" => genOf[n] \in Generation
      /\ UNCHANGED <<bound, answers, flight, queue, draining, held, next, streamed, lane,
                     ended, said, ctl, arg, turns, got>>
  <2>1. worker[m] = "none" /\ genOf' = [genOf EXCEPT ![m] = bound]
    BY DEF Ingest, At
  <2>2. Goto(m, "prompt")
    BY DEF Ingest, Admit
  <2>3. UNCHANGED <<bound, answers, flight, queue, draining, held, next, streamed, lane,
                    ended, said, ctl, arg, turns, got>>
    <3>1. UNCHANGED <<bound, answers, flight, draining, held, next, streamed, lane,
                      ended, ctl, arg, turns, got>>
      BY DEF Ingest, harness, control
    <3>2. UNCHANGED <<queue, said>>
      BY DEF Ingest, Admit
    <3> QED  BY <3>1, <3>2
  <2>4. bound \in Generation /\ bound \in Nat /\ bound # None
    BY <1>1, Constants DEF Shapes
  <2>5. genOf'[m] = bound /\ (\A n \in Message : n # m => genOf'[n] = genOf[n])
    BY <1>1, <2>1 DEF Shapes
  <2>6. worker'[m] = "prompt" /\ (\A n \in Message : n # m => worker'[n] = worker[n])
    BY <1>1, <2>2 DEF Shapes, Goto
  <2>7. \A n \in Message : worker[n] # "none" => genOf[n] \in Generation
    BY <1>1 DEF Shapes, Admitted
  <2>8. bound \notin starting /\ flight[bound] = None /\ starting' = starting \cup {bound}
    BY DEF Ingest, Admit, Busy
  <2> QED  BY <2>1, <2>2, <2>3, <2>4, <2>5, <2>6, <2>7, <2>8
<1>3. lane[bound] = None
  BY <1>1, <1>2, Constants DEF LaneKnown, OneClaim, Claiming, Shapes
<1>4. \A n \in Message : Final(n)' = Final(n)
  BY <1>2, <1>3, NothingJournaled
<1>5. genOf' \in [Message -> Generation \cup {None}]
  BY <1>1, <1>2, <1>3 DEF Shapes
<1>6. worker' \in [Message -> Place]
  <2> "prompt" \in Place
    BY DEF Place
  <2> QED  BY <1>1, <1>2, <1>3, Moves
<1>7. starting' \subseteq Generation
  BY <1>1, <1>2, <1>3 DEF Shapes, Ingest, At, Goto, Admit, Busy, QueueFull, control
<1>8. TypeOK'
  <2>1. UNCHANGED <<up, streamed, taken, cancelled, orders>>
    BY DEF Ingest, harness, control
  <2> QED  BY <1>1, <1>2, <1>3, <1>5, <1>6, <1>7, <2>1 DEF TypeOK
<1>9. AnsweredOnce'
  BY <1>1, <1>2, <1>3, <1>4 DEF AnsweredOnce
<1>10. Admitted'
  BY <1>1, <1>2 DEF Admitted
<1>11. QueuedOnce'
  BY <1>1, <1>2 DEF QueuedOnce
<1>12. HandedOn'
  BY <1>1, <1>2 DEF HandedOn
<1>13. OneClaim'
  BY <1>1, <1>2 DEF OneClaim, Claiming
<1>14. Registered'
  BY <1>1, <1>2 DEF Registered
<1>15. LaneKnown'
  BY <1>1, <1>2, <1>3, Constants DEF LaneKnown, LaneRuns, Unasked
<1>16. LaneRuns'
  BY <1>1, <1>2 DEF LaneRuns, Unasked
<1>17. Drained'
  BY <1>1, <1>2 DEF Drained, Settling
<1>18. Brought'
  BY <1>1, <1>2 DEF Brought
<1>19. NotYet'
  BY <1>1, <1>2, <1>3, <1>4 DEF NotYet, Owed
<1>20. Accounted'
  BY <1>1, <1>2, <1>3, <1>4 DEF Accounted, Owed, Answered
<1> QED  BY <1>8, <1>9, <1>10, <1>11, <1>12, <1>13, <1>14, <1>15, <1>16, <1>17, <1>18,
         <1>19, <1>20 DEF Inv

-----------------------------------------------------------------------------
(* The worker of a message. *)

LEMMA PromptKeeps ==
  ASSUME Inv, NEW m \in Message, Prompt(m)
  PROVE  Inv'
<1>1. Shapes /\ TypeOK /\ Admitted /\ QueuedOnce /\ HandedOn /\ OneClaim /\ Registered
      /\ LaneKnown /\ LaneRuns /\ Drained /\ Brought /\ NotYet /\ AnsweredOnce /\ Accounted
  BY Shaped DEF Inv
<1>2. /\ genOf[m] \in Generation /\ worker[m] = "prompt"
      /\ \A n \in Message : n # m => worker'[n] = worker[n] /\ held'[n] = held[n]
      /\ \/ /\ worker'[m] = "register" /\ held'[m] = held[m] /\ lane[genOf[m]] = None
            /\ lane'[genOf[m]] = m
            /\ \A g \in Generation : g # genOf[m] => lane'[g] = lane[g]
         \/ worker'[m] = "release" /\ held'[m] # None /\ held'[m] # "Replied" /\ lane' = lane
      /\ \A n \in Message : worker[n] # "none" => genOf[n] \in Generation
      /\ UNCHANGED <<bound, genOf, answers, flight, starting, queue, draining, next,
                     streamed, ended, said, ctl, arg, turns, got>>
  BY <1>1, Constants DEF Shapes, Admitted, Outcome, Prompt, At, Goto, Gen, kernel, plane,
     control
<1>3. \A n \in Message : Final(n)' = Final(n)
  BY <1>2, NothingJournaled
<1>4. worker' \in [Message -> Place]
  <2>1. "register" \in Place /\ "release" \in Place
    BY DEF Place
  <2>2. Goto(m, "register") \/ Goto(m, "release")
    BY DEF Prompt
  <2> QED  BY <1>1, <2>1, <2>2, Moves
<1>5. held' \in [Message -> Outcome \cup {None}]
  <2>1. held' = held \/ held' = [held EXCEPT ![m] = "Failed"]
    BY DEF Prompt
  <2> QED  BY <1>1, <2>1 DEF Shapes, Outcome
<1>6. lane' \in [Generation -> Message \cup {None}]
  <2>1. lane' = lane \/ lane' = [lane EXCEPT ![genOf[m]] = m]
    BY DEF Prompt, Gen
  <2> QED  BY <1>1, <2>1 DEF Shapes
<1>7. TypeOK'
  BY <1>1, <1>2, <1>4, <1>5, <1>6 DEF TypeOK, Prompt, At, Goto, Gen, kernel, plane, control
<1>8. AnsweredOnce'
  BY <1>1, <1>2, <1>3 DEF AnsweredOnce
<1>9. Admitted'
  BY <1>1, <1>2 DEF Admitted
<1>10. QueuedOnce'
  BY <1>1, <1>2 DEF QueuedOnce
<1>11. HandedOn'
  BY <1>1, <1>2 DEF HandedOn
<1>12. OneClaim'
  BY <1>1, <1>2 DEF OneClaim, Claiming
<1>13. Registered'
  BY <1>1, <1>2 DEF Registered
<1>14. LaneKnown'
  BY <1>1, <1>2, Constants DEF LaneKnown, OneClaim, Claiming, Registered, LaneRuns, Unasked
<1>15. LaneRuns'
  BY <1>1, <1>2 DEF LaneRuns, Unasked
<1>16. Drained'
  BY <1>1, <1>2 DEF Drained, Settling
<1>17. Brought'
  BY <1>1, <1>2 DEF Brought
<1>18. NotYet'
  BY <1>1, <1>2, <1>3 DEF NotYet, Owed
<1>19. Accounted'
  BY <1>1, <1>2, <1>3 DEF Accounted, Owed, Answered
<1> QED  BY <1>7, <1>8, <1>9, <1>10, <1>11, <1>12, <1>13, <1>14, <1>15, <1>16, <1>17,
         <1>18, <1>19 DEF Inv

LEMMA ReleaseNothingKeeps ==
  ASSUME Inv, NEW m \in Message, Release(m), Nothing(m, starting \ {genOf[m]})
  PROVE  Inv'
<1>1. Shapes /\ TypeOK /\ Admitted /\ QueuedOnce /\ HandedOn /\ OneClaim /\ Registered
      /\ LaneKnown /\ LaneRuns /\ Drained /\ Brought /\ NotYet /\ AnsweredOnce /\ Accounted
  BY Shaped DEF Inv
<1>2. worker[m] = "release" /\ genOf[m] \in Generation /\ Pop(m, starting \ {genOf[m]})
  BY <1>1, Constants DEF Release, At, Gen, Shapes, Admitted
<1>3. /\ starting' = starting \ {genOf[m]} /\ UNCHANGED <<queue, next>>
      /\ worker' \in [Message -> Place]
      /\ worker'[m] = IF held[m] = None THEN "done" ELSE "answer"
      /\ \A n \in Message : n # m => worker'[n] = worker[n]
  BY <1>1, <1>2, PopsNothing
<1>4. /\ worker[m] = "release" /\ worker'[m] = "answer" /\ held[m] # None
      /\ starting' = starting \ {genOf[m]}
      /\ UNCHANGED <<queue, next>>
      /\ (\A n \in Message : n # m => worker'[n] = worker[n])
      /\ \A n \in Message : worker[n] # "none" => genOf[n] \in Generation
      /\ UNCHANGED <<bound, genOf, answers, flight, queue, draining, held, next,
                     streamed, lane, ended, said, ctl, arg, turns, got>>
  <2>1. UNCHANGED <<bound, genOf, answers, flight, draining, held, streamed, lane, ended,
                    said, ctl, arg, turns, got>>
    BY DEF Release, kernel, harness, control
  <2>2. \A n \in Message : worker[n] # "none" => genOf[n] \in Generation
    BY <1>1 DEF Shapes, Admitted
  <2>3. held[m] # None
    BY <1>1, <1>2 DEF Brought
  <2> QED  BY <1>2, <1>3, <2>1, <2>2, <2>3
<1>5. TypeOK'
  <2>1. UNCHANGED <<up, taken, cancelled, orders>>
    BY DEF Release, harness, control
  <2>2. starting' \subseteq Generation
    BY <1>1, <1>3 DEF Shapes
  <2> QED  BY <1>1, <1>3, <1>4, <2>1, <2>2 DEF TypeOK
<1>6. \A n \in Message : Final(n)' = Final(n)
  BY <1>4, <1>2, <1>3, <1>5, NothingJournaled
<1>7. AnsweredOnce'
  BY <1>1, <1>4, <1>2, <1>3, <1>5, <1>6 DEF AnsweredOnce
<1>8. Admitted'
  BY <1>1, <1>4, <1>2, <1>3 DEF Admitted
<1>9. QueuedOnce'
  BY <1>1, <1>4, <1>2, <1>3 DEF QueuedOnce
<1>10. HandedOn'
  BY <1>1, <1>4, <1>2, <1>3 DEF HandedOn
<1>11. OneClaim'
  BY <1>1, <1>4, <1>2, <1>3 DEF OneClaim, Claiming
<1>12. Registered'
  BY <1>1, <1>4, <1>2, <1>3 DEF Registered
<1>13. LaneKnown'
  BY <1>1, <1>4, <1>2, <1>3 DEF LaneKnown
<1>14. LaneRuns'
  BY <1>1, <1>4, <1>2, <1>3 DEF LaneRuns, Unasked
<1>15. Drained'
  BY <1>1, <1>4, <1>2, <1>3 DEF Drained, Settling
<1>16. Brought'
  BY <1>1, <1>4, <1>2, <1>3 DEF Brought
<1>17. NotYet'
  BY <1>1, <1>4, <1>2, <1>3, <1>5, <1>6 DEF NotYet, Owed
<1>18. Accounted'
  BY <1>1, <1>4, <1>2, <1>3, <1>5, <1>6 DEF Accounted, Owed, Answered
<1> QED  BY <1>5, <1>7, <1>8, <1>9, <1>10, <1>11, <1>12, <1>13, <1>14, <1>15, <1>16,
         <1>17, <1>18 DEF Inv

LEMMA ReleaseNextKeeps ==
  ASSUME Inv, NEW m \in Message, Release(m), ~Nothing(m, starting \ {genOf[m]})
  PROVE  Inv'
<1>1. Shapes /\ TypeOK /\ Admitted /\ QueuedOnce /\ HandedOn /\ OneClaim /\ Registered
      /\ LaneKnown /\ LaneRuns /\ Drained /\ Brought /\ NotYet /\ AnsweredOnce /\ Accounted
  BY Shaped DEF Inv
<1>2. worker[m] = "release" /\ genOf[m] \in Generation /\ Pop(m, starting \ {genOf[m]})
  BY <1>1, Constants DEF Release, At, Gen, Shapes, Admitted
<1>3. /\ starting' = (starting \ {genOf[m]}) \cup {genOf[m]}
      /\ worker' \in [Message -> Place] /\ next' \in [Message -> Message \cup {None}]
      /\ queue' \in [Generation -> Seq(Message)]
      /\ Distinct(queue'[genOf[m]]) /\ Len(queue'[genOf[m]]) <= Len(queue[genOf[m]])
      /\ \A g \in Generation : g # genOf[m] => queue'[g] = queue[g]
      /\ \A n \in Message : n # m => next'[n] = next[n]
      /\ \E h \in Message :
            /\ h # m /\ worker[h] = "queued" /\ genOf[h] = genOf[m] /\ next'[m] = h
            /\ \A n \in Message : Holds(queue'[genOf[m]], n)
                                  <=> Holds(queue[genOf[m]], n) /\ n # h
            /\ worker'[m] = "spawn" /\ worker'[h] = "popped"
            /\ \A n \in Message : n # m /\ n # h => worker'[n] = worker[n]
  BY <1>1, <1>2, PopsNext
<1>4. PICK h \in Message :
        /\ h # m /\ worker[h] = "queued" /\ genOf[h] = genOf[m] /\ next'[m] = h
        /\ \A n \in Message : Holds(queue'[genOf[m]], n)
                              <=> Holds(queue[genOf[m]], n) /\ n # h
        /\ worker'[m] = "spawn" /\ worker'[h] = "popped"
        /\ \A n \in Message : n # m /\ n # h => worker'[n] = worker[n]
  BY <1>3
<1>5. /\ h # m /\ worker[h] = "queued" /\ genOf[h] = genOf[m]
      /\ genOf[m] \in Generation /\ worker[m] = "release"
      /\ worker'[m] = "spawn" /\ worker'[h] = "popped" /\ held[m] # None
      /\ (\A n \in Message : n # m /\ n # h => worker'[n] = worker[n])
      /\ next'[m] = h /\ (\A n \in Message : n # m => next'[n] = next[n])
      /\ starting' = (starting \ {genOf[m]}) \cup {genOf[m]}
      /\ ~draining /\ flight[genOf[m]] = None /\ lane[genOf[m]] = None
      /\ (\A n \in Message : n # m /\ worker[n] \in Claiming => genOf[n] # genOf[m])
      /\ \A n \in Message : worker[n] # "none" => genOf[n] \in Generation
      /\ UNCHANGED <<bound, genOf, answers, flight, draining, held, streamed, lane,
                     ended, said, ctl, arg, turns, got>>
  <2>1. UNCHANGED <<bound, genOf, answers, flight, draining, held, streamed, lane, ended,
                    said, ctl, arg, turns, got>>
    BY DEF Release, kernel, harness, control
  <2>2. \A n \in Message : worker[n] # "none" => genOf[n] \in Generation
    BY <1>1 DEF Shapes, Admitted
  <2>3. ~draining /\ flight[genOf[m]] = None /\ genOf[m] \notin starting \ {genOf[m]}
    BY DEF Nothing
  <2>4. lane[genOf[m]] = None
    BY <1>1, <1>2, Constants DEF LaneKnown
  <2>5. \A n \in Message : n # m /\ worker[n] \in Claiming => genOf[n] # genOf[m]
    BY <1>1, <1>2, <2>3 DEF OneClaim, Claiming
  <2>6. held[m] # None
    BY <1>1, <1>2 DEF Brought
  <2> QED  BY <1>2, <1>3, <1>4, <2>1, <2>2, <2>3, <2>4, <2>5, <2>6
<1>6. TypeOK'
  <2>1. UNCHANGED <<up, taken, cancelled, orders>>
    BY DEF Release, harness, control
  <2>2. starting' \subseteq Generation
    BY <1>1, <1>2, <1>3 DEF Shapes
  <2>3. \A g \in Generation : Len(queue'[g]) <= QueueLimit
    <3>1. \A g \in Generation : queue[g] \in Seq(Message) /\ queue'[g] \in Seq(Message)
      BY <1>1, <1>3 DEF Shapes
    <3>2. \A g \in Generation : Len(queue[g]) \in Nat /\ Len(queue'[g]) \in Nat
      BY <3>1, LenProperties
    <3>3. \A g \in Generation : Len(queue[g]) <= QueueLimit /\ Len(queue'[g]) <= Len(queue[g])
      <4>1. \A g \in Generation : Len(queue[g]) <= QueueLimit
        BY <1>1 DEF TypeOK
      <4>2. \A g \in Generation : Len(queue'[g]) <= Len(queue[g])
        BY <1>3, <3>2
      <4> QED  BY <4>1, <4>2
    <3> QED  BY <3>2, <3>3, BoundsAssumption
  <2> QED  BY <1>1, <1>3, <1>5, <2>1, <2>2, <2>3 DEF TypeOK
<1>7. \A n \in Message : Final(n)' = Final(n)
  BY <1>5, <1>2, <1>3, <1>4, <1>6, NothingJournaled
<1>8. AnsweredOnce'
  BY <1>1, <1>5, <1>2, <1>3, <1>4, <1>6, <1>7 DEF AnsweredOnce
<1>9. Admitted'
  BY <1>1, <1>5 DEF Admitted
<1>10. QueuedOnce'
  <2>1. \A g \in Generation : Distinct(queue'[g])
    BY <1>1, <1>3 DEF QueuedOnce
  <2>2. \A g \in Generation, n \in Message : Holds(queue'[g], n) <=> Holds(queue[g], n) /\ n # h
    <3>1. \A g \in Generation : g # genOf[m] => ~Holds(queue[g], h)
      BY <1>1, <1>4 DEF QueuedOnce
    <3>2. \A g \in Generation : g # genOf[m] => queue'[g] = queue[g]
      BY <1>3
    <3>3. \A g \in Generation : g # genOf[m] =>
            \A n \in Message : Holds(queue'[g], n) <=> Holds(queue[g], n) /\ n # h
      BY <3>1, <3>2
    <3> QED  BY <1>4, <3>3
  <2> QED  BY <1>1, <1>5, <2>1, <2>2 DEF QueuedOnce
<1>11. HandedOn'
  BY <1>1, <1>5 DEF HandedOn
<1>12. OneClaim'
  BY <1>1, <1>5 DEF OneClaim, Claiming
<1>13. Registered'
  BY <1>1, <1>5 DEF Registered
<1>14. LaneKnown'
  BY <1>1, <1>5 DEF LaneKnown
<1>15. LaneRuns'
  BY <1>1, <1>5 DEF LaneRuns, Unasked
<1>16. Drained'
  BY <1>1, <1>5 DEF Drained, Settling
<1>17. Brought'
  BY <1>1, <1>5 DEF Brought
<1>18. NotYet'
  BY <1>1, <1>5, <1>7 DEF NotYet, Owed
<1>19. Accounted'
  BY <1>1, <1>5, <1>7 DEF Accounted, Answered, Owed, Drained, Registered
<1> QED  BY <1>6, <1>8, <1>9, <1>10, <1>11, <1>12, <1>13, <1>14, <1>15, <1>16, <1>17,
         <1>18, <1>19 DEF Inv

LEMMA SpawnKeeps ==
  ASSUME Inv, NEW m \in Message, Spawn(m)
  PROVE  Inv'
<1>1. Shapes /\ TypeOK /\ Admitted /\ QueuedOnce /\ HandedOn /\ OneClaim /\ Registered
      /\ LaneKnown /\ LaneRuns /\ Drained /\ Brought /\ NotYet /\ AnsweredOnce /\ Accounted
  BY Shaped DEF Inv
<1>2. /\ worker[m] = "spawn" /\ next[m] \in Message /\ next[m] # m /\ worker[next[m]] = "popped"
      /\ \A n \in Message : n # m => next'[n] = next[n]
      /\ next'[m] = None
      /\ \A n \in Message : n \notin {m, next[m]} => worker'[n] = worker[n]
      /\ worker'[m] = IF held[m] = None THEN "done" ELSE "answer"
      /\ worker'[next[m]] = IF bound = genOf[next[m]] THEN "prompt" ELSE "fell"
      /\ genOf[next[m]] \in Nat /\ bound \in Nat
      /\ \A n \in Message : worker[n] # "none" => genOf[n] \in Generation
      /\ UNCHANGED <<bound, genOf, answers, flight, starting, queue, draining, held,
                     streamed, lane, ended, said, ctl, arg, turns, got>>
  BY <1>1, Constants DEF Shapes, Admitted, Outcome, HandedOn, Spawn, At, Gen, kernel,
     plane, harness, control
<1>3. \A n \in Message : Final(n)' = Final(n)
  BY <1>2, NothingJournaled
<1>4. worker' \in [Message -> Place]
  BY <1>1, <1>2 DEF Shapes, Place, Spawn, At, Gen, kernel, plane, harness, control
<1>5. next' \in [Message -> Message \cup {None}]
  BY <1>1, <1>2 DEF Shapes, Spawn, At, Gen, kernel, plane, harness, control
<1>6. TypeOK'
  BY <1>1, <1>2, <1>4, <1>5 DEF TypeOK, Spawn, At, Gen, kernel, plane, harness, control
<1>7. AnsweredOnce'
  BY <1>1, <1>2, <1>3 DEF AnsweredOnce
<1>8. Admitted'
  BY <1>1, <1>2 DEF Admitted
<1>9. QueuedOnce'
  BY <1>1, <1>2 DEF QueuedOnce
<1>10. HandedOn'
  BY <1>1, <1>2 DEF HandedOn
<1>11. OneClaim'
  BY <1>1, <1>2 DEF OneClaim, Claiming
<1>12. Registered'
  BY <1>1, <1>2 DEF Registered
<1>13. LaneKnown'
  BY <1>1, <1>2 DEF LaneKnown
<1>14. LaneRuns'
  BY <1>1, <1>2 DEF LaneRuns, Unasked
<1>15. Drained'
  BY <1>1, <1>2 DEF Drained, Settling
<1>16. Brought'
  BY <1>1, <1>2 DEF Brought
<1>17. NotYet'
  BY <1>1, <1>2, <1>3 DEF NotYet, Owed
<1>18. Accounted'
  BY <1>1, <1>2, <1>3 DEF Accounted, Owed, Answered
<1> QED  BY <1>6, <1>7, <1>8, <1>9, <1>10, <1>11, <1>12, <1>13, <1>14, <1>15, <1>16,
         <1>17, <1>18 DEF Inv

LEMMA RegisterKeeps ==
  ASSUME Inv, NEW m \in Message, Register(m)
  PROVE  Inv'
<1>1. Shapes /\ TypeOK /\ Admitted /\ QueuedOnce /\ HandedOn /\ OneClaim /\ Registered
      /\ LaneKnown /\ LaneRuns /\ Drained /\ Brought /\ NotYet /\ AnsweredOnce /\ Accounted
  BY Shaped DEF Inv
<1>2. /\ genOf[m] \in Generation /\ worker[m] = "register"
      /\ \A n \in Message : n # m => worker'[n] = worker[n]
      /\ starting' = starting \ {genOf[m]}
      /\ \/ draining /\ worker'[m] = "refused" /\ flight' = flight
         \/ /\ ~draining /\ worker'[m] = "await" /\ flight'[genOf[m]] = m
            /\ \A g \in Generation : g # genOf[m] => flight'[g] = flight[g]
      /\ \A n \in Message : worker[n] # "none" => genOf[n] \in Generation
      /\ UNCHANGED <<bound, genOf, answers, queue, draining, held, next, streamed, lane,
                     ended, said, ctl, arg, turns, got>>
  BY <1>1, Constants DEF Shapes, Admitted, Outcome, Register, At, Goto, Gen, kernel,
     harness, control
<1>3. \A n \in Message : Final(n)' = Final(n)
  BY <1>2, NothingJournaled
<1>4. worker' \in [Message -> Place]
  <2>1. "refused" \in Place /\ "await" \in Place
    BY DEF Place
  <2>2. Goto(m, "refused") \/ Goto(m, "await")
    BY DEF Register
  <2> QED  BY <1>1, <2>1, <2>2, Moves
<1>5. starting' \subseteq Generation
  BY <1>1, <1>2 DEF Shapes, Register, At, Goto, Gen, kernel, harness, control
<1>6. flight' \in [Generation -> Message \cup {None}]
  <2>1. CASE draining
    BY <1>1, <1>2, <2>1 DEF Shapes, Register, At, Gen, kernel
  <2>2. CASE ~(draining)
    BY <1>1, <1>2, <2>2 DEF Shapes, Register, At, Gen, kernel
  <2> QED  BY <2>1, <2>2
<1>7. TypeOK'
  BY <1>1, <1>2, <1>4, <1>5, <1>6 DEF TypeOK, Register, At, Goto, Gen, kernel, harness,
     control
<1>8. AnsweredOnce'
  BY <1>1, <1>2, <1>3 DEF AnsweredOnce
<1>9. Admitted'
  BY <1>1, <1>2 DEF Admitted
<1>10. QueuedOnce'
  BY <1>1, <1>2 DEF QueuedOnce
<1>11. HandedOn'
  BY <1>1, <1>2 DEF HandedOn
<1>12. OneClaim'
  BY <1>1, <1>2 DEF OneClaim, Claiming
<1>13. Registered'
  BY <1>1, <1>2, Constants DEF Registered, OneClaim, Claiming
<1>14. LaneKnown'
  BY <1>1, <1>2, Constants DEF LaneKnown, OneClaim, Claiming, Registered, LaneRuns, Unasked
<1>15. LaneRuns'
  BY <1>1, <1>2 DEF LaneRuns, Unasked
<1>16. Drained'
  BY <1>1, <1>2 DEF Drained, Settling
<1>17. Brought'
  BY <1>1, <1>2 DEF Brought
<1>18. NotYet'
  BY <1>1, <1>2, <1>3 DEF NotYet, Owed
<1>19. Accounted'
  BY <1>1, <1>2, Constants, <1>3 DEF Accounted, Owed, Answered, OneClaim, Claiming,
     LaneRuns, Unasked, Brought, Drained, Settling, Registered, Admitted
<1> QED  BY <1>7, <1>8, <1>9, <1>10, <1>11, <1>12, <1>13, <1>14, <1>15, <1>16, <1>17,
         <1>18, <1>19 DEF Inv

LEMMA RefuseKeeps ==
  ASSUME Inv, NEW m \in Message, Refuse(m)
  PROVE  Inv'
<1>1. Shapes /\ TypeOK /\ Admitted /\ QueuedOnce /\ HandedOn /\ OneClaim /\ Registered
      /\ LaneKnown /\ LaneRuns /\ Drained /\ Brought /\ NotYet /\ AnsweredOnce /\ Accounted
  BY Shaped DEF Inv
<1>2. /\ genOf[m] \in Generation
      /\ worker[m] = "refused" /\ worker'[m] = "grace"
      /\ \A n \in Message : n # m => worker'[n] = worker[n]
      /\ \A n \in Message : worker[n] # "none" => genOf[n] \in Generation
      /\ UNCHANGED <<bound, genOf, answers, flight, starting, queue, draining, held,
                     next, streamed, lane, ended, said, ctl, arg, turns, got>>
  BY <1>1, Constants DEF Shapes, Admitted, Outcome, Refuse, At, Goto, Gen, InterruptLane,
     kernel, plane, control
<1>3. \A n \in Message : Final(n)' = Final(n)
  BY <1>2, NothingJournaled
<1>4. worker' \in [Message -> Place]
  BY <1>1, <1>2 DEF Shapes, Place, Refuse, At, Goto, Gen, InterruptLane, kernel, plane,
     control
<1>5. cancelled' \subseteq Message
  BY <1>1, <1>2 DEF TypeOK, Shapes, Refuse, At, Goto, Gen, InterruptLane, kernel, plane,
     control
<1>6. TypeOK'
  BY <1>1, <1>2, <1>4, <1>5 DEF TypeOK, Refuse, At, Goto, Gen, InterruptLane, kernel,
     plane, control
<1>7. AnsweredOnce'
  BY <1>1, <1>2, <1>3 DEF AnsweredOnce
<1>8. Admitted'
  BY <1>1, <1>2 DEF Admitted
<1>9. QueuedOnce'
  BY <1>1, <1>2 DEF QueuedOnce
<1>10. HandedOn'
  BY <1>1, <1>2 DEF HandedOn
<1>11. OneClaim'
  BY <1>1, <1>2 DEF OneClaim, Claiming
<1>12. Registered'
  BY <1>1, <1>2 DEF Registered
<1>13. LaneKnown'
  BY <1>1, <1>2 DEF LaneKnown
<1>14. LaneRuns'
  BY <1>1, <1>2 DEF LaneRuns, Unasked
<1>15. Drained'
  BY <1>1, <1>2 DEF Drained, Settling
<1>16. Brought'
  BY <1>1, <1>2 DEF Brought
<1>17. NotYet'
  BY <1>1, <1>2, <1>3 DEF NotYet, Owed
<1>18. Accounted'
  BY <1>1, <1>2, <1>3 DEF Accounted, Owed, Answered
<1> QED  BY <1>6, <1>7, <1>8, <1>9, <1>10, <1>11, <1>12, <1>13, <1>14, <1>15, <1>16,
         <1>17, <1>18 DEF Inv

LEMMA AfterGraceKeeps ==
  ASSUME Inv, NEW m \in Message, AfterGrace(m)
  PROVE  Inv'
<1>1. Shapes /\ TypeOK /\ Admitted /\ QueuedOnce /\ HandedOn /\ OneClaim /\ Registered
      /\ LaneKnown /\ LaneRuns /\ Drained /\ Brought /\ NotYet /\ AnsweredOnce /\ Accounted
  BY Shaped DEF Inv
<1>2. /\ worker[m] = "grace" /\ worker'[m] = "answer" /\ held'[m] # None
      /\ \A n \in Message : n # m => worker'[n] = worker[n] /\ held'[n] = held[n]
      /\ \A n \in Message : worker[n] # "none" => genOf[n] \in Generation
      /\ UNCHANGED <<bound, genOf, answers, flight, starting, queue, draining, next,
                     streamed, lane, ended, said, ctl, arg, turns, got>>
  BY <1>1, Constants DEF Shapes, Admitted, Outcome, AfterGrace, At, Goto, Available,
     Take, kernel, plane, control
<1>3. \A n \in Message : Final(n)' = Final(n)
  BY <1>2, NothingJournaled
<1>4. worker' \in [Message -> Place]
  BY <1>1, <1>2 DEF Shapes, Place, AfterGrace, At, Goto, Available, Take, kernel, plane,
     control
<1>5. held' \in [Message -> Outcome \cup {None}]
  BY <1>1, <1>2 DEF Shapes, Outcome, AfterGrace, At, Goto, Available, Take, kernel,
     plane, control
<1>6. taken' \subseteq Message
  BY <1>1, <1>2 DEF TypeOK, AfterGrace, At, Goto, Available, Take, kernel, plane, control
<1>7. TypeOK'
  BY <1>1, <1>2, <1>4, <1>5, <1>6 DEF TypeOK, AfterGrace, At, Goto, Available, Take,
     kernel, plane, control
<1>8. AnsweredOnce'
  BY <1>1, <1>2, <1>3 DEF AnsweredOnce
<1>9. Admitted'
  BY <1>1, <1>2 DEF Admitted
<1>10. QueuedOnce'
  BY <1>1, <1>2 DEF QueuedOnce
<1>11. HandedOn'
  BY <1>1, <1>2 DEF HandedOn
<1>12. OneClaim'
  BY <1>1, <1>2 DEF OneClaim, Claiming
<1>13. Registered'
  BY <1>1, <1>2 DEF Registered
<1>14. LaneKnown'
  BY <1>1, <1>2 DEF LaneKnown
<1>15. LaneRuns'
  BY <1>1, <1>2 DEF LaneRuns, Unasked
<1>16. Drained'
  BY <1>1, <1>2 DEF Drained, Settling
<1>17. Brought'
  BY <1>1, <1>2 DEF Brought
<1>18. NotYet'
  BY <1>1, <1>2, <1>3 DEF NotYet, Owed
<1>19. Accounted'
  BY <1>1, <1>2, <1>3 DEF Accounted, Owed, Answered
<1> QED  BY <1>7, <1>8, <1>9, <1>10, <1>11, <1>12, <1>13, <1>14, <1>15, <1>16, <1>17,
         <1>18, <1>19 DEF Inv

LEMMA StreamKeeps ==
  ASSUME Inv, NEW m \in Message, Stream(m)
  PROVE  Inv'
<1>1. Shapes /\ TypeOK /\ Admitted /\ QueuedOnce /\ HandedOn /\ OneClaim /\ Registered
      /\ LaneKnown /\ LaneRuns /\ Drained /\ Brought /\ NotYet /\ AnsweredOnce /\ Accounted
  BY Shaped DEF Inv
<1>2. /\ worker[m] = "await"
      /\ Journal(m, "segment")
      /\ streamed \subseteq streamed'
      /\ \A n \in Message : worker[n] # "none" => genOf[n] \in Generation
      /\ UNCHANGED <<bound, genOf, flight, starting, queue, draining, worker, held, next,
                     lane, ended, said, ctl, arg, turns, got>>
  BY <1>1, Constants DEF Shapes, Admitted, Outcome, Stream, At, Gen, plane, harness, control
<1>3. answers' \in [Message -> Seq(Outcome \cup {"segment"})]
      /\ \A n \in Message : Final(n)' = Final(n)
  BY <1>1, <1>2, Journaled
<1>4. streamed' \subseteq Message
  BY <1>1, <1>2, <1>3 DEF TypeOK, Stream, At, Gen, plane, harness, control
<1>5. TypeOK'
  BY <1>1, <1>2, <1>3, <1>4 DEF TypeOK, Stream, At, Gen, plane, harness, control
<1>6. Admitted' /\ QueuedOnce' /\ HandedOn' /\ OneClaim' /\ Registered' /\ LaneKnown'
      /\ LaneRuns' /\ Drained' /\ Brought'
  BY <1>1, <1>2 DEF Admitted, QueuedOnce, HandedOn, OneClaim, Claiming, Registered,
     LaneKnown, LaneRuns, Unasked, Drained, Settling, Brought
<1>7. NotYet'
  BY <1>1, <1>2, <1>3 DEF NotYet, Owed
<1>8. AnsweredOnce'
  BY <1>1, <1>2, <1>3 DEF AnsweredOnce
<1>9. Accounted'
  BY <1>1, <1>2, <1>3 DEF Accounted, Owed, Answered
<1> QED  BY <1>5, <1>6, <1>7, <1>8, <1>9 DEF Inv

LEMMA AwaitKeeps ==
  ASSUME Inv, NEW m \in Message, Await(m)
  PROVE  Inv'
<1>1. Shapes /\ TypeOK /\ Admitted /\ QueuedOnce /\ HandedOn /\ OneClaim /\ Registered
      /\ LaneKnown /\ LaneRuns /\ Drained /\ Brought /\ NotYet /\ AnsweredOnce /\ Accounted
  BY Shaped DEF Inv
<1>2. /\ worker[m] = "await" /\ worker'[m] = "remove"
      /\ held'[m] \in {"Interrupted", ended[m]} /\ held'[m] # None /\ ended[m] # None
      /\ \A n \in Message : n # m => worker'[n] = worker[n] /\ held'[n] = held[n]
      /\ \A n \in Message : worker[n] # "none" => genOf[n] \in Generation
      /\ UNCHANGED <<bound, genOf, answers, flight, starting, queue, draining, next,
                     streamed, lane, ended, said, ctl, arg, turns, got>>
  BY <1>1, Constants DEF Shapes, Admitted, Outcome, Await, At, Goto, Take, kernel, plane,
     control
<1>3. \A n \in Message : Final(n)' = Final(n)
  BY <1>2, NothingJournaled
<1>4. worker' \in [Message -> Place]
  BY <1>1, <1>2 DEF Shapes, Place, Await, At, Goto, Take, kernel, plane, control
<1>5. held' \in [Message -> Outcome \cup {None}]
  BY <1>1, <1>2 DEF Shapes, Outcome, Await, At, Goto, Take, kernel, plane, control
<1>6. taken' \subseteq Message
  BY <1>1, <1>2 DEF TypeOK, Await, At, Goto, Take, kernel, plane, control
<1>7. TypeOK'
  BY <1>1, <1>2, <1>4, <1>5, <1>6 DEF TypeOK, Await, At, Goto, Take, kernel, plane, control
<1>8. AnsweredOnce'
  BY <1>1, <1>2, <1>3 DEF AnsweredOnce
<1>9. Admitted'
  BY <1>1, <1>2 DEF Admitted
<1>10. QueuedOnce'
  BY <1>1, <1>2 DEF QueuedOnce
<1>11. HandedOn'
  BY <1>1, <1>2 DEF HandedOn
<1>12. OneClaim'
  BY <1>1, <1>2 DEF OneClaim, Claiming
<1>13. Registered'
  BY <1>1, <1>2 DEF Registered
<1>14. LaneKnown'
  BY <1>1, <1>2 DEF LaneKnown
<1>15. LaneRuns'
  BY <1>1, <1>2 DEF LaneRuns, Unasked
<1>16. Drained'
  BY <1>1, <1>2 DEF Drained, Settling
<1>17. Brought'
  BY <1>1, <1>2 DEF Brought
<1>18. NotYet'
  BY <1>1, <1>2, <1>3 DEF NotYet, Owed
<1>19. Accounted'
  BY <1>1, <1>2, <1>3 DEF Accounted, Owed, Answered
<1> QED  BY <1>7, <1>8, <1>9, <1>10, <1>11, <1>12, <1>13, <1>14, <1>15, <1>16, <1>17,
         <1>18, <1>19 DEF Inv

LEMMA UnregisterKeeps ==
  ASSUME Inv, NEW m \in Message, Unregister(m)
  PROVE  Inv'
<1>1. Shapes /\ TypeOK /\ Admitted /\ QueuedOnce /\ HandedOn /\ OneClaim /\ Registered
      /\ LaneKnown /\ LaneRuns /\ Drained /\ Brought /\ NotYet /\ AnsweredOnce /\ Accounted
  BY Shaped DEF Inv
<1>2. /\ genOf[m] \in Generation /\ worker[m] = "remove"
      /\ \A n \in Message : n # m => worker'[n] = worker[n] /\ held'[n] = held[n]
      /\ flight'[genOf[m]] = None /\ \A g \in Generation : g # genOf[m] =>
                                         flight'[g] = flight[g]
      /\ \/ flight[genOf[m]] # None /\ worker'[m] = "record" /\ held'[m] = held[m]
         \/ flight[genOf[m]] = None /\ worker'[m] = "done" /\ held'[m] = None
      /\ \A n \in Message : worker[n] # "none" => genOf[n] \in Generation
      /\ UNCHANGED <<bound, genOf, answers, starting, queue, draining, next, streamed,
                     lane, ended, said, ctl, arg, turns, got>>
  BY <1>1, Constants DEF Shapes, Admitted, Outcome, Unregister, At, Goto, Gen, kernel,
     harness, control
<1>3. \A n \in Message : Final(n)' = Final(n)
  BY <1>2, NothingJournaled
<1>4. worker' \in [Message -> Place]
  <2>1. "record" \in Place /\ "done" \in Place
    BY DEF Place
  <2>2. Goto(m, "record") \/ Goto(m, "done")
    BY DEF Unregister
  <2> QED  BY <1>1, <2>1, <2>2, Moves
<1>5. held' \in [Message -> Outcome \cup {None}]
  BY <1>1, <1>2 DEF Shapes, Outcome, Unregister, At, Goto, Gen, kernel, harness, control
<1>6. flight' \in [Generation -> Message \cup {None}]
  BY <1>1, <1>2 DEF Shapes, Unregister, At, Goto, Gen, kernel, harness, control
<1>7. TypeOK'
  BY <1>1, <1>2, <1>4, <1>5, <1>6 DEF TypeOK, Unregister, At, Goto, Gen, kernel, harness,
     control
<1>8. AnsweredOnce'
  BY <1>1, <1>2, <1>3 DEF AnsweredOnce
<1>9. Admitted'
  BY <1>1, <1>2 DEF Admitted
<1>10. QueuedOnce'
  BY <1>1, <1>2 DEF QueuedOnce
<1>11. HandedOn'
  BY <1>1, <1>2 DEF HandedOn
<1>12. OneClaim'
  BY <1>1, <1>2 DEF OneClaim, Claiming
<1>13. Registered'
  BY <1>1, <1>2, Constants DEF Registered, OneClaim, Claiming
<1>14. LaneKnown'
  BY <1>1, <1>2, Constants DEF LaneKnown, OneClaim, Claiming, Registered, LaneRuns, Unasked
<1>15. LaneRuns'
  BY <1>1, <1>2 DEF LaneRuns, Unasked
<1>16. Drained'
  BY <1>1, <1>2, Constants DEF Drained, Settling, Registered
<1>17. Brought'
  BY <1>1, <1>2 DEF Brought
<1>18. NotYet'
  BY <1>1, <1>2, Constants, <1>3 DEF NotYet, Owed, Brought, Drained, Settling,
     Registered, OneClaim, Claiming
<1>19. Accounted'
  BY <1>1, <1>2, Constants, <1>3 DEF Accounted, Owed, Answered, OneClaim, Claiming,
     LaneRuns, Unasked, Brought, Drained, Settling, Registered, Admitted
<1> QED  BY <1>7, <1>8, <1>9, <1>10, <1>11, <1>12, <1>13, <1>14, <1>15, <1>16, <1>17,
         <1>18, <1>19 DEF Inv

LEMMA RecordKeeps ==
  ASSUME Inv, NEW m \in Message, Record(m)
  PROVE  Inv'
<1>1. Shapes /\ TypeOK /\ Admitted /\ QueuedOnce /\ HandedOn /\ OneClaim /\ Registered
      /\ LaneKnown /\ LaneRuns /\ Drained /\ Brought /\ NotYet /\ AnsweredOnce /\ Accounted
  BY Shaped DEF Inv
<1>2. /\ worker[m] = "record" /\ worker'[m] = "advance" /\ held'[m] = None /\ held[m] \in Outcome
      /\ \/ m \in streamed /\ ended[m] = "Replied" /\ UNCHANGED answers
         \/ Journal(m, held[m])
      /\ \A n \in Message : n # m => worker'[n] = worker[n] /\ held'[n] = held[n]
      /\ \A n \in Message : worker[n] # "none" => genOf[n] \in Generation
      /\ UNCHANGED <<bound, genOf, flight, starting, queue, draining, next, streamed,
                     lane, ended, said, ctl, arg, turns, got>>
  BY <1>1, Constants DEF Shapes, Admitted, Outcome, Brought, FullyStreamed, Record, At,
     Goto, plane, harness, control
<1>3. Final(m) = {} /\ held[m] \in Outcome /\ held[m] # "segment"
  BY <1>1, <1>2, Constants DEF NotYet, Owed
<1>4. /\ answers' \in [Message -> Seq(Outcome \cup {"segment"})]
      /\ \A n \in Message : n # m => Final(n)' = Final(n)
      /\ \A i, j \in Final(m)' : i = j
      /\ bound = genOf[m] => Final(m)' # {} \/ (m \in streamed /\ ended[m] = "Replied")
  <2>1. CASE Journal(m, held[m])
    <3>1. PICK out \in Outcome : out = held[m] /\ Journal(m, out) /\ out # "segment"
      BY <1>3, <2>1
    <3>2. out \in Outcome \cup {"segment"}
      OBVIOUS
    <3>3. /\ answers' \in [Message -> Seq(Outcome \cup {"segment"})]
          /\ \A n \in Message : n # m \/ out = "segment" => Final(n)' = Final(n)
          /\ Final(m) = {} => \A i, j \in Final(m)' : i = j
          /\ out # "segment" /\ bound = genOf[m] => Final(m)' # {}
      BY <1>1, <3>1, <3>2, Journaled
    <3> QED  BY <1>3, <3>1, <3>3
  <2>2. CASE UNCHANGED answers /\ m \in streamed /\ ended[m] = "Replied"
    BY <1>1, <1>2, <1>3, <2>2, NothingJournaled DEF Shapes
  <2> QED  BY <1>2, <1>3, <2>1, <2>2
<1>5. worker' \in [Message -> Place]
  BY <1>1, <1>2, <1>3, <1>4 DEF Shapes, Place, Record, At, Goto, plane, harness, control
<1>6. held' \in [Message -> Outcome \cup {None}]
  BY <1>1, <1>2, <1>3, <1>4 DEF Shapes, Outcome, Record, At, Goto, plane, harness, control
<1>7. TypeOK'
  BY <1>1, <1>2, <1>3, <1>4, <1>5, <1>6 DEF TypeOK, Record, At, Goto, plane, harness,
     control
<1>8. Admitted'
  BY <1>1, <1>2 DEF Admitted
<1>9. QueuedOnce'
  BY <1>1, <1>2 DEF QueuedOnce
<1>10. HandedOn'
  BY <1>1, <1>2 DEF HandedOn
<1>11. OneClaim'
  BY <1>1, <1>2 DEF OneClaim, Claiming
<1>12. Registered'
  BY <1>1, <1>2 DEF Registered
<1>13. LaneKnown'
  BY <1>1, <1>2 DEF LaneKnown
<1>14. LaneRuns'
  BY <1>1, <1>2 DEF LaneRuns, Unasked
<1>15. Drained'
  BY <1>1, <1>2 DEF Drained, Settling
<1>16. Brought'
  BY <1>1, <1>2 DEF Brought
<1>17. NotYet'
  <2>1. ~Owed(m)'
    BY <1>1, <1>2 DEF Owed, Drained
  <2>2. \A n \in Message : n # m => (Owed(n)' <=> Owed(n))
    BY <1>1, <1>2 DEF Owed
  <2> QED  BY <1>1, <1>4, <2>1, <2>2 DEF NotYet
<1>18. AnsweredOnce'
  BY <1>1, <1>2, <1>3, <1>4 DEF AnsweredOnce
<1>19. Accounted'
  BY <1>1, <1>2, <1>3, <1>4 DEF Accounted, Owed, Answered
<1> QED  BY <1>7, <1>8, <1>9, <1>10, <1>11, <1>12, <1>13, <1>14, <1>15, <1>16, <1>17,
         <1>18, <1>19 DEF Inv

LEMMA AdvanceNothingKeeps ==
  ASSUME Inv, NEW m \in Message, Advance(m), Nothing(m, starting)
  PROVE  Inv'
<1>1. Shapes /\ TypeOK /\ Admitted /\ QueuedOnce /\ HandedOn /\ OneClaim /\ Registered
      /\ LaneKnown /\ LaneRuns /\ Drained /\ Brought /\ NotYet /\ AnsweredOnce /\ Accounted
  BY Shaped DEF Inv
<1>2. worker[m] = "advance" /\ genOf[m] \in Generation /\ Pop(m, starting)
  BY <1>1, Constants DEF Advance, At, Gen, Shapes, Admitted
<1>3. /\ starting' = starting /\ UNCHANGED <<queue, next>>
      /\ worker' \in [Message -> Place]
      /\ worker'[m] = IF held[m] = None THEN "done" ELSE "answer"
      /\ \A n \in Message : n # m => worker'[n] = worker[n]
  BY <1>1, <1>2, PopsNothing
<1>4. /\ worker[m] = "advance" /\ worker'[m] = "done" /\ held[m] = None
      /\ starting' = starting
      /\ UNCHANGED <<queue, next>>
      /\ (\A n \in Message : n # m => worker'[n] = worker[n])
      /\ \A n \in Message : worker[n] # "none" => genOf[n] \in Generation
      /\ UNCHANGED <<bound, genOf, answers, flight, queue, draining, held, next,
                     streamed, lane, ended, said, ctl, arg, turns, got>>
  <2>1. UNCHANGED <<bound, genOf, answers, flight, draining, held, streamed, lane, ended,
                    said, ctl, arg, turns, got>>
    BY DEF Advance, kernel, harness, control
  <2>2. \A n \in Message : worker[n] # "none" => genOf[n] \in Generation
    BY <1>1 DEF Shapes, Admitted
  <2>3. held[m] = None
    BY <1>1, <1>2 DEF Brought
  <2> QED  BY <1>2, <1>3, <2>1, <2>2, <2>3
<1>5. TypeOK'
  <2>1. UNCHANGED <<up, taken, cancelled, orders>>
    BY DEF Advance, harness, control
  <2>2. starting' \subseteq Generation
    BY <1>1, <1>3 DEF Shapes
  <2> QED  BY <1>1, <1>3, <1>4, <2>1, <2>2 DEF TypeOK
<1>6. \A n \in Message : Final(n)' = Final(n)
  BY <1>4, <1>2, <1>3, <1>5, NothingJournaled
<1>7. AnsweredOnce'
  BY <1>1, <1>4, <1>2, <1>3, <1>5, <1>6 DEF AnsweredOnce
<1>8. Admitted'
  BY <1>1, <1>4, <1>2, <1>3 DEF Admitted
<1>9. QueuedOnce'
  BY <1>1, <1>4, <1>2, <1>3 DEF QueuedOnce
<1>10. HandedOn'
  BY <1>1, <1>4, <1>2, <1>3 DEF HandedOn
<1>11. OneClaim'
  BY <1>1, <1>4, <1>2, <1>3 DEF OneClaim, Claiming
<1>12. Registered'
  BY <1>1, <1>4, <1>2, <1>3 DEF Registered
<1>13. LaneKnown'
  BY <1>1, <1>4, <1>2, <1>3 DEF LaneKnown
<1>14. LaneRuns'
  BY <1>1, <1>4, <1>2, <1>3 DEF LaneRuns, Unasked
<1>15. Drained'
  BY <1>1, <1>4, <1>2, <1>3 DEF Drained, Settling
<1>16. Brought'
  BY <1>1, <1>4, <1>2, <1>3 DEF Brought
<1>17. NotYet'
  BY <1>1, <1>4, <1>2, <1>3, <1>5, <1>6 DEF NotYet, Owed
<1>18. Accounted'
  BY <1>1, <1>4, <1>2, <1>3, <1>5, <1>6 DEF Accounted, Owed, Answered
<1> QED  BY <1>5, <1>7, <1>8, <1>9, <1>10, <1>11, <1>12, <1>13, <1>14, <1>15, <1>16,
         <1>17, <1>18 DEF Inv

LEMMA AdvanceNextKeeps ==
  ASSUME Inv, NEW m \in Message, Advance(m), ~Nothing(m, starting)
  PROVE  Inv'
<1>1. Shapes /\ TypeOK /\ Admitted /\ QueuedOnce /\ HandedOn /\ OneClaim /\ Registered
      /\ LaneKnown /\ LaneRuns /\ Drained /\ Brought /\ NotYet /\ AnsweredOnce /\ Accounted
  BY Shaped DEF Inv
<1>2. worker[m] = "advance" /\ genOf[m] \in Generation /\ Pop(m, starting)
  BY <1>1, Constants DEF Advance, At, Gen, Shapes, Admitted
<1>3. /\ starting' = (starting) \cup {genOf[m]}
      /\ worker' \in [Message -> Place] /\ next' \in [Message -> Message \cup {None}]
      /\ queue' \in [Generation -> Seq(Message)]
      /\ Distinct(queue'[genOf[m]]) /\ Len(queue'[genOf[m]]) <= Len(queue[genOf[m]])
      /\ \A g \in Generation : g # genOf[m] => queue'[g] = queue[g]
      /\ \A n \in Message : n # m => next'[n] = next[n]
      /\ \E h \in Message :
            /\ h # m /\ worker[h] = "queued" /\ genOf[h] = genOf[m] /\ next'[m] = h
            /\ \A n \in Message : Holds(queue'[genOf[m]], n)
                                  <=> Holds(queue[genOf[m]], n) /\ n # h
            /\ worker'[m] = "spawn" /\ worker'[h] = "popped"
            /\ \A n \in Message : n # m /\ n # h => worker'[n] = worker[n]
  BY <1>1, <1>2, PopsNext
<1>4. PICK h \in Message :
        /\ h # m /\ worker[h] = "queued" /\ genOf[h] = genOf[m] /\ next'[m] = h
        /\ \A n \in Message : Holds(queue'[genOf[m]], n)
                              <=> Holds(queue[genOf[m]], n) /\ n # h
        /\ worker'[m] = "spawn" /\ worker'[h] = "popped"
        /\ \A n \in Message : n # m /\ n # h => worker'[n] = worker[n]
  BY <1>3
<1>5. /\ h # m /\ worker[h] = "queued" /\ genOf[h] = genOf[m]
      /\ genOf[m] \in Generation /\ worker[m] = "advance"
      /\ worker'[m] = "spawn" /\ worker'[h] = "popped" /\ held[m] = None
      /\ (\A n \in Message : n # m /\ n # h => worker'[n] = worker[n])
      /\ next'[m] = h /\ (\A n \in Message : n # m => next'[n] = next[n])
      /\ starting' = (starting) \cup {genOf[m]}
      /\ ~draining /\ flight[genOf[m]] = None /\ lane[genOf[m]] = None
      /\ (\A n \in Message : n # m /\ worker[n] \in Claiming => genOf[n] # genOf[m])
      /\ \A n \in Message : worker[n] # "none" => genOf[n] \in Generation
      /\ UNCHANGED <<bound, genOf, answers, flight, draining, held, streamed, lane,
                     ended, said, ctl, arg, turns, got>>
  <2>1. UNCHANGED <<bound, genOf, answers, flight, draining, held, streamed, lane, ended,
                    said, ctl, arg, turns, got>>
    BY DEF Advance, kernel, harness, control
  <2>2. \A n \in Message : worker[n] # "none" => genOf[n] \in Generation
    BY <1>1 DEF Shapes, Admitted
  <2>3. ~draining /\ flight[genOf[m]] = None /\ genOf[m] \notin starting
    BY DEF Nothing
  <2>4. lane[genOf[m]] = None
    BY <1>1, <1>2, <2>3, Constants DEF LaneKnown, OneClaim, Claiming, Shapes
  <2>5. \A n \in Message : n # m /\ worker[n] \in Claiming => genOf[n] # genOf[m]
    BY <1>1, <1>2, <2>3 DEF OneClaim, Claiming
  <2>6. held[m] = None
    BY <1>1, <1>2 DEF Brought
  <2> QED  BY <1>2, <1>3, <1>4, <2>1, <2>2, <2>3, <2>4, <2>5, <2>6
<1>6. TypeOK'
  <2>1. UNCHANGED <<up, taken, cancelled, orders>>
    BY DEF Advance, harness, control
  <2>2. starting' \subseteq Generation
    BY <1>1, <1>2, <1>3 DEF Shapes
  <2>3. \A g \in Generation : Len(queue'[g]) <= QueueLimit
    <3>1. \A g \in Generation : queue[g] \in Seq(Message) /\ queue'[g] \in Seq(Message)
      BY <1>1, <1>3 DEF Shapes
    <3>2. \A g \in Generation : Len(queue[g]) \in Nat /\ Len(queue'[g]) \in Nat
      BY <3>1, LenProperties
    <3>3. \A g \in Generation : Len(queue[g]) <= QueueLimit /\ Len(queue'[g]) <= Len(queue[g])
      <4>1. \A g \in Generation : Len(queue[g]) <= QueueLimit
        BY <1>1 DEF TypeOK
      <4>2. \A g \in Generation : Len(queue'[g]) <= Len(queue[g])
        BY <1>3, <3>2
      <4> QED  BY <4>1, <4>2
    <3> QED  BY <3>2, <3>3, BoundsAssumption
  <2> QED  BY <1>1, <1>3, <1>5, <2>1, <2>2, <2>3 DEF TypeOK
<1>7. \A n \in Message : Final(n)' = Final(n)
  BY <1>5, <1>2, <1>3, <1>4, <1>6, NothingJournaled
<1>8. AnsweredOnce'
  BY <1>1, <1>5, <1>2, <1>3, <1>4, <1>6, <1>7 DEF AnsweredOnce
<1>9. Admitted'
  BY <1>1, <1>5 DEF Admitted
<1>10. QueuedOnce'
  <2>1. \A g \in Generation : Distinct(queue'[g])
    BY <1>1, <1>3 DEF QueuedOnce
  <2>2. \A g \in Generation, n \in Message : Holds(queue'[g], n) <=> Holds(queue[g], n) /\ n # h
    <3>1. \A g \in Generation : g # genOf[m] => ~Holds(queue[g], h)
      BY <1>1, <1>4 DEF QueuedOnce
    <3>2. \A g \in Generation : g # genOf[m] => queue'[g] = queue[g]
      BY <1>3
    <3>3. \A g \in Generation : g # genOf[m] =>
            \A n \in Message : Holds(queue'[g], n) <=> Holds(queue[g], n) /\ n # h
      BY <3>1, <3>2
    <3> QED  BY <1>4, <3>3
  <2> QED  BY <1>1, <1>5, <2>1, <2>2 DEF QueuedOnce
<1>11. HandedOn'
  BY <1>1, <1>5 DEF HandedOn
<1>12. OneClaim'
  BY <1>1, <1>5 DEF OneClaim, Claiming
<1>13. Registered'
  BY <1>1, <1>5 DEF Registered
<1>14. LaneKnown'
  BY <1>1, <1>5 DEF LaneKnown
<1>15. LaneRuns'
  BY <1>1, <1>5 DEF LaneRuns, Unasked
<1>16. Drained'
  BY <1>1, <1>5 DEF Drained, Settling
<1>17. Brought'
  BY <1>1, <1>5 DEF Brought
<1>18. NotYet'
  BY <1>1, <1>5, <1>7 DEF NotYet, Owed
<1>19. Accounted'
  BY <1>1, <1>5, <1>7 DEF Accounted, Answered, Owed, Drained, Registered
<1> QED  BY <1>6, <1>8, <1>9, <1>10, <1>11, <1>12, <1>13, <1>14, <1>15, <1>16, <1>17,
         <1>18, <1>19 DEF Inv

LEMMA AnswerKeeps ==
  ASSUME Inv, NEW m \in Message, Answer(m)
  PROVE  Inv'
<1>1. Shapes /\ TypeOK /\ Admitted /\ QueuedOnce /\ HandedOn /\ OneClaim /\ Registered
      /\ LaneKnown /\ LaneRuns /\ Drained /\ Brought /\ NotYet /\ AnsweredOnce /\ Accounted
  BY Shaped DEF Inv
<1>2. /\ worker[m] = "answer" /\ worker'[m] = "done" /\ held'[m] = None /\ held[m] \in Outcome
      /\ Journal(m, held[m])
      /\ \A n \in Message : n # m => worker'[n] = worker[n] /\ held'[n] = held[n]
      /\ \A n \in Message : worker[n] # "none" => genOf[n] \in Generation
      /\ UNCHANGED <<bound, genOf, flight, starting, queue, draining, next, streamed,
                     lane, ended, said, ctl, arg, turns, got>>
  BY <1>1, Constants DEF Shapes, Admitted, Outcome, Brought, Answer, At, Goto, plane,
     harness, control
<1>3. Final(m) = {} /\ held[m] \in Outcome /\ held[m] # "segment"
  BY <1>1, <1>2, Constants DEF NotYet, Owed
<1>4. /\ answers' \in [Message -> Seq(Outcome \cup {"segment"})]
      /\ \A n \in Message : n # m => Final(n)' = Final(n)
      /\ \A i, j \in Final(m)' : i = j
      /\ bound = genOf[m] => Final(m)' # {}
  BY <1>1, <1>2, <1>3, Journaled
<1>5. worker' \in [Message -> Place]
  BY <1>1, <1>2, <1>3, <1>4 DEF Shapes, Place, Answer, At, Goto, plane, harness, control
<1>6. held' \in [Message -> Outcome \cup {None}]
  BY <1>1, <1>2, <1>3, <1>4 DEF Shapes, Outcome, Answer, At, Goto, plane, harness, control
<1>7. TypeOK'
  BY <1>1, <1>2, <1>3, <1>4, <1>5, <1>6 DEF TypeOK, Answer, At, Goto, plane, harness,
     control
<1>8. Admitted'
  BY <1>1, <1>2 DEF Admitted
<1>9. QueuedOnce'
  BY <1>1, <1>2 DEF QueuedOnce
<1>10. HandedOn'
  BY <1>1, <1>2 DEF HandedOn
<1>11. OneClaim'
  BY <1>1, <1>2 DEF OneClaim, Claiming
<1>12. Registered'
  BY <1>1, <1>2 DEF Registered
<1>13. LaneKnown'
  BY <1>1, <1>2 DEF LaneKnown
<1>14. LaneRuns'
  BY <1>1, <1>2 DEF LaneRuns, Unasked
<1>15. Drained'
  BY <1>1, <1>2 DEF Drained, Settling
<1>16. Brought'
  BY <1>1, <1>2 DEF Brought
<1>17. NotYet'
  BY <1>1, <1>2, <1>3, <1>4, Constants DEF NotYet, Owed, Brought, Drained, Settling,
     Registered, OneClaim, Claiming
<1>18. AnsweredOnce'
  BY <1>1, <1>2, <1>3, <1>4 DEF AnsweredOnce
<1>19. Accounted'
  BY <1>1, <1>2, <1>3, <1>4 DEF Accounted, Owed, Answered
<1> QED  BY <1>7, <1>8, <1>9, <1>10, <1>11, <1>12, <1>13, <1>14, <1>15, <1>16, <1>17,
         <1>18, <1>19 DEF Inv

-----------------------------------------------------------------------------
(* The harness. *)

LEMMA EndTurnKeeps ==
  ASSUME Inv, NEW g \in Generation, NEW out \in Outcome, EndTurn(g, out)
  PROVE  Inv'
<1>1. Shapes /\ TypeOK /\ Admitted /\ QueuedOnce /\ HandedOn /\ OneClaim /\ Registered
      /\ LaneKnown /\ LaneRuns /\ Drained /\ Brought /\ NotYet /\ AnsweredOnce /\ Accounted
  BY Shaped DEF Inv
<1>2. /\ lane[g] \in Message /\ lane'[g] = None
      /\ ended[lane[g]] # "Replied"
      /\ ended'[lane[g]] = out
      /\ \A n \in Message : n # lane[g] => ended'[n] = ended[n]
      /\ \A h \in Generation : h # g => lane'[h] = lane[h]
      /\ \A n \in Message : worker[n] # "none" => genOf[n] \in Generation
      /\ UNCHANGED <<bound, genOf, answers, flight, starting, queue, draining, worker,
                     held, next, streamed, said, ctl, arg, turns, got>>
  BY <1>1, Constants DEF Shapes, Admitted, Outcome, LaneRuns, EndTurn, kernel, plane,
     work, control
<1>3. \A n \in Message : Final(n)' = Final(n)
  BY <1>2, NothingJournaled
<1>4. ended' \in [Message -> Outcome \cup {None}]
  BY <1>1, <1>2 DEF Shapes, EndTurn, kernel, plane, work, control
<1>5. lane' \in [Generation -> Message \cup {None}]
  BY <1>1, <1>2 DEF Shapes, EndTurn, kernel, plane, work, control
<1>6. cancelled' \subseteq Message
  BY <1>1, <1>2 DEF TypeOK, Shapes, EndTurn, kernel, plane, work, control
<1>7. TypeOK'
  BY <1>1, <1>2, <1>4, <1>5, <1>6 DEF TypeOK, EndTurn, kernel, plane, work, control
<1>8. Admitted' /\ QueuedOnce' /\ HandedOn' /\ OneClaim' /\ Registered' /\ Drained'
      /\ NotYet' /\ AnsweredOnce'
  BY <1>1, <1>2, <1>3 DEF Admitted, QueuedOnce, HandedOn, OneClaim, Claiming, Registered,
     Drained, Settling, NotYet, Owed, AnsweredOnce
<1>9. LaneKnown'
  BY <1>1, <1>2, Constants DEF LaneKnown, OneClaim, Claiming, Registered, LaneRuns, Unasked
<1>10. LaneRuns'
  BY <1>1, <1>2, Constants DEF LaneRuns, Unasked, LaneKnown, HandedOn
<1>11. Brought'
  BY <1>1, <1>2 DEF Brought
<1>12. Accounted'
  BY <1>1, <1>2, <1>3 DEF Accounted, Owed, Answered
<1> QED  BY <1>7, <1>8, <1>9, <1>10, <1>11, <1>12 DEF Inv

-----------------------------------------------------------------------------
(* Stop, New and the drain. *)

LEMMA StopKeeps ==
  ASSUME Inv, NEW c \in Control, Stop(c)
  PROVE  Inv'
<1>1. Shapes /\ TypeOK /\ Admitted /\ QueuedOnce /\ HandedOn /\ OneClaim /\ Registered
      /\ LaneKnown /\ LaneRuns /\ Drained /\ Brought /\ NotYet /\ AnsweredOnce /\ Accounted
  BY Shaped DEF Inv
<1>2. /\ ctl[c] = "idle" /\ ctl'[c] = "stop" /\ arg'[c] # None
      /\ \A d \in Control : d # c => ctl'[d] = ctl[d] /\ arg'[d] = arg[d]
      /\ \A n \in Message : worker[n] # "none" => genOf[n] \in Generation
      /\ UNCHANGED <<bound, genOf, answers, flight, starting, queue, draining, worker,
                     held, next, streamed, lane, ended, said, turns, got>>
  BY <1>1, Constants DEF Shapes, Admitted, Outcome, Stop, Order, In, To, kernel, plane,
     work, harness
<1>3. \A n \in Message : Final(n)' = Final(n)
  BY <1>2, NothingJournaled
<1>4. ctl' \in [Control -> Step]
  BY <1>1, <1>2 DEF Shapes, Step, Stop, Order, In, To, kernel, plane, work, harness
<1>5. arg' \in [Control -> Generation \cup {None}]
  BY <1>1, <1>2 DEF Shapes, Stop, Order, In, To, kernel, plane, work, harness
<1>6. orders' \in 0 .. MaxControls
  BY <1>1, <1>2, Constants, BoundsAssumption DEF TypeOK, Stop, Order, In, To, kernel,
     plane, work, harness
<1>7. TypeOK'
  BY <1>1, <1>2, <1>4, <1>5, <1>6 DEF TypeOK, Stop, Order, In, To, kernel, plane, work,
     harness
<1>8. Admitted' /\ QueuedOnce' /\ HandedOn' /\ OneClaim' /\ Registered' /\ LaneKnown'
      /\ LaneRuns' /\ Brought' /\ NotYet' /\ AnsweredOnce' /\ Accounted'
  BY <1>1, <1>2, <1>3 DEF Admitted, QueuedOnce, HandedOn, OneClaim, Claiming, Registered,
     LaneKnown, LaneRuns, Unasked, Brought, NotYet, Owed, AnsweredOnce, Accounted, Owed,
     Answered
<1>9. Drained'
  BY <1>1, <1>2 DEF Drained, Settling
<1> QED  BY <1>7, <1>8, <1>9 DEF Inv

LEMMA StopReadsKeeps ==
  ASSUME Inv, NEW c \in Control, StopReads(c)
  PROVE  Inv'
<1>1. Shapes /\ TypeOK /\ Admitted /\ QueuedOnce /\ HandedOn /\ OneClaim /\ Registered
      /\ LaneKnown /\ LaneRuns /\ Drained /\ Brought /\ NotYet /\ AnsweredOnce /\ Accounted
  BY Shaped DEF Inv
<1>2. DropQueue(arg[c]) /\ arg[c] \in Generation
  BY <1>1, Constants DEF Shapes, Drained, StopReads, In
<1>3. /\ ctl[c] = "stop" /\ arg[c] \in Generation
      /\ (ctl'[c] = "idle" \/ (ctl'[c] = "stopping" /\ arg'[c] # None))
      /\ (\A d \in Control : d # c => ctl'[d] = ctl[d] /\ arg'[d] = arg[d])
      /\ queue'[arg[c]] = <<>> /\ (\A g \in Generation : g # arg[c] => queue'[g] = queue[g])
      /\ (\A n \in Message : worker[n] = "queued" /\ genOf[n] = arg[c] =>
              worker'[n] = "done" /\ said'[n] # "nothing")
      /\ (\A n \in Message : worker[n] # "queued" \/ genOf[n] # arg[c] =>
              worker'[n] = worker[n] /\ said'[n] = said[n])
      /\ \A n \in Message : worker[n] # "none" => genOf[n] \in Generation
      /\ UNCHANGED <<bound, genOf, answers, flight, starting, draining, held, next,
                     streamed, lane, ended, turns, got>>
  <2>1. arg[c] \in Generation /\ ctl[c] = "stop" /\ DropQueue(arg[c])
    BY <1>2 DEF StopReads, In
  <2>2. /\ queue'[arg[c]] = <<>> /\ (\A g \in Generation : g # arg[c] =>
                                         queue'[g] = queue[g])
      /\ (\A n \in Message : worker[n] = "queued" /\ genOf[n] = arg[c] =>
              worker'[n] = "done" /\ said'[n] # "nothing")
      /\ (\A n \in Message : worker[n] # "queued" \/ genOf[n] # arg[c] =>
              worker'[n] = worker[n] /\ said'[n] = said[n])
    BY <1>1, <2>1, QueueDropped
  <2>3. UNCHANGED <<bound, genOf, answers, flight, starting, draining, held, next,
                    streamed, lane, ended, turns, got>>
    BY DEF StopReads, kernel, harness
  <2>4. (ctl' = [ctl EXCEPT ![c] = "idle"] /\ arg' = [arg EXCEPT ![c] = None])
       \/ (ctl' = [ctl EXCEPT ![c] = "stopping"] /\ arg' = arg)
    BY DEF StopReads, Over, To
  <2>5. /\ ctl'[c] = "idle" \/ (ctl'[c] = "stopping" /\ arg'[c] # None)
        /\ (\A d \in Control : d # c => ctl'[d] = ctl[d] /\ arg'[d] = arg[d])
    BY <1>1, <2>1, <2>4, Constants DEF Shapes
  <2>6. \A n \in Message : worker[n] # "none" => genOf[n] \in Generation
    BY <1>1 DEF Shapes, Admitted
  <2> QED  BY <2>1, <2>2, <2>3, <2>5, <2>6
<1>4. /\ queue' \in [Generation -> Seq(Message)]
      /\ worker' \in [Message -> Place] /\ said' \in [Message -> Word]
  BY <1>1, <1>2, QueueDropped
<1>5. ctl' \in [Control -> Step] /\ arg' \in [Control -> Generation \cup {None}]
  <2>1. (ctl' = [ctl EXCEPT ![c] = "idle"] /\ arg' = [arg EXCEPT ![c] = None])
          \/ (ctl' = [ctl EXCEPT ![c] = "stopping"] /\ arg' = arg)
    BY DEF StopReads, Over, To
  <2> QED  BY <1>1, <2>1 DEF Shapes, Step
<1>6. TypeOK'
  <2>1. UNCHANGED <<up, taken, cancelled, orders>>
    BY DEF StopReads, harness
  <2>2. \A g \in Generation : Len(queue'[g]) <= QueueLimit
    <3>1. Len(<<>>) = 0 /\ QueueLimit \in Nat
      BY BoundsAssumption
    <3>2. \A g \in Generation : g # arg[c] => Len(queue'[g]) <= QueueLimit
      BY <1>1, <1>3 DEF TypeOK
    <3>3. Len(queue'[arg[c]]) <= QueueLimit
      BY <1>3, <3>1
    <3> QED  BY <3>2, <3>3
  <2> QED  BY <1>1, <1>3, <1>4, <1>5, <2>1, <2>2 DEF TypeOK
<1>7. \A n \in Message : Final(n)' = Final(n)
  BY <1>3, <1>2, <1>4, <1>5, <1>6, NothingJournaled
<1>8. AnsweredOnce'
  BY <1>1, <1>3, <1>2, <1>4, <1>5, <1>6, <1>7 DEF AnsweredOnce
<1>9. Admitted'
  BY <1>1, <1>3, <1>2 DEF Admitted
<1>10. QueuedOnce'
  BY <1>1, <1>3, Constants, HoldsNothing DEF QueuedOnce
<1>11. HandedOn'
  BY <1>1, <1>3, <1>2 DEF HandedOn
<1>12. OneClaim'
  BY <1>1, <1>3, <1>2 DEF OneClaim, Claiming
<1>13. Registered'
  BY <1>1, <1>3, <1>2 DEF Registered
<1>14. LaneKnown'
  BY <1>1, <1>3, <1>2 DEF LaneKnown
<1>15. LaneRuns'
  BY <1>1, <1>3, <1>2 DEF LaneRuns, Unasked
<1>16. Drained'
  BY <1>1, <1>3, <1>2 DEF Drained, Settling
<1>17. Brought'
  BY <1>1, <1>3, <1>2 DEF Brought
<1>18. NotYet'
  BY <1>1, <1>3, <1>2, <1>4, <1>5, <1>6, <1>7 DEF NotYet, Owed
<1>19. Accounted'
  BY <1>1, <1>3, <1>7 DEF Accounted, Owed, Answered
<1> QED  BY <1>6, <1>8, <1>9, <1>10, <1>11, <1>12, <1>13, <1>14, <1>15, <1>16, <1>17,
         <1>18, <1>19 DEF Inv

LEMMA StopInterruptsKeeps ==
  ASSUME Inv, NEW c \in Control, StopInterrupts(c)
  PROVE  Inv'
<1>1. Shapes /\ TypeOK /\ Admitted /\ QueuedOnce /\ HandedOn /\ OneClaim /\ Registered
      /\ LaneKnown /\ LaneRuns /\ Drained /\ Brought /\ NotYet /\ AnsweredOnce /\ Accounted
  BY Shaped DEF Inv
<1>2. /\ ctl[c] = "stopping" /\ ctl'[c] = "idle" /\ arg[c] \in Generation
      /\ \A d \in Control : d # c => ctl'[d] = ctl[d] /\ arg'[d] = arg[d]
      /\ \A n \in Message : worker[n] # "none" => genOf[n] \in Generation
      /\ UNCHANGED <<bound, genOf, answers, flight, starting, queue, draining, worker,
                     held, next, streamed, lane, ended, said, turns, got>>
  BY <1>1, Constants DEF Shapes, Admitted, Outcome, Drained, StopInterrupts, In, Over,
     To, InterruptLane, kernel, plane, work
<1>3. \A n \in Message : Final(n)' = Final(n)
  BY <1>2, NothingJournaled
<1>4. ctl' \in [Control -> Step]
  BY <1>1, <1>2 DEF Shapes, Step, StopInterrupts, In, Over, To, InterruptLane, kernel,
     plane, work
<1>5. arg' \in [Control -> Generation \cup {None}]
  BY <1>1, <1>2 DEF Shapes, StopInterrupts, In, Over, To, InterruptLane, kernel, plane, work
<1>6. cancelled' \subseteq Message
  BY <1>1, <1>2 DEF TypeOK, Shapes, StopInterrupts, In, Over, To, InterruptLane, kernel,
     plane, work
<1>7. TypeOK'
  BY <1>1, <1>2, <1>4, <1>5, <1>6 DEF TypeOK, StopInterrupts, In, Over, To,
     InterruptLane, kernel, plane, work
<1>8. Admitted' /\ QueuedOnce' /\ HandedOn' /\ OneClaim' /\ Registered' /\ LaneKnown'
      /\ LaneRuns' /\ Brought' /\ NotYet' /\ AnsweredOnce' /\ Accounted'
  BY <1>1, <1>2, <1>3 DEF Admitted, QueuedOnce, HandedOn, OneClaim, Claiming, Registered,
     LaneKnown, LaneRuns, Unasked, Brought, NotYet, Owed, AnsweredOnce, Accounted, Owed,
     Answered
<1>9. Drained'
  BY <1>1, <1>2 DEF Drained, Settling
<1> QED  BY <1>7, <1>8, <1>9 DEF Inv

LEMMA NewKeeps ==
  ASSUME Inv, NEW c \in Control, New(c)
  PROVE  Inv'
<1>1. Shapes /\ TypeOK /\ Admitted /\ QueuedOnce /\ HandedOn /\ OneClaim /\ Registered
      /\ LaneKnown /\ LaneRuns /\ Drained /\ Brought /\ NotYet /\ AnsweredOnce /\ Accounted
  BY Shaped DEF Inv
<1>2. /\ ctl[c] = "idle" /\ ctl'[c] = "reset" /\ arg'[c] # None
      /\ \A d \in Control : d # c => ctl'[d] = ctl[d] /\ arg'[d] = arg[d]
      /\ bound' > bound /\ bound \in Nat /\ bound' \in Nat
      /\ \A n \in Message : genOf[n] = None \/ genOf[n] \in Nat
      /\ \A n \in Message : worker[n] # "none" => genOf[n] \in Generation
      /\ UNCHANGED <<genOf, answers, flight, starting, queue, draining, worker, held,
                     next, streamed, lane, ended, said, turns, got>>
  BY <1>1, Constants DEF Shapes, Admitted, Outcome, New, Order, In, To, plane, work, harness
<1>3. \A n \in Message : Final(n)' = Final(n)
  BY <1>2, NothingJournaled
<1>4. ctl' \in [Control -> Step]
  BY <1>1, <1>2 DEF Shapes, Step, New, Order, In, To, plane, work, harness
<1>5. arg' \in [Control -> Generation \cup {None}]
  BY <1>1, <1>2 DEF Shapes, New, Order, In, To, plane, work, harness
<1>6. orders' \in 0 .. MaxControls
  BY <1>1, <1>2, Constants, BoundsAssumption DEF TypeOK, New, Order, In, To, plane, work,
     harness
<1>7. bound' \in Generation
  BY <1>1, <1>2, Constants, BoundsAssumption DEF Shapes, Generation, New, Order, In, To,
     plane, work, harness
<1>8. TypeOK'
  BY <1>1, <1>2, <1>4, <1>5, <1>6, <1>7 DEF TypeOK, New, Order, In, To, plane, work, harness
<1>9. QueuedOnce' /\ HandedOn' /\ OneClaim' /\ Registered' /\ LaneKnown' /\ LaneRuns'
      /\ Brought' /\ NotYet' /\ AnsweredOnce'
  BY <1>1, <1>2, <1>3 DEF QueuedOnce, HandedOn, OneClaim, Claiming, Registered,
     LaneKnown, LaneRuns, Unasked, Brought, NotYet, Owed, AnsweredOnce
<1>10. Admitted'
  BY <1>1, <1>2 DEF Admitted
<1>11. Drained'
  BY <1>1, <1>2 DEF Drained, Settling
<1>12. Accounted'
  BY <1>1, <1>2, Constants, <1>3 DEF Accounted, Owed, Answered, OneClaim, Claiming,
     LaneRuns, Unasked, Brought, Drained, Settling, Registered, Admitted
<1> QED  BY <1>8, <1>9, <1>10, <1>11, <1>12 DEF Inv

LEMMA NewDropsKeeps ==
  ASSUME Inv, NEW c \in Control, NewDrops(c)
  PROVE  Inv'
<1>1. Shapes /\ TypeOK /\ Admitted /\ QueuedOnce /\ HandedOn /\ OneClaim /\ Registered
      /\ LaneKnown /\ LaneRuns /\ Drained /\ Brought /\ NotYet /\ AnsweredOnce /\ Accounted
  BY Shaped DEF Inv
<1>2. DropQueue(arg[c]) /\ arg[c] \in Generation
  BY <1>1, Constants DEF Shapes, Drained, NewDrops, In
<1>3. /\ ctl[c] = "reset" /\ arg[c] \in Generation
      /\ (ctl'[c] = "idle" \/ (ctl'[c] = "stopping" /\ arg'[c] # None))
      /\ (\A d \in Control : d # c => ctl'[d] = ctl[d] /\ arg'[d] = arg[d])
      /\ queue'[arg[c]] = <<>> /\ (\A g \in Generation : g # arg[c] => queue'[g] = queue[g])
      /\ (\A n \in Message : worker[n] = "queued" /\ genOf[n] = arg[c] =>
              worker'[n] = "done" /\ said'[n] # "nothing")
      /\ (\A n \in Message : worker[n] # "queued" \/ genOf[n] # arg[c] =>
              worker'[n] = worker[n] /\ said'[n] = said[n])
      /\ \A n \in Message : worker[n] # "none" => genOf[n] \in Generation
      /\ UNCHANGED <<bound, genOf, answers, flight, starting, draining, held, next,
                     streamed, lane, ended, turns, got>>
  <2>1. arg[c] \in Generation /\ ctl[c] = "reset" /\ DropQueue(arg[c])
    BY <1>2 DEF NewDrops, In
  <2>2. /\ queue'[arg[c]] = <<>> /\ (\A g \in Generation : g # arg[c] =>
                                         queue'[g] = queue[g])
      /\ (\A n \in Message : worker[n] = "queued" /\ genOf[n] = arg[c] =>
              worker'[n] = "done" /\ said'[n] # "nothing")
      /\ (\A n \in Message : worker[n] # "queued" \/ genOf[n] # arg[c] =>
              worker'[n] = worker[n] /\ said'[n] = said[n])
    BY <1>1, <2>1, QueueDropped
  <2>3. UNCHANGED <<bound, genOf, answers, flight, starting, draining, held, next,
                    streamed, lane, ended, turns, got>>
    BY DEF NewDrops, kernel, harness
  <2>4. ctl' = [ctl EXCEPT ![c] = "idle"] /\ arg' = [arg EXCEPT ![c] = None]
    BY DEF NewDrops, Over, To
  <2>5. /\ ctl'[c] = "idle" \/ (ctl'[c] = "stopping" /\ arg'[c] # None)
        /\ (\A d \in Control : d # c => ctl'[d] = ctl[d] /\ arg'[d] = arg[d])
    BY <1>1, <2>1, <2>4, Constants DEF Shapes
  <2>6. \A n \in Message : worker[n] # "none" => genOf[n] \in Generation
    BY <1>1 DEF Shapes, Admitted
  <2> QED  BY <2>1, <2>2, <2>3, <2>5, <2>6
<1>4. /\ queue' \in [Generation -> Seq(Message)]
      /\ worker' \in [Message -> Place] /\ said' \in [Message -> Word]
  BY <1>1, <1>2, QueueDropped
<1>5. ctl' \in [Control -> Step] /\ arg' \in [Control -> Generation \cup {None}]
  <2>1. (ctl' = [ctl EXCEPT ![c] = "idle"] /\ arg' = [arg EXCEPT ![c] = None])
          \/ (ctl' = [ctl EXCEPT ![c] = "stopping"] /\ arg' = arg)
    BY DEF NewDrops, Over, To
  <2> QED  BY <1>1, <2>1 DEF Shapes, Step
<1>6. TypeOK'
  <2>1. UNCHANGED <<up, taken, cancelled, orders>>
    BY DEF NewDrops, harness
  <2>2. \A g \in Generation : Len(queue'[g]) <= QueueLimit
    <3>1. Len(<<>>) = 0 /\ QueueLimit \in Nat
      BY BoundsAssumption
    <3>2. \A g \in Generation : g # arg[c] => Len(queue'[g]) <= QueueLimit
      BY <1>1, <1>3 DEF TypeOK
    <3>3. Len(queue'[arg[c]]) <= QueueLimit
      BY <1>3, <3>1
    <3> QED  BY <3>2, <3>3
  <2> QED  BY <1>1, <1>3, <1>4, <1>5, <2>1, <2>2 DEF TypeOK
<1>7. \A n \in Message : Final(n)' = Final(n)
  BY <1>3, <1>2, <1>4, <1>5, <1>6, NothingJournaled
<1>8. AnsweredOnce'
  BY <1>1, <1>3, <1>2, <1>4, <1>5, <1>6, <1>7 DEF AnsweredOnce
<1>9. Admitted'
  BY <1>1, <1>3, <1>2 DEF Admitted
<1>10. QueuedOnce'
  BY <1>1, <1>3, Constants, HoldsNothing DEF QueuedOnce
<1>11. HandedOn'
  BY <1>1, <1>3, <1>2 DEF HandedOn
<1>12. OneClaim'
  BY <1>1, <1>3, <1>2 DEF OneClaim, Claiming
<1>13. Registered'
  BY <1>1, <1>3, <1>2 DEF Registered
<1>14. LaneKnown'
  BY <1>1, <1>3, <1>2 DEF LaneKnown
<1>15. LaneRuns'
  BY <1>1, <1>3, <1>2 DEF LaneRuns, Unasked
<1>16. Drained'
  BY <1>1, <1>3, <1>2 DEF Drained, Settling
<1>17. Brought'
  BY <1>1, <1>3, <1>2 DEF Brought
<1>18. NotYet'
  BY <1>1, <1>3, <1>2, <1>4, <1>5, <1>6, <1>7 DEF NotYet, Owed
<1>19. Accounted'
  BY <1>1, <1>3, <1>7 DEF Accounted, Owed, Answered
<1> QED  BY <1>6, <1>8, <1>9, <1>10, <1>11, <1>12, <1>13, <1>14, <1>15, <1>16, <1>17,
         <1>18, <1>19 DEF Inv

LEMMA DrainKeeps ==
  ASSUME Inv, NEW c \in Control, Drain(c)
  PROVE  Inv'
<1>1. Shapes /\ TypeOK /\ Admitted /\ QueuedOnce /\ HandedOn /\ OneClaim /\ Registered
      /\ LaneKnown /\ LaneRuns /\ Drained /\ Brought /\ NotYet /\ AnsweredOnce /\ Accounted
  BY Shaped DEF Inv
<1>2. /\ ctl[c] = "idle" /\ ctl'[c] = "drain"
      /\ \A d \in Control : d # c => ctl'[d] = ctl[d] /\ arg'[d] = arg[d]
      /\ \A n \in Message : worker[n] # "none" => genOf[n] \in Generation
      /\ UNCHANGED <<bound, genOf, answers, flight, starting, queue, draining, worker,
                     held, next, streamed, lane, ended, said, turns, got>>
  BY <1>1, Constants DEF Shapes, Admitted, Outcome, Drain, Order, In, To, kernel, plane,
     work, harness
<1>3. \A n \in Message : Final(n)' = Final(n)
  BY <1>2, NothingJournaled
<1>4. ctl' \in [Control -> Step]
  BY <1>1, <1>2 DEF Shapes, Step, Drain, Order, In, To, kernel, plane, work, harness
<1>5. arg' \in [Control -> Generation \cup {None}]
  BY <1>1, <1>2 DEF Shapes, Drain, Order, In, To, kernel, plane, work, harness
<1>6. orders' \in 0 .. MaxControls
  BY <1>1, <1>2, Constants, BoundsAssumption DEF TypeOK, Drain, Order, In, To, kernel,
     plane, work, harness
<1>7. TypeOK'
  BY <1>1, <1>2, <1>4, <1>5, <1>6 DEF TypeOK, Drain, Order, In, To, kernel, plane, work,
     harness
<1>8. Admitted' /\ QueuedOnce' /\ HandedOn' /\ OneClaim' /\ Registered' /\ LaneKnown'
      /\ LaneRuns' /\ Brought' /\ NotYet' /\ AnsweredOnce' /\ Accounted'
  BY <1>1, <1>2, <1>3 DEF Admitted, QueuedOnce, HandedOn, OneClaim, Claiming, Registered,
     LaneKnown, LaneRuns, Unasked, Brought, NotYet, Owed, AnsweredOnce, Accounted, Owed,
     Answered
<1>9. Drained'
  BY <1>1, <1>2 DEF Drained, Settling
<1> QED  BY <1>7, <1>8, <1>9 DEF Inv

LEMMA DrainTakesKeeps ==
  ASSUME Inv, NEW c \in Control, DrainTakes(c)
  PROVE  Inv'
<1>1. Shapes /\ TypeOK /\ Admitted /\ QueuedOnce /\ HandedOn /\ OneClaim /\ Registered
      /\ LaneKnown /\ LaneRuns /\ Drained /\ Brought /\ NotYet /\ AnsweredOnce /\ Accounted
  BY Shaped DEF Inv
<1>2. PICK S \in SUBSET Message :
        S = InFlight /\ \A n \in Message : n \in S <=> \E g \in Generation : flight[g] = n
  <2>1. \A x : x \in InFlight <=> x # None /\ \E g \in Generation : flight[g] = x
    BY <1>1 DEF InFlight, Range, Shapes
  <2>2. \A x : x \in InFlight => x \in Message
    BY <1>1, <2>1 DEF Shapes
  <2>3. InFlight \in SUBSET Message
    BY <2>2
  <2> QED  BY <2>1, <2>3, Constants
<1>3. PICK M \in SUBSET Message :
        M = Queued /\ \A n \in Message : n \in M <=> worker[n] = "queued"
  <2>1. \A g \in Generation : queue[g] \in Seq(Message)
    BY <1>1 DEF Shapes
  <2>2. /\ Queued \subseteq Message
        /\ \A n \in Message : n \in Queued <=> \E g \in Generation : Holds(queue[g], n)
    BY <2>1, HoldsRange DEF Queued
  <2>3. \A n \in Message : worker[n] = "queued" => genOf[n] \in Generation
    BY <1>1 DEF Shapes, Admitted
  <2> QED  BY <1>1, <2>2, <2>3 DEF QueuedOnce
<1>4. /\ SayAll(M, "not_started") /\ Unqueue(M) /\ turns' = [turns EXCEPT ![c] = S]
      /\ flight' = [g \in Generation |-> None] /\ queue' = [g \in Generation |-> <<>>]
  BY <1>2, <1>3 DEF DrainTakes
<1>5. /\ ctl[c] = "drain" /\ ctl'[c] = "wait" /\ draining' = TRUE
      /\ (\A d \in Control : d # c => ctl'[d] = ctl[d] /\ turns'[d] = turns[d])
      /\ (\A n \in Message : n \in turns'[c] <=> \E g \in Generation : flight[g] = n)
      /\ (\A g \in Generation : queue'[g] = <<>> /\ flight'[g] = None)
      /\ (\A n \in Message : worker[n] = "queued" =>
              worker'[n] = "done" /\ said'[n] # "nothing")
      /\ (\A n \in Message : worker[n] # "queued" =>
              worker'[n] = worker[n] /\ said'[n] = said[n])
      /\ \A n \in Message : worker[n] # "none" => genOf[n] \in Generation
      /\ UNCHANGED <<bound, genOf, answers, starting, held, next, streamed, lane, ended,
                     arg, got>>
  <2>1. ctl[c] = "drain" /\ draining' = TRUE /\ ctl' = [ctl EXCEPT ![c] = "wait"]
    BY DEF DrainTakes, In, To
  <2>2. ctl'[c] = "wait" /\ turns'[c] = S /\ (\A d \in Control : d # c =>
                                                  ctl'[d] = ctl[d] /\ turns'[d] = turns[d])
    BY <1>1, <1>4, <2>1 DEF Shapes
  <2>3. UNCHANGED <<bound, genOf, answers, starting, held, next, streamed, lane, ended,
                    arg, got>>
    BY DEF DrainTakes, kernel, harness
  <2>4. "not_started" \in Word /\ "not_started" # "nothing"
    BY DEF Word
  <2>5. /\ (\A n \in Message : worker[n] = "queued" =>
                worker'[n] = "done" /\ said'[n] # "nothing")
        /\ (\A n \in Message : worker[n] # "queued" =>
                worker'[n] = worker[n] /\ said'[n] = said[n])
    BY <1>1, <1>3, <1>4, <2>4, Unqueued
  <2>6. \A n \in Message : worker[n] # "none" => genOf[n] \in Generation
    BY <1>1 DEF Shapes, Admitted
  <2>7. \A g \in Generation : queue'[g] = <<>> /\ flight'[g] = None
    BY <1>4
  <2> QED  BY <1>2, <2>1, <2>2, <2>3, <2>5, <2>6, <2>7
<1>6. worker' \in [Message -> Place] /\ said' \in [Message -> Word]
  <2>1. "not_started" \in Word
    BY DEF Word
  <2> QED  BY <1>1, <1>4, <2>1, Unqueued
<1>7. /\ ctl' \in [Control -> Step] /\ turns' \in [Control -> SUBSET Message]
      /\ flight' \in [Generation -> Message \cup {None}]
      /\ queue' \in [Generation -> Seq(Message)]
      /\ \A g \in Generation : Len(queue'[g]) <= QueueLimit
  <2>1. ctl' = [ctl EXCEPT ![c] = "wait"]
    BY DEF DrainTakes, To
  <2>2. Len(<<>>) = 0 /\ QueueLimit \in Nat /\ <<>> \in Seq(Message)
    BY BoundsAssumption
  <2> QED  BY <1>1, <1>4, <2>1, <2>2 DEF Shapes, Step
<1>8. TypeOK'
  <2>1. UNCHANGED <<up, taken, cancelled, orders>>
    BY DEF DrainTakes, harness
  <2>2. draining' \in BOOLEAN
    BY <1>5
  <2> QED  BY <1>1, <1>5, <1>6, <1>7, <2>1, <2>2 DEF TypeOK
<1>9. \A n \in Message : Final(n)' = Final(n)
  BY <1>5, <1>2, <1>3, <1>4, <1>6, <1>7, <1>8, NothingJournaled
<1>10. AnsweredOnce'
  BY <1>1, <1>5, <1>2, <1>3, <1>4, <1>6, <1>7, <1>8, <1>9 DEF AnsweredOnce
<1>11. Admitted'
  BY <1>1, <1>5, <1>2, <1>3, <1>4 DEF Admitted
<1>12. QueuedOnce'
  BY <1>1, <1>5, Constants, HoldsNothing DEF QueuedOnce
<1>13. HandedOn'
  BY <1>1, <1>5, <1>2, <1>3, <1>4 DEF HandedOn
<1>14. OneClaim'
  BY <1>1, <1>5, <1>2, <1>3, <1>4 DEF OneClaim, Claiming
<1>15. Registered'
  BY <1>1, <1>5, <1>2, <1>3, <1>4, Constants DEF Registered, OneClaim, Claiming
<1>16. LaneKnown'
  BY <1>1, <1>5, <1>2, <1>3, <1>4 DEF LaneKnown
<1>17. LaneRuns'
  BY <1>1, <1>5, <1>2, <1>3, <1>4 DEF LaneRuns, Unasked
<1>18. Drained'
  BY <1>1, <1>5, <1>2, <1>3, <1>4, Constants DEF Drained, Settling, Registered
<1>19. Brought'
  BY <1>1, <1>5, <1>2, <1>3, <1>4 DEF Brought
<1>20. NotYet'
  BY <1>1, <1>5, <1>9, Constants DEF NotYet, Owed, Registered
<1>21. Accounted'
  <2>1. \A n \in Message : Owed(n) => Owed(n)' \/ said'[n] # "nothing"
    <3>1. turns[c] = {}
      BY <1>1, <1>5 DEF Drained, Settling, Shapes
    <3>2. \A n \in Message : worker[n] \in {"await", "remove"} /\ flight[genOf[n]] = n =>
              n \in turns'[c]
      BY <1>1, <1>5
    <3> QED  BY <1>5, <3>1, <3>2 DEF Owed
  <2> QED  BY <1>1, <1>5, <1>9, <2>1 DEF Accounted, Answered
<1> QED  BY <1>8, <1>10, <1>11, <1>12, <1>13, <1>14, <1>15, <1>16, <1>17, <1>18, <1>19,
         <1>20, <1>21 DEF Inv

LEMMA DrainWaitsKeeps ==
  ASSUME Inv, NEW c \in Control, DrainWaits(c)
  PROVE  Inv'
<1>1. Shapes /\ TypeOK /\ Admitted /\ QueuedOnce /\ HandedOn /\ OneClaim /\ Registered
      /\ LaneKnown /\ LaneRuns /\ Drained /\ Brought /\ NotYet /\ AnsweredOnce /\ Accounted
  BY Shaped DEF Inv
<1>2. PICK t \in Message : t = Turn(c) /\ t \in turns[c] /\ genOf[t] \in Generation
  BY <1>1, TurnIsOne DEF Drained, Settling, In, DrainWaits
<1>3. /\ ctl[c] = "wait"
      /\ \A d \in Control : d # c => ctl'[d] = ctl[d] /\ got'[d] = got[d]
      /\ \A n \in Message : said[n] # "nothing" => said'[n] # "nothing"
      /\ \/ ctl'[c] = "interrupt"
         \/ ctl'[c] = "record" /\ got'[c] # None
      /\ \A n \in Message : worker[n] # "none" => genOf[n] \in Generation
      /\ UNCHANGED <<bound, genOf, answers, flight, starting, queue, draining, worker,
                     held, next, streamed, lane, ended, arg, turns>>
  <2>1. CASE Available(Turn(c))
    BY <1>1, <1>2, <2>1, Constants DEF Shapes, Admitted, Outcome, DrainWaits, In, To,
       Available, Take, kernel, plane, work
  <2>2. CASE ~Available(Turn(c))
    BY <1>1, <1>2, <2>2, Constants DEF Shapes, Admitted, Outcome, DrainWaits, In, To,
       kernel, plane, work
  <2> QED  BY <2>1, <2>2
<1>4. \A n \in Message : Final(n)' = Final(n)
  BY <1>3, <1>2, NothingJournaled
<1>5. ctl' \in [Control -> Step]
  <2>1. ctl' = [ctl EXCEPT ![c] = "interrupt"] \/ ctl' = [ctl EXCEPT ![c] = "record"]
    BY DEF DrainWaits, To
  <2> QED  BY <1>1, <2>1 DEF Shapes, Step
<1>6. taken' \subseteq Message
  BY <1>1, <1>3, <1>2 DEF TypeOK, DrainWaits, In, To, Available, Take, kernel, plane, work
<1>7. got' \in [Control -> Outcome \cup {None}]
  BY <1>1, <1>3, <1>2 DEF Shapes, Outcome, DrainWaits, In, To, Available, Take, kernel,
     plane, work
<1>8. said' \in [Message -> Word]
  BY <1>1, <1>3, <1>2 DEF Shapes, Word, DrainWaits, In, To, Available, Take, kernel,
     plane, work
<1>9. TypeOK'
  BY <1>1, <1>3, <1>2, <1>5, <1>6, <1>7, <1>8 DEF TypeOK, DrainWaits, In, To, Available,
     Take, kernel, plane, work
<1>10. Admitted' /\ QueuedOnce' /\ HandedOn' /\ OneClaim' /\ Registered' /\ LaneKnown'
      /\ LaneRuns' /\ Brought' /\ NotYet' /\ AnsweredOnce'
  BY <1>1, <1>3, <1>2, <1>4 DEF Admitted, QueuedOnce, HandedOn, OneClaim, Claiming,
     Registered, LaneKnown, LaneRuns, Unasked, Brought, NotYet, Owed, AnsweredOnce
<1>11. Drained'
  BY <1>1, <1>3, <1>2 DEF Drained, Settling
<1>12. Accounted'
  BY <1>1, <1>3, <1>2, <1>4 DEF Accounted, Owed, Answered
<1> QED  BY <1>9, <1>10, <1>11, <1>12 DEF Inv

LEMMA DrainInterruptsKeeps ==
  ASSUME Inv, NEW c \in Control, DrainInterrupts(c)
  PROVE  Inv'
<1>1. Shapes /\ TypeOK /\ Admitted /\ QueuedOnce /\ HandedOn /\ OneClaim /\ Registered
      /\ LaneKnown /\ LaneRuns /\ Drained /\ Brought /\ NotYet /\ AnsweredOnce /\ Accounted
  BY Shaped DEF Inv
<1>2. PICK t \in Message : t = Turn(c) /\ t \in turns[c] /\ genOf[t] \in Generation
  BY <1>1, TurnIsOne DEF Drained, Settling, In, DrainInterrupts
<1>3. /\ ctl[c] = "interrupt" /\ ctl'[c] = "grace"
      /\ \A d \in Control : d # c => ctl'[d] = ctl[d]
      /\ \A n \in Message : worker[n] # "none" => genOf[n] \in Generation
      /\ UNCHANGED <<bound, genOf, answers, flight, starting, queue, draining, worker,
                     held, next, streamed, lane, ended, said, arg, turns, got>>
  BY <1>1, <1>2, Constants DEF Shapes, Admitted, Outcome, DrainInterrupts, In, To,
     InterruptLane, kernel, plane, work
<1>4. \A n \in Message : Final(n)' = Final(n)
  BY <1>3, <1>2, NothingJournaled
<1>5. ctl' \in [Control -> Step]
  BY <1>1, <1>3, <1>2 DEF Shapes, Step, DrainInterrupts, In, To, InterruptLane, kernel,
     plane, work
<1>6. cancelled' \subseteq Message
  BY <1>1, <1>3, <1>2 DEF TypeOK, Shapes, DrainInterrupts, In, To, InterruptLane, kernel,
     plane, work
<1>7. TypeOK'
  BY <1>1, <1>3, <1>2, <1>5, <1>6 DEF TypeOK, DrainInterrupts, In, To, InterruptLane,
     kernel, plane, work
<1>8. Admitted' /\ QueuedOnce' /\ HandedOn' /\ OneClaim' /\ Registered' /\ LaneKnown'
      /\ LaneRuns' /\ Brought' /\ NotYet' /\ AnsweredOnce' /\ Accounted'
  BY <1>1, <1>3, <1>2, <1>4 DEF Admitted, QueuedOnce, HandedOn, OneClaim, Claiming,
     Registered, LaneKnown, LaneRuns, Unasked, Brought, NotYet, Owed, AnsweredOnce,
     Accounted, Owed, Answered
<1>9. Drained'
  BY <1>1, <1>3, <1>2 DEF Drained, Settling
<1> QED  BY <1>7, <1>8, <1>9 DEF Inv

LEMMA DrainAfterGraceKeeps ==
  ASSUME Inv, NEW c \in Control, DrainAfterGrace(c)
  PROVE  Inv'
<1>1. Shapes /\ TypeOK /\ Admitted /\ QueuedOnce /\ HandedOn /\ OneClaim /\ Registered
      /\ LaneKnown /\ LaneRuns /\ Drained /\ Brought /\ NotYet /\ AnsweredOnce /\ Accounted
  BY Shaped DEF Inv
<1>2. PICK t \in Message : t = Turn(c) /\ t \in turns[c] /\ genOf[t] \in Generation
  BY <1>1, TurnIsOne DEF Drained, Settling, In, DrainAfterGrace
<1>3. /\ ctl[c] = "grace"
      /\ \A d \in Control : d # c => ctl'[d] = ctl[d] /\ got'[d] = got[d]
      /\ \A n \in Message : said[n] # "nothing" => said'[n] # "nothing"
      /\ ctl'[c] = "record" /\ got'[c] # None
      /\ \A n \in Message : worker[n] # "none" => genOf[n] \in Generation
      /\ UNCHANGED <<bound, genOf, answers, flight, starting, queue, draining, worker,
                     held, next, streamed, lane, ended, arg, turns>>
  BY <1>1, <1>2, Constants DEF Shapes, Admitted, Outcome, Drained, DrainAfterGrace, In,
     To, Available, Take, kernel, plane, work
<1>4. \A n \in Message : Final(n)' = Final(n)
  BY <1>3, <1>2, NothingJournaled
<1>5. ctl' \in [Control -> Step]
  BY <1>1, <1>3, <1>2 DEF Shapes, Step, DrainAfterGrace, In, To, Available, Take, kernel,
     plane, work
<1>6. taken' \subseteq Message
  BY <1>1, <1>3, <1>2 DEF TypeOK, DrainAfterGrace, In, To, Available, Take, kernel,
     plane, work
<1>7. got' \in [Control -> Outcome \cup {None}]
  BY <1>1, <1>3, <1>2 DEF Shapes, Outcome, DrainAfterGrace, In, To, Available, Take,
     kernel, plane, work
<1>8. said' \in [Message -> Word]
  BY <1>1, <1>3, <1>2 DEF Shapes, Word, DrainAfterGrace, In, To, Available, Take, kernel,
     plane, work
<1>9. TypeOK'
  BY <1>1, <1>3, <1>2, <1>5, <1>6, <1>7, <1>8 DEF TypeOK, DrainAfterGrace, In, To,
     Available, Take, kernel, plane, work
<1>10. Admitted' /\ QueuedOnce' /\ HandedOn' /\ OneClaim' /\ Registered' /\ LaneKnown'
      /\ LaneRuns' /\ Brought' /\ NotYet' /\ AnsweredOnce'
  BY <1>1, <1>3, <1>2, <1>4 DEF Admitted, QueuedOnce, HandedOn, OneClaim, Claiming,
     Registered, LaneKnown, LaneRuns, Unasked, Brought, NotYet, Owed, AnsweredOnce
<1>11. Drained'
  BY <1>1, <1>3, <1>2 DEF Drained, Settling
<1>12. Accounted'
  BY <1>1, <1>3, <1>2, <1>4 DEF Accounted, Owed, Answered
<1> QED  BY <1>9, <1>10, <1>11, <1>12 DEF Inv

LEMMA DrainRecordsKeeps ==
  ASSUME Inv, NEW c \in Control, DrainRecords(c)
  PROVE  Inv'
<1>1. Shapes /\ TypeOK /\ Admitted /\ QueuedOnce /\ HandedOn /\ OneClaim /\ Registered
      /\ LaneKnown /\ LaneRuns /\ Drained /\ Brought /\ NotYet /\ AnsweredOnce /\ Accounted
  BY Shaped DEF Inv
<1>2. PICK t \in Message : t = Turn(c) /\ t \in turns[c] /\ genOf[t] \in Generation
  BY <1>1, TurnIsOne DEF Drained, Settling, In, DrainRecords
<1>3. /\ ctl[c] = "record" /\ ctl'[c] = "wait"
      /\ \A d \in Control : d # c =>
             ctl'[d] = ctl[d] /\ turns'[d] = turns[d] /\ got'[d] = got[d]
      /\ turns'[c] = turns[c] \ {t}
      /\ Journal(t, got[c]) /\ got[c] \in Outcome
      /\ \A n \in Message : worker[n] # "none" => genOf[n] \in Generation
      /\ UNCHANGED <<bound, genOf, flight, starting, queue, draining, worker, held, next,
                     streamed, lane, ended, said, arg>>
  BY <1>1, <1>2, Constants DEF Shapes, Admitted, Outcome, Drained, DrainRecords, In, To,
     plane, work, harness
<1>4. Final(t) = {} /\ got[c] \in Outcome /\ got[c] # "segment"
  BY <1>1, <1>3, <1>2, Constants DEF NotYet, Owed
<1>5. /\ answers' \in [Message -> Seq(Outcome \cup {"segment"})]
      /\ \A n \in Message : n # t => Final(n)' = Final(n)
      /\ \A i, j \in Final(t)' : i = j
      /\ bound = genOf[t] => Final(t)' # {}
  BY <1>1, <1>3, <1>2, <1>4, Journaled
<1>6. ~Owed(t)'
  <2>1. worker[t] \in {"await", "remove", "done"} /\ flight[genOf[t]] = None /\ t # None
    BY <1>1, <1>2, Constants DEF Drained, Registered
  <2>2. \A d \in Control : t \notin turns'[d]
    BY <1>1, <1>2, <1>3 DEF Drained, Shapes
  <2> QED  BY <1>3, <2>1, <2>2 DEF Owed
<1>7. \A n \in Message : n # t => (Owed(n)' <=> Owed(n))
  BY <1>1, <1>3, <1>2, <1>4, <1>5, <1>6 DEF Owed, Drained
<1>8. ctl' \in [Control -> Step]
  BY <1>1, <1>3, <1>2, <1>4, <1>5, <1>6, <1>7 DEF Shapes, Step, DrainRecords, In, To,
     plane, work, harness
<1>9. turns' \in [Control -> SUBSET Message]
  BY <1>1, <1>3, <1>2, <1>4, <1>5, <1>6, <1>7 DEF Shapes, DrainRecords, In, To, plane,
     work, harness
<1>10. got' \in [Control -> Outcome \cup {None}]
  BY <1>1, <1>3, <1>2, <1>4, <1>5, <1>6, <1>7 DEF Shapes, Outcome, DrainRecords, In, To,
     plane, work, harness
<1>11. TypeOK'
  BY <1>1, <1>3, <1>2, <1>4, <1>5, <1>6, <1>7, <1>8, <1>9, <1>10 DEF TypeOK,
     DrainRecords, In, To, plane, work, harness
<1>12. Admitted' /\ QueuedOnce' /\ HandedOn' /\ OneClaim' /\ Registered' /\ LaneKnown'
      /\ LaneRuns' /\ Brought'
  BY <1>1, <1>3, <1>2 DEF Admitted, QueuedOnce, HandedOn, OneClaim, Claiming, Registered,
     LaneKnown, LaneRuns, Unasked, Brought
<1>13. Drained'
  BY <1>1, <1>3, <1>2 DEF Drained, Settling
<1>14. NotYet'
  BY <1>1, <1>3, <1>2, <1>4, <1>5, <1>6, <1>7 DEF NotYet
<1>15. AnsweredOnce'
  BY <1>1, <1>3, <1>2, <1>4, <1>5, <1>6, <1>7 DEF AnsweredOnce
<1>16. Accounted'
  BY <1>1, <1>3, <1>2, <1>4, <1>5, <1>6, <1>7 DEF Accounted, Answered
<1> QED  BY <1>11, <1>12, <1>13, <1>14, <1>15, <1>16 DEF Inv

LEMMA DrainEndsKeeps ==
  ASSUME Inv, NEW c \in Control, DrainEnds(c)
  PROVE  Inv'
<1>1. Shapes /\ TypeOK /\ Admitted /\ QueuedOnce /\ HandedOn /\ OneClaim /\ Registered
      /\ LaneKnown /\ LaneRuns /\ Drained /\ Brought /\ NotYet /\ AnsweredOnce /\ Accounted
  BY Shaped DEF Inv
<1>2. /\ ctl[c] = "wait" /\ ctl'[c] = "idle" /\ turns[c] = {}
      /\ \A d \in Control : d # c => ctl'[d] = ctl[d]
      /\ \A n \in Message : worker[n] # "none" => genOf[n] \in Generation
      /\ UNCHANGED <<bound, genOf, answers, flight, starting, queue, draining, worker,
                     held, next, streamed, lane, ended, said, arg, turns, got>>
  BY <1>1, Constants DEF Shapes, Admitted, Outcome, DrainEnds, In, To, kernel, plane,
     work, harness
<1>3. \A n \in Message : Final(n)' = Final(n)
  BY <1>2, NothingJournaled
<1>4. ctl' \in [Control -> Step]
  BY <1>1, <1>2 DEF Shapes, Step, DrainEnds, In, To, kernel, plane, work, harness
<1>5. up' \in BOOLEAN
  BY <1>1, <1>2 DEF TypeOK, DrainEnds, In, To, kernel, plane, work, harness
<1>6. TypeOK'
  BY <1>1, <1>2, <1>4, <1>5 DEF TypeOK, DrainEnds, In, To, kernel, plane, work, harness
<1>7. Admitted' /\ QueuedOnce' /\ HandedOn' /\ OneClaim' /\ Registered' /\ LaneKnown'
      /\ LaneRuns' /\ Brought' /\ NotYet' /\ AnsweredOnce' /\ Accounted'
  BY <1>1, <1>2, <1>3 DEF Admitted, QueuedOnce, HandedOn, OneClaim, Claiming, Registered,
     LaneKnown, LaneRuns, Unasked, Brought, NotYet, Owed, AnsweredOnce, Accounted, Owed,
     Answered
<1>8. Drained'
  BY <1>1, <1>2 DEF Drained, Settling
<1> QED  BY <1>6, <1>7, <1>8 DEF Inv

-----------------------------------------------------------------------------
(* The invariant, and what it implies. *)

LEMMA Initially == Init => Inv
<1> SUFFICES ASSUME Init PROVE Inv
  OBVIOUS
<1>1. /\ bound = 1 /\ draining = FALSE /\ up = TRUE /\ starting = {} /\ orders = 0
      /\ streamed = {} /\ taken = {} /\ cancelled = {}
      /\ \A m \in Message :
            /\ genOf[m] = None /\ answers[m] = <<>> /\ worker[m] = "none" /\ held[m] = None
            /\ next[m] = None /\ ended[m] = None /\ said[m] = "nothing"
      /\ \A g \in Generation : flight[g] = None /\ queue[g] = <<>> /\ lane[g] = None
      /\ \A c \in Control : ctl[c] = "idle" /\ arg[c] = None /\ turns[c] = {} /\ got[c] = None
  BY DEF Init
<1>2. TypeOK
  <2>1. 1 \in Generation
    BY BoundsAssumption DEF Generation
  <2>2. <<>> \in Seq(Message) /\ <<>> \in Seq(Outcome \cup {"segment"}) /\ Len(<<>>) = 0
    OBVIOUS
  <2>3. "none" \in Place /\ "nothing" \in Word /\ "idle" \in Step
    BY DEF Place, Word, Step
  <2>4. /\ bound \in Generation /\ genOf \in [Message -> Generation \cup {None}]
        /\ answers \in [Message -> Seq(Outcome \cup {"segment"})]
        /\ flight \in [Generation -> Message \cup {None}] /\ starting \subseteq Generation
        /\ queue \in [Generation -> Seq(Message)]
    BY <2>1, <2>2 DEF Init
  <2>5. /\ \A g \in Generation : Len(queue[g]) <= QueueLimit
        /\ draining \in BOOLEAN /\ up \in BOOLEAN /\ orders \in 0 .. MaxControls
        /\ streamed \subseteq Message /\ taken \subseteq Message /\ cancelled \subseteq Message
    <3>1. QueueLimit \in Nat /\ MaxControls \in Nat
      BY BoundsAssumption
    <3>2. \A g \in Generation : Len(queue[g]) <= QueueLimit
      <4>1. \A g \in Generation : Len(queue[g]) = 0
        BY <1>1, <2>2
      <4> QED  BY <3>1, <4>1
    <3>3. orders \in 0 .. MaxControls
      BY <1>1, <3>1
    <3>4. /\ draining \in BOOLEAN /\ up \in BOOLEAN
          /\ streamed \subseteq Message /\ taken \subseteq Message /\ cancelled \subseteq Message
      BY <1>1
    <3> QED  BY <3>2, <3>3, <3>4
  <2>6. /\ worker \in [Message -> Place] /\ said \in [Message -> Word]
        /\ held \in [Message -> Outcome \cup {None}] /\ next \in [Message -> Message \cup {None}]
        /\ lane \in [Generation -> Message \cup {None}]
        /\ ended \in [Message -> Outcome \cup {None}]
    BY <2>3 DEF Init
  <2>7. /\ ctl \in [Control -> Step] /\ arg \in [Control -> Generation \cup {None}]
        /\ turns \in [Control -> SUBSET Message] /\ got \in [Control -> Outcome \cup {None}]
    BY <2>3 DEF Init
  <2> QED  BY <2>4, <2>5, <2>6, <2>7 DEF TypeOK
<1>3. \A m \in Message : Final(m) = {}
  BY <1>1 DEF Final
<1>4. Admitted /\ HandedOn /\ OneClaim /\ Registered /\ LaneKnown /\ LaneRuns
  BY <1>1, Constants
     DEF Admitted, HandedOn, OneClaim, Claiming, Registered, LaneKnown, LaneRuns, Unasked
<1>5. QueuedOnce
  BY <1>1, HoldsNothing DEF QueuedOnce
<1>6. Drained /\ Brought
  BY <1>1 DEF Drained, Settling, Brought
<1>7. NotYet /\ AnsweredOnce /\ Accounted
  BY <1>1, <1>3 DEF NotYet, AnsweredOnce, Accounted, Owed
<1> QED  BY <1>2, <1>4, <1>5, <1>6, <1>7 DEF Inv

LEMMA Stutters ==
  ASSUME Inv, UNCHANGED vars
  PROVE  Inv'
<1>1. UNCHANGED <<kernel, plane, up, work, harness, said, control>>
  BY DEF vars
<1>2. /\ UNCHANGED <<bound, genOf, answers, flight, starting, queue, draining, up>>
      /\ UNCHANGED <<worker, held, next, streamed, lane, ended, taken, cancelled, said>>
      /\ UNCHANGED <<ctl, arg, turns, got, orders>>
  BY <1>1 DEF kernel, plane, work, harness, control
<1>3. \A n \in Message : Final(n)' = Final(n)
  BY <1>2, NothingJournaled
<1>4. TypeOK'
  BY <1>2 DEF Inv, TypeOK
<1>5. Admitted' /\ QueuedOnce' /\ HandedOn' /\ OneClaim' /\ Registered' /\ LaneKnown'
  BY <1>2 DEF Inv, Admitted, QueuedOnce, HandedOn, OneClaim, Registered, LaneKnown
<1>6. LaneRuns' /\ Drained' /\ Brought'
  BY <1>2 DEF Inv, LaneRuns, Drained, Brought
<1>7. NotYet' /\ AnsweredOnce' /\ Accounted'
  BY <1>2, <1>3 DEF Inv, NotYet, AnsweredOnce, Accounted, Owed, Answered
<1> QED  BY <1>4, <1>5, <1>6, <1>7 DEF Inv

LEMMA IngestKeeps ==
  ASSUME Inv, NEW m \in Message, Ingest(m)
  PROVE  Inv'
<1>1. CASE draining
  BY <1>1, IngestIgnoredKeeps
<1>2. CASE ~draining /\ Busy(bound) /\ QueueFull(bound)
  BY <1>2, IngestRefusedKeeps
<1>3. CASE ~draining /\ Busy(bound) /\ ~QueueFull(bound)
  BY <1>3, IngestQueuedKeeps
<1>4. CASE ~draining /\ ~Busy(bound)
  BY <1>4, IngestClaimsKeeps
<1> QED  BY <1>1, <1>2, <1>3, <1>4

LEMMA WorksKeeps ==
  ASSUME Inv, NEW m \in Message, Works(m)
  PROVE  Inv'
<1>1. CASE Release(m)
  BY <1>1, ReleaseNothingKeeps, ReleaseNextKeeps
<1>2. CASE Advance(m)
  BY <1>2, AdvanceNothingKeeps, AdvanceNextKeeps
<1> QED
  BY <1>1, <1>2, PromptKeeps, SpawnKeeps, RegisterKeeps, RefuseKeeps, AfterGraceKeeps,
     StreamKeeps, AwaitKeeps, UnregisterKeeps, RecordKeeps, AnswerKeeps DEF Works

LEMMA CarriesKeeps ==
  ASSUME Inv, NEW c \in Control, Asked(c) \/ Carries(c)
  PROVE  Inv'
BY StopKeeps, NewKeeps, DrainKeeps, StopReadsKeeps, StopInterruptsKeeps, NewDropsKeeps,
   DrainTakesKeeps, DrainWaitsKeeps, DrainInterruptsKeeps, DrainAfterGraceKeeps,
   DrainRecordsKeeps, DrainEndsKeeps DEF Asked, Carries

(* Every step of the ingress, of a worker, of the harness and of a control *)
(* thread keeps the invariant.                                             *)
THEOREM TurnsInvariant == Spec => []Inv
<1>1. Init => Inv
  BY Initially
<1>2. Inv /\ [Next]_vars => Inv'
  <2> SUFFICES ASSUME Inv, [Next]_vars PROVE Inv'
    OBVIOUS
  <2>1. ASSUME NEW m \in Message, Ingest(m) \/ Works(m) PROVE Inv'
    BY <2>1, IngestKeeps, WorksKeeps
  <2>2. ASSUME NEW g \in Generation, Ends(g) PROVE Inv'
    BY <2>2, EndTurnKeeps DEF Ends
  <2>3. ASSUME NEW c \in Control, Asked(c) \/ Carries(c) PROVE Inv'
    BY <2>3, CarriesKeeps
  <2>4. CASE UNCHANGED vars
    BY <2>4, Stutters
  <2> QED  BY <2>1, <2>2, <2>3, <2>4 DEF Next
<1> QED  BY <1>1, <1>2, PTL DEF Spec

(* Every variable keeps its type, and no queue grows past its limit.       *)
THEOREM TurnsTyped == Spec => []TypeOK
<1>1. Inv => TypeOK
  BY DEF Inv
<1> QED  BY <1>1, TurnsInvariant, PTL

(* The claim of the plane covers the way from the admission of a message,  *)
(* or from the queue, to the registration of its turn: run_turn never asks *)
(* the harness for a turn while the lane runs another.                     *)
THEOREM LaneIsFree == Spec => []LaneNeverBusy
<1>1. Inv => LaneNeverBusy
  BY DEF Inv, LaneKnown, LaneNeverBusy
<1> QED  BY <1>1, TurnsInvariant, PTL

(* The removal of the in-flight record decides who records an outcome: the *)
(* worker and the drain that took its turn never both do.                  *)
THEOREM RecordedOnce == Spec => []AnsweredOnce
<1>1. Inv => AnsweredOnce
  BY DEF Inv
<1> QED  BY <1>1, TurnsInvariant, PTL

(* No interleaving of stops, resets and drains with the workers lets an    *)
(* admitted message fall without an answer or a word about it.             *)
THEOREM NoSilence == Spec => []NeverSilent
<1>1. Inv => NeverSilent
  <2> SUFFICES ASSUME Inv, NEW m \in Message, genOf[m] = bound, worker[m] # "ignored"
               PROVE  \/ Working(m) \/ Answered(m) \/ said[m] # "nothing"
                      \/ m \in Range(queue[bound]) \/ \E c \in Control : m \in turns[c]
    BY DEF NeverSilent
  <2>1. Shapes /\ Admitted /\ QueuedOnce /\ Accounted
    BY Shaped DEF Inv
  <2>2. bound \in Generation /\ bound \in Nat /\ queue[bound] \in Seq(Message)
    BY <2>1, Constants DEF Shapes
  <2>3. worker[m] # "none" /\ worker[m] # "fell"
    BY <2>1, <2>2, Constants DEF Admitted
  <2>4. CASE worker[m] = "queued"
    <3>1. Holds(queue[bound], m)
      BY <2>1, <2>2, <2>4 DEF QueuedOnce
    <3> QED  BY <2>2, <3>1, HoldsRange
  <2>5. CASE worker[m] # "queued" /\ Owed(m)
    BY <2>3, <2>5 DEF Owed, Working
  <2>6. CASE ~Owed(m)
    BY <2>1, <2>6 DEF Accounted
  <2> QED  BY <2>4, <2>5, <2>6
<1> QED  BY <1>1, TurnsInvariant, PTL

-----------------------------------------------------------------------------
(* StreamSubscription. *)

AnyFrame == [at : Nat, number : Nat]

Types ==
    /\ mem \in Seq(Nat) /\ disk \in Seq(Nat) /\ made \in Nat
    /\ link \in [Client -> {"closed", "opening", "asked", "live", "lost"}]
    /\ answer \in [Client -> Seq(AnyFrame)] /\ sink \in [Client -> Seq(AnyFrame)]
    /\ history \in [Client -> Seq(AnyFrame)]
    /\ seen \in [Client -> Nat] /\ joined \in [Client -> Nat] /\ given \in [Client -> Nat]

(* Nobody is connected to a service that is down, which may lose events.   *)
Down == ~serving => Connected = {}

-----------------------------------------------------------------------------
(* Windows of a journal. *)

(* A window as long as the journal is all that follows the sequence.       *)
LEMMA WholeWindow ==
  ASSUME NEW j \in Seq(Nat), NEW n \in Nat, n <= Len(j)
  PROVE  Window(j, n, Len(j)) =
            [i \in 1 .. Len(j) - n |-> [at |-> n + i, number |-> j[n + i]]]
<1>1. CASE n < Len(j)
  <2>1. ~(Len(j) - n < Len(j)) => Len(j) = Len(j) - n
    BY <1>1
  <2> QED  BY <1>1, <2>1 DEF Window
<1>2. CASE n = Len(j)
  BY <1>2 DEF Window
<1> QED  BY <1>1, <1>2

(* Any window is a sequence of frames that follow the sequence one by one. *)
LEMMA AnyWindow ==
  ASSUME NEW j \in Seq(Nat), NEW n \in Nat, NEW m \in Nat
  PROVE  /\ Window(j, n, m) \in Seq(AnyFrame)
         /\ \A i \in 1 .. Len(Window(j, n, m)) : Window(j, n, m)[i].at = n + i
<1> DEFINE rest == IF n < Len(j) THEN Len(j) - n ELSE 0
           k == IF rest < m THEN rest ELSE m
           w == Window(j, n, m)
<1>1. rest \in Nat /\ k \in Nat /\ k <= rest
  OBVIOUS
<1>2. w = [i \in 1 .. k |-> [at |-> n + i, number |-> j[n + i]]]
  BY DEF Window
<1>3. \A i \in 1 .. k : n + i \in 1 .. Len(j)
  BY <1>1
<1>4. \A i \in 1 .. k : [at |-> n + i, number |-> j[n + i]] \in AnyFrame
  BY <1>3, ElementOfSeq DEF AnyFrame
<1> HIDE DEF rest, k, w
<1>5. w \in [1 .. k -> AnyFrame]
  BY <1>2, <1>4
<1>6. w \in Seq(AnyFrame) /\ Len(w) = k
  BY <1>1, <1>5
<1>7. \A i \in 1 .. k : w[i].at = n + i
  BY <1>2
<1>8. /\ w \in Seq(AnyFrame)
      /\ \A i \in 1 .. Len(w) : w[i].at = n + i
  BY <1>6, <1>7
<1> QED  BY <1>8 DEF w

(* The rest of a journal, frame by frame.                                  *)
LEMMA Rest ==
  ASSUME NEW j \in Seq(Nat), NEW n \in Nat, n <= Len(j)
  PROVE  /\ Window(j, n, Len(j)) \in Seq(AnyFrame)
         /\ Len(Window(j, n, Len(j))) = Len(j) - n
         /\ \A i \in 1 .. Len(j) - n :
              Window(j, n, Len(j))[i] = [at |-> n + i, number |-> j[n + i]]
<1> DEFINE w == Window(j, n, Len(j))
<1>1. w = [i \in 1 .. Len(j) - n |-> [at |-> n + i, number |-> j[n + i]]]
  BY WholeWindow
<1>2. Len(j) \in Nat /\ w \in Seq(AnyFrame)
  BY AnyWindow
<1> HIDE DEF w
<1>3. DOMAIN w = 1 .. Len(j) - n /\ DOMAIN w = 1 .. Len(w) /\ Len(w) \in Nat
  BY <1>1, <1>2
<1>4. Len(w) = Len(j) - n
  BY <1>2, <1>3
<1> QED  BY <1>1, <1>2, <1>4 DEF w

(* What is appended is what the rest of the journal grows by.              *)
LEMMA WindowGrows ==
  ASSUME NEW j \in Seq(Nat), NEW e \in Nat, NEW n \in Nat, n <= Len(j)
  PROVE  Window(Append(j, e), n, Len(Append(j, e))) =
            Append(Window(j, n, Len(j)), [at |-> Len(j) + 1, number |-> e])
<1> DEFINE g == Append(j, e)
           f == [at |-> Len(j) + 1, number |-> e]
           old == Window(j, n, Len(j))
           new == Window(g, n, Len(g))
<1>1. /\ g \in Seq(Nat) /\ Len(j) \in Nat /\ Len(g) = Len(j) + 1
      /\ \A i \in 1 .. Len(j) : g[i] = j[i]
      /\ g[Len(j) + 1] = e
  BY AppendProperties
<1>2. /\ old \in Seq(AnyFrame) /\ Len(old) = Len(j) - n
      /\ \A i \in 1 .. Len(j) - n : old[i] = [at |-> n + i, number |-> j[n + i]]
  BY Rest
<1>3. n \in Nat /\ n <= Len(g)
  BY <1>1
<1> HIDE DEF g
<1>4. /\ new \in Seq(AnyFrame) /\ Len(new) = Len(g) - n
      /\ \A i \in 1 .. Len(g) - n : new[i] = [at |-> n + i, number |-> g[n + i]]
  BY <1>1, <1>3, Rest
<1>5. f \in AnyFrame
  BY <1>1 DEF AnyFrame
<1> HIDE DEF f, old, new
<1>6. /\ Append(old, f) \in Seq(AnyFrame) /\ Len(Append(old, f)) = Len(old) + 1
      /\ \A i \in 1 .. Len(old) : Append(old, f)[i] = old[i]
      /\ Append(old, f)[Len(old) + 1] = f
  BY <1>2, <1>5, AppendProperties
<1>7. ASSUME NEW i \in 1 .. Len(new) PROVE new[i] = Append(old, f)[i]
  <2>1. i \in Nat /\ i \in 1 .. Len(g) - n /\ new[i] = [at |-> n + i, number |-> g[n + i]]
    BY <1>1, <1>4
  <2>2. CASE i = Len(old) + 1
    <3>1. n + i = Len(j) + 1
      BY <1>1, <1>2, <2>1, <2>2
    <3>2. new[i] = [at |-> Len(j) + 1, number |-> g[Len(j) + 1]]
      BY <2>1, <3>1
    <3>3. new[i] = f
      BY <1>1, <3>2 DEF f
    <3> QED  BY <1>6, <2>2, <3>3
  <2>3. CASE i # Len(old) + 1
    <3> DEFINE k == Len(j)
    <3>1. k \in Nat /\ Len(old) = k - n /\ i \in 1 .. k + 1 - n /\ i # k - n + 1
      BY <1>1, <1>2, <2>1, <2>3
    <3> HIDE DEF k
    <3>2. i \in 1 .. k - n /\ n + i \in 1 .. k
      BY <3>1
    <3>3. i \in 1 .. Len(old) /\ i \in 1 .. Len(j) - n /\ n + i \in 1 .. Len(j)
      BY <3>1, <3>2 DEF k
    <3> QED  BY <1>1, <1>2, <1>6, <2>1, <3>3
  <2> QED  BY <2>2, <2>3
<1>8. Len(new) = Len(Append(old, f))
  BY <1>1, <1>2, <1>4, <1>6
<1>9. new = Append(old, f)
  BY <1>4, <1>6, <1>7, <1>8, SeqEqual
<1> QED  BY <1>9 DEF f, g, old, new

(* Without its first frame, the rest of the journal starts one later.      *)
LEMMA WindowShrinks ==
  ASSUME NEW j \in Seq(Nat), NEW n \in Nat, n <= Len(j), Window(j, n, Len(j)) # <<>>
  PROVE  n < Len(j) /\ Tail(Window(j, n, Len(j))) = Window(j, n + 1, Len(j))
<1> DEFINE old == Window(j, n, Len(j))
           new == Window(j, n + 1, Len(j))
<1>1. /\ old \in Seq(AnyFrame) /\ Len(old) = Len(j) - n
      /\ \A i \in 1 .. Len(j) - n : old[i] = [at |-> n + i, number |-> j[n + i]]
  BY Rest
<1>2. old # <<>>
  OBVIOUS
<1> HIDE DEF old
<1>3. Len(j) \in Nat /\ n < Len(j)
  BY <1>1, <1>2, EmptySeq
<1>4. n + 1 \in Nat /\ n + 1 <= Len(j)
  BY <1>3
<1>5. /\ new \in Seq(AnyFrame) /\ Len(new) = Len(j) - (n + 1)
      /\ \A i \in 1 .. Len(j) - (n + 1) :
            new[i] = [at |-> (n + 1) + i, number |-> j[(n + 1) + i]]
  BY <1>4, Rest
<1> HIDE DEF new
<1>6. /\ Tail(old) \in Seq(AnyFrame) /\ Len(Tail(old)) = Len(old) - 1
      /\ \A i \in 1 .. Len(Tail(old)) : Tail(old)[i] = old[i + 1]
  BY <1>1, <1>2, HeadTailProperties
<1>7. ASSUME NEW i \in 1 .. Len(new) PROVE new[i] = Tail(old)[i]
  <2>1. i + 1 \in 1 .. Len(j) - n /\ n + (i + 1) = (n + 1) + i
    BY <1>3, <1>5
  <2>2. i \in 1 .. Len(Tail(old))
    BY <1>1, <1>3, <1>5, <1>6
  <2> QED  BY <1>1, <1>5, <1>6, <2>1, <2>2
<1>8. Len(new) = Len(Tail(old))
  BY <1>1, <1>3, <1>5, <1>6
<1>9. new = Tail(old)
  BY <1>5, <1>6, <1>7, <1>8, SeqEqual
<1> QED  BY <1>3, <1>9 DEF old, new

-----------------------------------------------------------------------------
(* What a pane shows. *)

LEMMA ShowsAll ==
  ASSUME Types, NEW c \in Client, NEW fs \in Seq(AnyFrame),
         \A i \in 1 .. Len(fs) : fs[i].at > seen[c]
  PROVE  Shown(c, fs) = fs
<1> DEFINE new == {i \in DOMAIN fs : fs[i].at > seen[c]}
<1>1. new = 1 .. Len(fs) /\ Len(fs) \in Nat
  OBVIOUS
<1>2. CASE Len(fs) = 0
  <2>1. new = {} /\ fs = <<>>
    BY <1>1, <1>2, EmptySeq
  <2> QED  BY <2>1 DEF Shown
<1>3. CASE Len(fs) # 0
  <2>1. 1 \in new /\ \A y \in new : 1 <= y
    BY <1>1, <1>3
  <2>2. \A x \in new : (\A y \in new : x <= y) => x = 1
    BY <1>1, <2>1
  <2>3. Min(new) = 1
    <3> HIDE DEF new
    <3> QED  BY <2>1, <2>2 DEF Min
  <2>4. SubSeq(fs, 1, Len(fs)) = fs
    BY SubSeqFull
  <2> QED  BY <2>1, <2>3, <2>4 DEF Shown
<1> QED  BY <1>2, <1>3

LEMMA ShowsNone ==
  ASSUME NEW c \in Client, NEW f \in AnyFrame, ~(f.at > seen[c])
  PROVE  Shown(c, <<f>>) = <<>>
<1>1. {i \in DOMAIN <<f>> : <<f>>[i].at > seen[c]} = {}
  OBVIOUS
<1> QED  BY <1>1 DEF Shown

(* A replay answer follows what its pane has seen, frame by frame.         *)
Pending ==
    \A c \in Client : link[c] \in {"opening", "asked"} =>
        \A i \in 1 .. Len(answer[c]) : answer[c][i].at = seen[c] + i

LEMMA ShowsAnswer ==
  ASSUME Types, Pending, NEW c \in Client, link[c] \in {"opening", "asked"},
         Shows(c, answer[c])
  PROVE  /\ history' = [history EXCEPT ![c] = history[c] \o answer[c]]
         /\ seen' = [seen EXCEPT ![c] = seen[c] + Len(answer[c])]
<1> DEFINE fs == answer[c]
<1>1. /\ fs \in Seq(AnyFrame) /\ Len(fs) \in Nat /\ seen[c] \in Nat
      /\ \A i \in 1 .. Len(fs) : fs[i].at = seen[c] + i
  BY DEF Types, Pending
<1> HIDE DEF fs
<1>2. Shown(c, fs) = fs
  BY <1>1, ShowsAll
<1>3. (IF fs = <<>> THEN seen[c] ELSE Last(fs).at) = seen[c] + Len(fs)
  <2>1. CASE fs = <<>>
    BY <1>1, <2>1
  <2>2. CASE fs # <<>>
    <3>1. Len(fs) \in 1 .. Len(fs)
      BY <1>1, <2>2, EmptySeq
    <3> QED  BY <1>1, <2>2, <3>1 DEF Last
  <2> QED  BY <2>1, <2>2
<1>4. /\ history' = [history EXCEPT ![c] = @ \o fs]
      /\ seen' = [seen EXCEPT ![c] = IF fs = <<>> THEN @ ELSE Last(fs).at]
  BY <1>2 DEF Shows, fs
<1> QED  BY <1>3, <1>4 DEF fs

LEMMA ShowsFrame ==
  ASSUME Types, NEW c \in Client, NEW f \in AnyFrame, Shows(c, <<f>>)
  PROVE  \/ /\ f.at > seen[c]
            /\ history' = [history EXCEPT ![c] = history[c] \o <<f>>]
            /\ seen' = [seen EXCEPT ![c] = f.at]
         \/ history' = history /\ seen' = seen
<1>1. history \in [Client -> Seq(AnyFrame)] /\ seen \in [Client -> Nat] /\ <<f>> \in Seq(AnyFrame)
  BY DEF Types
<1>2. CASE f.at > seen[c]
  <2>0. \A i \in 1 .. Len(<<f>>) : <<f>>[i].at > seen[c]
    BY <1>2
  <2>1. Shown(c, <<f>>) = <<f>>
    BY <1>1, <2>0, ShowsAll
  <2>2. Last(<<f>>).at = f.at /\ <<f>> # <<>>
    BY DEF Last
  <2> QED  BY <1>2, <2>1, <2>2 DEF Shows
<1>3. CASE ~(f.at > seen[c])
  <2>1. Shown(c, <<f>>) = <<>>
    BY <1>3, ShowsNone
  <2>2. history[c] \o <<>> = history[c]
    BY <1>1, ConcatEmptySeq
  <2> QED  BY <1>1, <2>1, <2>2 DEF Shows
<1> QED  BY <1>2, <1>3

-----------------------------------------------------------------------------
(* Types, and what is pending. *)

Typed == Types /\ Pending

LEMMA TypedInit == StreamInit => Typed
<1> SUFFICES ASSUME StreamInit PROVE Typed
  OBVIOUS
<1>1. <<>> \in Seq(Nat) /\ <<>> \in Seq(AnyFrame)
  OBVIOUS
<1> QED  BY <1>1 DEF StreamInit, Typed, Types, Pending

(* What a subscription leaves.                                             *)
LEMMA TypedRegisters ==
  ASSUME Types, NEW c \in Client, NEW after \in Nat, NEW place \in {"opening", "asked"},
         Registers(c, after, place)
  PROVE  /\ answer' \in [Client -> Seq(AnyFrame)]
         /\ \A i \in 1 .. Len(answer'[c]) : answer'[c][i].at = after + i
         /\ \A d \in Client \ {c} : answer'[d] = answer[d] /\ link'[d] = link[d]
         /\ link' \in [Client -> {"closed", "opening", "asked", "live", "lost"}]
         /\ sink' \in [Client -> Seq(AnyFrame)]
         /\ joined' \in [Client -> Nat] /\ given' \in [Client -> Nat]
         /\ mem' \in Seq(Nat) /\ disk' \in Seq(Nat) /\ made' \in Nat
<1> DEFINE w == Window(mem, after, Limit)
<1>1. w \in Seq(AnyFrame) /\ \A i \in 1 .. Len(w) : w[i].at = after + i
  BY AnyWindow, StreamBoundsAssumption DEF Types
<1>2. Len(mem) \in Nat /\ <<>> \in Seq(AnyFrame)
  BY DEF Types
<1> HIDE DEF w
<1>3. answer' = [answer EXCEPT ![c] = w]
  BY DEF Registers, w
<1> QED  BY <1>1, <1>2, <1>3 DEF Registers, Types

LEMMA TypedStep == Typed /\ [StreamNext]_streamVars => Typed'
<1> SUFFICES ASSUME Types, Pending, [StreamNext]_streamVars PROVE Typed'
  BY DEF Typed
<1>0. <<>> \in Seq(Nat) /\ <<>> \in Seq(AnyFrame)
  OBVIOUS
<1>1. CASE Post
  <2> DEFINE f == [at |-> Len(mem) + 1, number |-> made + 1]
  <2>1. mem' \in Seq(Nat) /\ made' \in Nat /\ f \in AnyFrame
    BY <1>1, AppendProperties DEF Post, Types, AnyFrame
  <2>2. \A c \in Client : Append(sink[c], f) \in Seq(AnyFrame)
    BY <2>1, AppendProperties DEF Types
  <2>3. sink' \in [Client -> Seq(AnyFrame)]
    BY <1>1, <2>2 DEF Post, Types
  <2> QED  BY <1>1, <2>1, <2>3 DEF Post, Typed, Types, Pending
<1>2. CASE Write
  BY <1>2 DEF Write, client, Typed, Types, Pending
<1>3. ASSUME NEW c \in Client, Open(c) PROVE Typed'
  <2>1. PICK n \in 0 .. made :
           LET after == IF n > Limit THEN n - Limit ELSE 0
           IN  Registers(c, after, "opening") /\ seen' = [seen EXCEPT ![c] = after]
    BY <1>3 DEF Open
  <2> DEFINE after == IF n > Limit THEN n - Limit ELSE 0
  <2>2. after \in Nat
    BY StreamBoundsAssumption DEF Types
  <2>3. Registers(c, after, "opening") /\ seen' = [seen EXCEPT ![c] = after]
    BY <2>1
  <2> HIDE DEF after
  <2>4. /\ answer' \in [Client -> Seq(AnyFrame)]
        /\ \A i \in 1 .. Len(answer'[c]) : answer'[c][i].at = after + i
        /\ \A d \in Client \ {c} : answer'[d] = answer[d] /\ link'[d] = link[d]
        /\ link' \in [Client -> {"closed", "opening", "asked", "live", "lost"}]
        /\ sink' \in [Client -> Seq(AnyFrame)]
        /\ joined' \in [Client -> Nat] /\ given' \in [Client -> Nat]
        /\ mem' \in Seq(Nat) /\ disk' \in Seq(Nat) /\ made' \in Nat
    BY <2>2, <2>3, TypedRegisters
  <2>5. Types'
    BY <1>3, <2>2, <2>3, <2>4 DEF Open, Types
  <2>6. Pending'
    BY <2>2, <2>3, <2>4 DEF Types, Pending
  <2> QED  BY <2>5, <2>6 DEF Typed
<1>4. ASSUME NEW c \in Client, Subscribe(c) PROVE Typed'
  <2>1. seen[c] \in Nat /\ Registers(c, seen[c], "asked")
    BY <1>4 DEF Subscribe, Types
  <2>2. /\ answer' \in [Client -> Seq(AnyFrame)]
        /\ \A i \in 1 .. Len(answer'[c]) : answer'[c][i].at = seen[c] + i
        /\ \A d \in Client \ {c} : answer'[d] = answer[d] /\ link'[d] = link[d]
        /\ link' \in [Client -> {"closed", "opening", "asked", "live", "lost"}]
        /\ sink' \in [Client -> Seq(AnyFrame)]
        /\ joined' \in [Client -> Nat] /\ given' \in [Client -> Nat]
        /\ mem' \in Seq(Nat) /\ disk' \in Seq(Nat) /\ made' \in Nat
    BY <2>1, TypedRegisters
  <2>3. Types'
    BY <1>4, <2>2 DEF Subscribe, Types
  <2>4. Pending'
    BY <1>4, <2>2 DEF Subscribe, Types, Pending
  <2> QED  BY <2>3, <2>4 DEF Typed
<1>5. ASSUME NEW c \in Client, ReplayWritten(c) PROVE Typed'
  <2>1. link[c] \in {"opening", "asked"} /\ Shows(c, answer[c])
    BY <1>5 DEF ReplayWritten
  <2>2. /\ history' = [history EXCEPT ![c] = history[c] \o answer[c]]
        /\ seen' = [seen EXCEPT ![c] = seen[c] + Len(answer[c])]
    BY <2>1, ShowsAnswer
  <2>3. history[c] \o answer[c] \in Seq(AnyFrame) /\ seen[c] + Len(answer[c]) \in Nat
    BY ConcatProperties DEF Types
  <2> QED  BY <1>0, <1>5, <2>2, <2>3 DEF ReplayWritten, journal, Typed, Types, Pending
<1>6. ASSUME NEW c \in Client, Follow(c) PROVE Typed'
  <2> DEFINE f == Head(sink[c])
  <2>0. sink[c] \in Seq(AnyFrame) /\ sink[c] # <<>>
    BY <1>6 DEF Follow, Types
  <2>1. f \in AnyFrame /\ Tail(sink[c]) \in Seq(AnyFrame)
    BY <2>0, HeadTailProperties
  <2>2. f \in AnyFrame /\ f.at \in Nat /\ Tail(sink[c]) \in Seq(AnyFrame) /\ Shows(c, <<f>>)
    BY <1>6, <2>1 DEF Follow, AnyFrame
  <2>3. history[c] \o <<f>> \in Seq(AnyFrame)
    BY <2>2, ConcatProperties DEF Types
  <2> HIDE DEF f
  <2>4. history' \in [Client -> Seq(AnyFrame)] /\ seen' \in [Client -> Nat]
        /\ \A d \in Client \ {c} : seen'[d] = seen[d]
    BY <2>2, <2>3, ShowsFrame DEF Types
  <2>5. Types'
    <3>1. sink' \in [Client -> Seq(AnyFrame)]
      BY <1>6, <2>1 DEF Follow, Types
    <3>2. given' \in [Client -> Nat] /\ UNCHANGED <<journal, link, answer, joined>>
      BY <1>6 DEF Follow, Types
    <3> QED  BY <2>4, <3>1, <3>2 DEF journal, Types
  <2>6. Pending'
    <3> SUFFICES ASSUME NEW d \in Client, link'[d] \in {"opening", "asked"}
                 PROVE  \A i \in 1 .. Len(answer'[d]) : answer'[d][i].at = seen'[d] + i
      BY DEF Pending
    <3>1. link[c] = "live" /\ link' = link /\ answer' = answer
      BY <1>6 DEF Follow
    <3>2. d # c /\ seen'[d] = seen[d]
      BY <2>4, <3>1
    <3> QED  BY <3>1, <3>2 DEF Pending
  <2> QED  BY <2>5, <2>6 DEF Typed
<1>7. ASSUME NEW C \in SUBSET Client, Drops(C), UNCHANGED made,
             mem' \in Seq(Nat), disk' \in Seq(Nat) PROVE Typed'
  BY <1>0, <1>7 DEF Drops, Typed, Types, Pending
<1>8. ASSUME NEW c \in Client, Back(c) PROVE Typed'
  BY <1>0, <1>8 DEF Back, journal, Typed, Types, Pending
<1>9. CASE Restart
  BY <1>9 DEF Restart, client, Typed, Types, Pending
<1>10. CASE UNCHANGED streamVars
  BY <1>10 DEF streamVars, journal, client, Typed, Types, Pending
<1>11. CASE Shutdown \/ Crash
  BY <1>7, <1>11 DEF Shutdown, Crash, Connected, Types
<1>12. ASSUME NEW c \in Client, Lose(c) PROVE Typed'
  BY <1>7, <1>12 DEF Lose, journal, Types
<1> QED
  BY <1>1, <1>2, <1>3, <1>4, <1>5, <1>6, <1>8, <1>9, <1>10, <1>11, <1>12 DEF StreamNext

-----------------------------------------------------------------------------
(* What a pane has shown. *)

(* A pane that is closed or opening has shown nothing; what another has    *)
(* shown is not past its cursor.                                           *)
Panes ==
    \A c \in Client :
        /\ link[c] \in {"closed", "opening"} => history[c] = <<>>
        /\ \A i \in 1 .. Len(history[c]) : history[c][i].at <= seen[c]

Ordered(h) == \A i \in 1 .. Len(h) - 1 : h[i].at < h[i + 1].at

(* What follows a cursor may be shown after what does not.                 *)
LEMMA Extended ==
  ASSUME NEW h \in Seq(AnyFrame), NEW fs \in Seq(AnyFrame), NEW s \in Nat,
         Ordered(h), \A i \in 1 .. Len(h) : h[i].at <= s,
         Ordered(fs), \A i \in 1 .. Len(fs) : fs[i].at > s
  PROVE  Ordered(h \o fs)
<1> DEFINE g == h \o fs
<1>1. Len(h) \in Nat /\ Len(fs) \in Nat
  OBVIOUS
<1>2. /\ Len(g) = Len(h) + Len(fs)
      /\ \A i \in 1 .. Len(h) + Len(fs) :
            g[i] = IF i <= Len(h) THEN h[i] ELSE fs[i - Len(h)]
  BY ConcatProperties
<1> HIDE DEF g
<1>3. ASSUME NEW i \in 1 .. Len(h) PROVE h[i].at \in Nat
  <2>1. h[i] \in AnyFrame
    BY ElementOfSeq
  <2> QED  BY <2>1 DEF AnyFrame
<1>4. ASSUME NEW i \in 1 .. Len(fs) PROVE fs[i].at \in Nat
  <2>1. fs[i] \in AnyFrame
    BY ElementOfSeq
  <2> QED  BY <2>1 DEF AnyFrame
<1>5. ASSUME NEW i \in 1 .. Len(g) - 1 PROVE g[i].at < g[i + 1].at
  <2>0. i \in Nat /\ i \in 1 .. Len(h) + Len(fs) /\ i + 1 \in 1 .. Len(h) + Len(fs)
    BY <1>1, <1>2
  <2>1. CASE i + 1 <= Len(h)
    <3>1. g[i] = h[i] /\ g[i + 1] = h[i + 1] /\ i \in 1 .. Len(h) - 1
      BY <1>1, <1>2, <2>0, <2>1
    <3> QED  BY <3>1 DEF Ordered
  <2>2. CASE i = Len(h)
    <3>1. /\ g[i] = h[i] /\ i \in 1 .. Len(h)
          /\ g[i + 1] = fs[1] /\ 1 \in 1 .. Len(fs)
      BY <1>1, <1>2, <2>0, <2>2
    <3>2. h[i].at \in Nat /\ h[i].at <= s /\ fs[1].at \in Nat /\ fs[1].at > s
      BY <1>3, <1>4, <3>1
    <3> QED  BY <3>1, <3>2
  <2>3. CASE i > Len(h)
    <3> DEFINE k == i - Len(h)
    <3>1. k \in Nat /\ k \in 1 .. Len(fs) - 1 /\ i + 1 - Len(h) = k + 1
      BY <1>1, <2>0, <2>3
    <3>2. g[i] = fs[k] /\ g[i + 1] = fs[k + 1]
      BY <1>1, <1>2, <2>0, <2>3, <3>1
    <3> HIDE DEF k
    <3> QED  BY <3>1, <3>2 DEF Ordered
  <2> QED  BY <1>1, <2>0, <2>1, <2>2, <2>3
<1> QED  BY <1>5 DEF Ordered, g

InOrder == Panes /\ OnceInOrder

LEMMA OrderInit == StreamInit => InOrder
<1> SUFFICES ASSUME StreamInit PROVE InOrder
  OBVIOUS
<1>1. \A c \in Client : history[c] = <<>> /\ Len(history[c]) = 0
  BY DEF StreamInit
<1> QED  BY <1>1 DEF InOrder, Panes, OnceInOrder

LEMMA OrderStep == Typed /\ InOrder /\ [StreamNext]_streamVars => InOrder'
<1> SUFFICES ASSUME Types, Pending, Panes, OnceInOrder, [StreamNext]_streamVars,
                    NEW c \in Client
             PROVE  /\ link'[c] \in {"closed", "opening"} => history'[c] = <<>>
                    /\ \A i \in 1 .. Len(history'[c]) : history'[c][i].at <= seen'[c]
                    /\ Ordered(history'[c])
  BY DEF Typed, InOrder, Panes, OnceInOrder, Ordered
<1> DEFINE Goal == /\ link'[c] \in {"closed", "opening"} => history'[c] = <<>>
                   /\ \A i \in 1 .. Len(history'[c]) : history'[c][i].at <= seen'[c]
                   /\ Ordered(history'[c])
<1>0. /\ history[c] \in Seq(AnyFrame) /\ seen[c] \in Nat
      /\ link[c] \in {"closed", "opening"} => history[c] = <<>>
      /\ \A i \in 1 .. Len(history[c]) : history[c][i].at <= seen[c]
      /\ Ordered(history[c])
  BY DEF Types, Panes, OnceInOrder, Ordered
<1>1. ASSUME history'[c] = <<>> PROVE Goal
  BY <1>1 DEF Ordered
<1>2. ASSUME history'[c] = history[c], seen'[c] = seen[c],
             link'[c] \in {"closed", "opening"} => link[c] \in {"closed", "opening"}
      PROVE  Goal
  BY <1>0, <1>2
<1>3. ASSUME NEW fs \in Seq(AnyFrame), history'[c] = history[c] \o fs, Ordered(fs),
             \A i \in 1 .. Len(fs) : fs[i].at > seen[c] /\ fs[i].at <= seen'[c],
             seen'[c] \in Nat, seen[c] <= seen'[c], link'[c] = "live"
      PROVE  Goal
  <2>1. Ordered(history'[c])
    BY <1>0, <1>3, Extended
  <2>2. /\ Len(history'[c]) = Len(history[c]) + Len(fs)
        /\ \A i \in 1 .. Len(history[c]) + Len(fs) : history'[c][i] =
              IF i <= Len(history[c]) THEN history[c][i] ELSE fs[i - Len(history[c])]
    BY <1>0, <1>3, ConcatProperties
  <2>3. ASSUME NEW i \in 1 .. Len(history'[c]) PROVE history'[c][i].at <= seen'[c]
    <3>0. Len(history[c]) \in Nat /\ Len(fs) \in Nat /\ i \in Nat
      BY <1>0
    <3>1. CASE i <= Len(history[c])
      <4>1. i \in 1 .. Len(history[c]) /\ history'[c][i] = history[c][i]
        BY <2>2, <3>0, <3>1
      <4>2. history[c][i] \in AnyFrame
        BY <1>0, <4>1, ElementOfSeq
      <4>3. history[c][i].at \in Nat /\ history[c][i].at <= seen[c]
        BY <1>0, <4>1, <4>2 DEF AnyFrame
      <4> QED  BY <1>0, <1>3, <4>1, <4>3
    <3>2. CASE i > Len(history[c])
      <4>1. i - Len(history[c]) \in 1 .. Len(fs)
            /\ history'[c][i] = fs[i - Len(history[c])]
        BY <2>2, <3>0, <3>2
      <4> QED  BY <1>3, <4>1
    <3> QED  BY <3>0, <3>1, <3>2
  <2> QED  BY <1>3, <2>1, <2>3
<1> HIDE DEF Goal
<1>4. ASSUME Post \/ Write \/ Restart \/ UNCHANGED streamVars PROVE Goal
  BY <1>2, <1>4 DEF Post, Write, Restart, streamVars, client
<1>5. ASSUME NEW d \in Client, Open(d) PROVE Goal
  <2>1. CASE d = c
    BY <1>0, <1>1, <1>5, <2>1 DEF Open
  <2>2. CASE d # c
    BY <1>2, <1>5, <2>2 DEF Open, Registers, Types
  <2> QED  BY <2>1, <2>2
<1>6. ASSUME NEW d \in Client, Subscribe(d) PROVE Goal
  BY <1>2, <1>6 DEF Subscribe, Registers, Types
<1>7. ASSUME NEW d \in Client, ReplayWritten(d) PROVE Goal
  <2>1. /\ link[d] \in {"opening", "asked"} /\ link' = [link EXCEPT ![d] = "live"]
        /\ history' = [history EXCEPT ![d] = history[d] \o answer[d]]
        /\ seen' = [seen EXCEPT ![d] = seen[d] + Len(answer[d])]
    BY <1>7, ShowsAnswer DEF ReplayWritten
  <2>2. CASE d # c
    BY <1>2, <2>1, <2>2 DEF Types
  <2>3. CASE d = c
    <3> DEFINE fs == answer[c]
    <3>1. /\ fs \in Seq(AnyFrame) /\ Len(fs) \in Nat
          /\ \A i \in 1 .. Len(fs) : fs[i].at = seen[c] + i
      BY <2>1, <2>3 DEF Types, Pending
    <3>2. /\ link'[c] = "live" /\ history'[c] = history[c] \o fs
          /\ seen'[c] = seen[c] + Len(fs)
      BY <2>1, <2>3 DEF Types
    <3> HIDE DEF fs
    <3>3. Ordered(fs)
      <4> SUFFICES ASSUME NEW i \in 1 .. Len(fs) - 1 PROVE fs[i].at < fs[i + 1].at
        BY DEF Ordered
      <4>1. i \in 1 .. Len(fs) /\ i + 1 \in 1 .. Len(fs)
        BY <3>1
      <4>2. fs[i].at = seen[c] + i /\ fs[i + 1].at = seen[c] + (i + 1)
        BY <3>1, <4>1
      <4> QED  BY <1>0, <4>2
    <3>4. \A i \in 1 .. Len(fs) : fs[i].at > seen[c] /\ fs[i].at <= seen'[c]
      BY <1>0, <3>1, <3>2
    <3>5. seen'[c] \in Nat /\ seen[c] <= seen'[c]
      BY <1>0, <3>1, <3>2
    <3> QED  BY <1>3, <3>1, <3>2, <3>3, <3>4, <3>5
  <2> QED  BY <2>2, <2>3
<1>8. ASSUME NEW d \in Client, Follow(d) PROVE Goal
  <2> DEFINE f == Head(sink[d])
  <2>1. sink[d] \in Seq(AnyFrame) /\ sink[d] # <<>>
    BY <1>8 DEF Follow, Types
  <2>2. f \in AnyFrame /\ Shows(d, <<f>>) /\ link' = link /\ link[d] = "live"
    BY <1>8, <2>1, HeadTailProperties DEF Follow
  <2>3. f.at \in Nat /\ <<f>> \in Seq(AnyFrame)
    BY <2>2 DEF AnyFrame
  <2> HIDE DEF f
  <2>4. CASE history' = history /\ seen' = seen
    BY <1>2, <2>2, <2>4
  <2>5. CASE /\ f.at > seen[d]
             /\ history' = [history EXCEPT ![d] = history[d] \o <<f>>]
             /\ seen' = [seen EXCEPT ![d] = f.at]
    <3>1. CASE d # c
      BY <1>2, <2>2, <2>5, <3>1 DEF Types
    <3>2. CASE d = c
      <4>1. history'[c] = history[c] \o <<f>> /\ seen'[c] = f.at /\ link'[c] = "live"
        BY <2>2, <2>5, <3>2 DEF Types
      <4>2. \A i \in 1 .. Len(<<f>>) : <<f>>[i].at > seen[c] /\ <<f>>[i].at <= seen'[c]
        BY <2>3, <2>5, <3>2, <4>1
      <4>3. Ordered(<<f>>)
        BY DEF Ordered
      <4>4. seen[c] <= seen'[c]
        BY <1>0, <2>3, <2>5, <3>2, <4>1
      <4> QED  BY <1>3, <2>3, <4>1, <4>2, <4>3, <4>4
    <3> QED  BY <3>1, <3>2
  <2> QED  BY <2>2, <2>4, <2>5, ShowsFrame
<1>9. ASSUME NEW d \in Client, Back(d) PROVE Goal
  <2>1. CASE d = c
    BY <1>1, <1>9, <2>1 DEF Back, Types
  <2>2. CASE d # c
    BY <1>2, <1>9, <2>2 DEF Back, Types
  <2> QED  BY <2>1, <2>2
<1>10. ASSUME NEW C \in SUBSET Client, Drops(C), \A d \in C : Listens(d) PROVE Goal
  BY <1>2, <1>10 DEF Drops, Listens
<1>11. ASSUME Shutdown \/ Crash PROVE Goal
  BY <1>10, <1>11 DEF Shutdown, Crash, Connected
<1>12. ASSUME NEW d \in Client, Lose(d) PROVE Goal
  BY <1>10, <1>12 DEF Lose
<1>13. Goal
  BY <1>4, <1>5, <1>6, <1>7, <1>8, <1>9, <1>11, <1>12 DEF StreamNext
<1> QED  BY <1>13 DEF Goal

(* A sequence is shown once and in order, whatever is lost, stopped or     *)
(* killed: append_event passes over what is not past the cursor, and a     *)
(* subscription asks for what is.                                          *)
THEOREM AlwaysOnceInOrder == StreamSpec => []OnceInOrder
<1>1. Typed /\ InOrder /\ [StreamNext]_streamVars => Typed' /\ InOrder'
  BY TypedStep, OrderStep
<1>2. InOrder => OnceInOrder
  BY DEF InOrder
<1> QED  BY <1>1, <1>2, TypedInit, OrderInit, PTL DEF StreamSpec

-----------------------------------------------------------------------------
(* The live feed. *)

(* A sink, where it stands and what it holds.                              *)
Feeds(c) ==
    /\ joined[c] + given[c] <= Len(mem)
    /\ sink[c] = Window(mem, joined[c] + given[c], Len(mem))

Feed == Down /\ \A c \in Connected : Feeds(c)

LEMMA FeedInit == StreamInit => Feed
  BY DEF StreamInit, Feed, Down, Connected, Listens

(* A fresh sink is empty, and nothing follows the journal's end.           *)
LEMMA FeedRegisters ==
  ASSUME Types, mem' = mem, NEW c \in Client, NEW after \in Nat,
         NEW place \in {"opening", "asked"}, Registers(c, after, place)
  PROVE  Feeds(c)'
<1> DEFINE w == Window(mem, Len(mem), Len(mem))
<1>1. Len(mem) \in Nat /\ mem \in Seq(Nat)
  BY DEF Types
<1>2. w \in Seq(AnyFrame) /\ Len(w) = Len(mem) - Len(mem)
  BY <1>1, Rest
<1> HIDE DEF w
<1>3. w = <<>>
  BY <1>1, <1>2, EmptySeq
<1>4. sink'[c] = <<>> /\ joined'[c] = Len(mem) /\ given'[c] = 0
  BY DEF Registers, Types
<1> QED  BY <1>1, <1>3, <1>4 DEF Feeds, w

LEMMA FeedStep == Typed /\ Feed /\ [StreamNext]_streamVars => Feed'
<1> SUFFICES ASSUME Types, Down, \A c \in Connected : Feeds(c), [StreamNext]_streamVars
             PROVE  Feed'
  BY DEF Typed, Feed
(* Most steps leave the journal and the other sinks as they are.           *)
<1>1. ASSUME NEW c \in Client, mem' = mem, sink'[c] = sink[c], joined'[c] = joined[c],
             given'[c] = given[c], Listens(c)
      PROVE  Feeds(c)'
  BY <1>1 DEF Feeds, Connected
<1>2. CASE Post
  <2>1. ASSUME NEW c \in Client, Listens(c)' PROVE Feeds(c)'
    <3> DEFINE n == joined[c] + given[c]
               f == [at |-> Len(mem) + 1, number |-> made + 1]
    <3>1. Listens(c) /\ Feeds(c)
      BY <1>2, <2>1 DEF Post, Listens, Connected
    <3>2. mem \in Seq(Nat) /\ made + 1 \in Nat /\ n \in Nat /\ n <= Len(mem)
      BY <3>1 DEF Types, Feeds
    <3>3. /\ mem' = Append(mem, made + 1) /\ joined' = joined /\ given' = given
          /\ sink'[c] = Append(sink[c], f)
      BY <1>2, <3>1 DEF Post, Receives
    <3>4. Len(mem) \in Nat /\ Len(mem') = Len(mem) + 1
      BY <3>2, <3>3, AppendProperties
    <3>5. Window(mem', n, Len(mem')) = Append(Window(mem, n, Len(mem)), f)
      BY <3>2, <3>3, WindowGrows
    <3>6. joined'[c] + given'[c] = n
      BY <3>3
    <3>7. sink'[c] = Window(mem', n, Len(mem'))
      BY <3>1, <3>3, <3>5 DEF Feeds
    <3> HIDE DEF n
    <3>8. n <= Len(mem')
      BY <3>2, <3>4
    <3> QED  BY <3>6, <3>7, <3>8 DEF Feeds
  <2> QED  BY <1>2, <2>1 DEF Post, Feed, Down, Connected
<1>3. CASE Write \/ UNCHANGED streamVars
  <2>1. UNCHANGED <<mem, serving, client>>
    BY <1>3 DEF Write, streamVars, journal
  <2> QED  BY <1>1, <2>1 DEF client, Feed, Down, Connected, Listens
<1>4. CASE Restart
  BY <1>4 DEF Restart, client, Down, Feed, Connected, Listens
<1>5. ASSUME NEW c \in Client, NEW after \in Nat, NEW place \in {"opening", "asked"},
             Registers(c, after, place)
      PROVE  Feed'
  <2>1. /\ mem' = mem /\ serving' /\ Feeds(c)'
    BY <1>5, FeedRegisters DEF Registers
  <2>2. ASSUME NEW d \in Client, d # c, Listens(d)' PROVE Feeds(d)'
    BY <1>1, <1>5, <2>1, <2>2 DEF Registers, Listens, Types
  <2> QED  BY <2>1, <2>2 DEF Feed, Down, Connected
<1>6. ASSUME NEW c \in Client, Open(c) PROVE Feed'
  <2>1. PICK n \in 0 .. made :
           LET after == IF n > Limit THEN n - Limit ELSE 0
           IN  Registers(c, after, "opening")
    BY <1>6 DEF Open
  <2>2. (IF n > Limit THEN n - Limit ELSE 0) \in Nat
    BY StreamBoundsAssumption DEF Types
  <2> QED  BY <1>5, <1>6, <2>1, <2>2 DEF Open
<1>7. ASSUME NEW c \in Client, Subscribe(c) PROVE Feed'
  BY <1>5, <1>7 DEF Subscribe, Types
<1>8. ASSUME NEW c \in Client, ReplayWritten(c) PROVE Feed'
  <2>1. /\ UNCHANGED <<mem, serving, sink, joined, given>> /\ link[c] \in {"opening", "asked"}
        /\ \A d \in Client \ {c} : link'[d] = link[d]
    BY <1>8 DEF ReplayWritten, journal, Types
  <2>2. \A d \in Client : Listens(d)' => Listens(d)
    BY <2>1 DEF Listens
  <2> QED  BY <1>1, <2>1, <2>2 DEF Feed, Down, Connected
<1>9. ASSUME NEW c \in Client, Follow(c) PROVE Feed'
  <2>0. UNCHANGED <<mem, serving, link, joined>> /\ Listens(c)
        /\ \A d \in Client \ {c} : sink'[d] = sink[d] /\ given'[d] = given[d]
    BY <1>9 DEF Follow, journal, Listens, Types
  <2>1. Feeds(c)'
    <3> DEFINE n == joined[c] + given[c]
    <3>1. n \in Nat /\ mem \in Seq(Nat) /\ n <= Len(mem)
          /\ sink[c] = Window(mem, n, Len(mem)) /\ sink[c] # <<>>
      BY <1>9, <2>0 DEF Follow, Feeds, Connected, Types
    <3>2. n < Len(mem) /\ Tail(sink[c]) = Window(mem, n + 1, Len(mem))
      BY <3>1, WindowShrinks
    <3>3. sink'[c] = Tail(sink[c]) /\ joined'[c] + given'[c] = n + 1
      BY <1>9 DEF Follow, Types
    <3>4. Len(mem) \in Nat
      BY <3>1
    <3> HIDE DEF n
    <3>5. n + 1 <= Len(mem)
      BY <3>1, <3>2, <3>4
    <3> QED  BY <2>0, <3>2, <3>3, <3>5 DEF Feeds
  <2>2. ASSUME NEW d \in Client, d # c, Listens(d) PROVE Feeds(d)'
    BY <1>1, <2>0, <2>2
  <2> QED  BY <2>0, <2>1, <2>2 DEF Feed, Down, Connected, Listens
<1>10. ASSUME NEW c \in Client, Back(c) PROVE Feed'
  <2>1. UNCHANGED <<mem, serving>> /\ ~Listens(c)'
        /\ \A d \in Client \ {c} : /\ link'[d] = link[d] /\ sink'[d] = sink[d]
                                   /\ joined'[d] = joined[d] /\ given'[d] = given[d]
    BY <1>10 DEF Back, journal, Listens, Types
  <2> QED  BY <1>1, <2>1 DEF Feed, Down, Connected, Listens
(* Connections that end are no longer fed.                                 *)
<1>11. ASSUME NEW C \in SUBSET Client, Drops(C), mem' = mem,
              ~serving' => Connected \subseteq C \/ ~serving
       PROVE  Feed'
  <2>1. \A d \in Client : Listens(d)' =>
            /\ d \notin C /\ Listens(d) /\ sink'[d] = sink[d]
            /\ joined'[d] = joined[d] /\ given'[d] = given[d]
    BY <1>11 DEF Drops, Listens
  <2> QED  BY <1>1, <1>11, <2>1 DEF Feed, Down, Connected
<1>12. CASE Shutdown \/ Crash
  BY <1>11, <1>12 DEF Shutdown, Crash, Connected
<1>13. ASSUME NEW c \in Client, Lose(c) PROVE Feed'
  BY <1>11, <1>13 DEF Lose, journal
<1> QED
  BY <1>2, <1>3, <1>4, <1>6, <1>7, <1>8, <1>9, <1>10, <1>12, <1>13 DEF StreamNext

(* A subscription leaves nothing out between its replay and its live feed: *)
(* both are cut at one length of the journal, under the lock under which   *)
(* events are appended and published.                                      *)
THEOREM FeedAlwaysWhole == StreamSpec => []LiveFeedWhole
<1>1. Typed /\ Feed /\ [StreamNext]_streamVars => Typed' /\ Feed'
  BY TypedStep, FeedStep
<1>2. Feed => LiveFeedWhole
  BY DEF Feed, Feeds, LiveFeedWhole
<1> QED  BY <1>1, <1>2, TypedInit, FeedInit, PTL DEF StreamSpec
=============================================================================
