------------------------ MODULE StreamSubscription ------------------------
(***************************************************************************)
(* One stream of the gateway and those who follow it: the journal and its  *)
(* snapshot, the subscription hub and the carrier's connections            *)
(* (aikit-adapters gateway_service.rs, gateway_runtime.rs,                 *)
(* gateway_client.rs), and the terminal's conversation pane, which         *)
(* subscribes again from the last sequence it saw                          *)
(* (aikit-tui conversation_surface.rs).                                    *)
(*                                                                         *)
(* An event is appended, published to the registered sinks and then        *)
(* written with the snapshot, under the kernel's lock; a subscription      *)
(* reads its replay and registers its sink under it.  The replay answer is *)
(* written first, then a thread of the connection writes the sink's        *)
(* frames.  A frame carries its sequence, the place in the journal; the    *)
(* number tells apart what was ever appended.                              *)
(***************************************************************************)
EXTENDS Integers, Sequences, SequencesExt

CONSTANTS Client,
          MaxEvents, \* bound: events appended
          Limit,     \* HISTORY_WINDOW, the replay's limit
          MaxFaults  \* bound: failed writes, stops and crashes

Number == 1 .. MaxEvents
Frame  == [at : Number, number : Number]

ASSUME StreamBoundsAssumption == MaxEvents \in Nat /\ Limit \in Nat \ {0} /\ MaxFaults \in Nat

VARIABLES
    mem, disk, \* the stream's journal, and the one in the state file
    writing,   \* the kernel's lock is held by an append being written
    serving,
    made, faults,
    link,      \* a client's connection
    answer,    \* the replay answer it waits for
    sink,      \* the connection's queue of published frames
    seen,      \* last_seen
    history,   \* what the pane has shown, from when it was opened
    joined,    \* history: the journal's length when the sink was registered
    given      \* history: frames of that sink written since

journal    == <<mem, disk, writing, serving, made, faults>>
client     == <<link, answer, sink, seen, history, joined, given>>
streamVars == <<journal, client>>

StreamInit ==
    /\ mem = <<>> /\ disk = <<>> /\ writing = FALSE /\ serving = TRUE /\ made = 0 /\ faults = 0
    /\ link = [c \in Client |-> "closed"]
    /\ answer = [c \in Client |-> <<>>] /\ sink = [c \in Client |-> <<>>]
    /\ seen = [c \in Client |-> 0] /\ history = [c \in Client |-> <<>>]
    /\ joined = [c \in Client |-> 0] /\ given = [c \in Client |-> 0]

Fault == faults < MaxFaults /\ faults' = faults + 1

\* The frames of a journal after a sequence, n of them at most.
Window(j, after, n) ==
    LET rest == IF after < Len(j) THEN Len(j) - after ELSE 0
    IN  [i \in 1 .. (IF rest < n THEN rest ELSE n) |->
            [at |-> after + i, number |-> j[after + i]]]

-----------------------------------------------------------------------------
(* The kernel. *)

\* A sink is registered from the subscription until its connection ends.
Listens(c) == link[c] \in {"opening", "asked", "live"}

\* A bug: a sink whose gate is closed is passed over.
Heeds(c) == link[c] = "live"
Receives(c) == Listens(c)

\* Appended and published.
Post ==
    /\ serving /\ ~writing /\ made < MaxEvents /\ made' = made + 1
    /\ mem' = Append(mem, made + 1) /\ writing' = TRUE
    /\ sink' = [c \in Client |-> IF Receives(c)
                                 THEN Append(sink[c], [at |-> Len(mem) + 1, number |-> made + 1])
                                 ELSE sink[c]]
    /\ UNCHANGED <<disk, serving, faults, link, answer, seen, history, joined, given>>

\* persist_gateway_state
Write ==
    /\ serving /\ writing /\ writing' = FALSE
    /\ \/ disk' = mem /\ UNCHANGED faults
       \/ UNCHANGED disk /\ Fault
    /\ UNCHANGED <<mem, serving, made, client>>

-----------------------------------------------------------------------------
(* The pane and its connection. *)

\* The guard of append_event, over several frames, which come in order: what it
\* passes is the rest of them from the first that it passes.
\* A bug: it trusts the cursor.
ShowAll(c, fs) == fs
Shown(c, fs) ==
    LET new == {i \in DOMAIN fs : fs[i].at > seen[c]}
    IN  IF new = {} THEN <<>> ELSE SubSeq(fs, Min(new), Len(fs))
Shows(c, fs) ==
    /\ history' = [history EXCEPT ![c] = @ \o Shown(c, fs)]
    /\ seen' = [seen EXCEPT ![c] = IF Shown(c, fs) = <<>> THEN @ ELSE Last(Shown(c, fs)).at]

\* subscribe: the replay after a cursor, a new sink, and the snapshot written; one
\* that cannot be written ends the connection, and there was no subscription.
Registers(c, after, place) ==
    /\ serving /\ ~writing
    /\ disk' = mem /\ UNCHANGED <<mem, writing, serving, made, faults>>
    /\ answer' = [answer EXCEPT ![c] = Window(mem, after, Limit)]
    /\ sink' = [sink EXCEPT ![c] = <<>>] /\ link' = [link EXCEPT ![c] = place]
    /\ joined' = [joined EXCEPT ![c] = Len(mem)] /\ given' = [given EXCEPT ![c] = 0]

\* open_selected: a window back from the length the roster has read, perhaps long
\* ago, or of a journal of which a crash left less.
Open(c) ==
    /\ link[c] = "closed"
    /\ \E n \in 0 .. made :
         LET after == IF n > Limit THEN n - Limit ELSE 0
         IN  Registers(c, after, "opening") /\ seen' = [seen EXCEPT ![c] = after]
    /\ UNCHANGED history

\* poll, when it has lost its carrier: from the last sequence it saw.
Subscribe(c) ==
    /\ link[c] = "lost" /\ Registers(c, seen[c], "asked")
    /\ UNCHANGED <<seen, history>>

\* The replay answer is on the wire, and the gate opens.
ReplayWritten(c) ==
    /\ link[c] \in {"opening", "asked"} /\ link' = [link EXCEPT ![c] = "live"]
    /\ Shows(c, answer[c]) /\ answer' = [answer EXCEPT ![c] = <<>>]
    /\ UNCHANGED <<journal, sink, joined, given>>

\* The connection's writer, and the pane's next poll.
Follow(c) ==
    /\ link[c] = "live" /\ sink[c] # <<>>
    /\ Shows(c, <<Head(sink[c])>>) /\ sink' = [sink EXCEPT ![c] = Tail(@)]
    /\ given' = [given EXCEPT ![c] = @ + 1]
    /\ UNCHANGED <<journal, link, answer, joined>>

\* The connections are no more, and what they had not written with them.  A
\* pane that was opening is not open; another is degraded.
Drops(C) ==
    /\ link' = [c \in Client |-> IF c \notin C THEN link[c]
                                 ELSE IF link[c] = "opening" THEN "closed" ELSE "lost"]
    /\ answer' = [c \in Client |-> IF c \in C THEN <<>> ELSE answer[c]]
    /\ sink' = [c \in Client |-> IF c \in C THEN <<>> ELSE sink[c]]
    /\ joined' = [c \in Client |-> IF c \in C THEN 0 ELSE joined[c]]
    /\ given' = [c \in Client |-> IF c \in C THEN 0 ELSE given[c]]
    /\ UNCHANGED <<seen, history>>

\* Back to the roster: the pane and its subscription go.
Back(c) ==
    /\ link[c] \in {"live", "lost"} /\ link' = [link EXCEPT ![c] = "closed"]
    /\ sink' = [sink EXCEPT ![c] = <<>>] /\ history' = [history EXCEPT ![c] = <<>>]
    /\ seen' = [seen EXCEPT ![c] = 0]
    /\ joined' = [joined EXCEPT ![c] = 0] /\ given' = [given EXCEPT ![c] = 0]
    /\ UNCHANGED <<journal, answer>>

Lose(c) == Listens(c) /\ Drops({c}) /\ UNCHANGED journal

-----------------------------------------------------------------------------
(* The service. *)

Connected == {c \in Client : Listens(c)}

\* close_all and the final write.
Shutdown ==
    /\ serving /\ ~writing /\ Fault /\ serving' = FALSE /\ disk' = mem /\ Drops(Connected)
    /\ UNCHANGED <<mem, writing, made>>

Crash ==
    /\ serving /\ Fault /\ serving' = FALSE /\ writing' = FALSE /\ Drops(Connected)
    /\ UNCHANGED <<mem, disk, made>>

Restart ==
    /\ ~serving /\ serving' = TRUE /\ mem' = disk
    /\ UNCHANGED <<disk, writing, made, faults, client>>

StreamNext ==
    \/ Post \/ Write \/ Shutdown \/ Crash \/ Restart
    \/ \E c \in Client : \/ Open(c) \/ Subscribe(c) \/ ReplayWritten(c) \/ Follow(c)
                         \/ Back(c) \/ Lose(c)

StreamSpec == StreamInit /\ [][StreamNext]_streamVars

-----------------------------------------------------------------------------
(* Properties. *)

\* A sequence is shown once and in order, through lost connections and through
\* restarts that gave it to another event.
OnceInOrder ==
    \A c \in Client : \A i \in 1 .. Len(history[c]) - 1 : history[c][i].at < history[c][i + 1].at

\* A subscription leaves no event out between its replay and its live feed: what
\* its sink holds is what was appended since it was registered and not yet written.
LiveFeedWhole ==
    \A c \in Connected : sink[c] = Window(mem, joined[c] + given[c], Len(mem))

\* "Re-subscribe from the last sequence this surface has seen: the replay then
\* covers exactly the gap, so nothing is missed" (conversation_surface.rs:753-755).
\* But it is cut at its limit.
ReplayCoversGap ==
    [][\A c \in Client : Subscribe(c) => answer'[c] = Window(mem, seen[c], Len(mem))]_streamVars
=============================================================================
