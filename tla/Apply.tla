-------------------------------- MODULE Apply --------------------------------
(***************************************************************************)
(* `aikit apply`: a toggle written to a scope's file (aikit-store/src/     *)
(* edit.rs), then the view resolved from it and committed as a generation  *)
(* (App::apply in aikit-cli/src/app/mod.rs).  The generations of the       *)
(* context are taken as the register they implement (ViewRegister); a      *)
(* generation is its content, the set of capabilities in force.            *)
(*                                                                         *)
(* A document is opened, edited in memory and saved without any lock: a    *)
(* save truncates one temporary beside the file, writes it and renames it, *)
(* and the temporary has the same name in every process.  Files are kept   *)
(* as inodes, since a process goes on writing to the inode it has open     *)
(* when another renames it.  Only the one scope file matters here, so the  *)
(* layers under it are left out and a resolve yields what it declares.     *)
(***************************************************************************)
EXTENDS Naturals, FiniteSets

CONSTANTS Procs,        \* processes
          Caps,         \* capabilities that can be toggled
          None,         \* no generation
          NoFile,       \* no inode
          Inodes,       \* inodes: enough for the file, the temporary, and
                        \* one per process that holds a renamed one open
          MaxApplies    \* bound: applies begun in a run

ASSUME InodesAssumption == NoFile \notin Inodes
ASSUME NoneAssumption == None \notin SUBSET Caps
ASSUME MaxAppliesAssumption == MaxApplies \in Nat

VARIABLES view, undo, open,     \* the register: see ViewRegister
          file,         \* the inode the scope file names
          tmp,          \* the inode its temporary names
          text,         \* text[i]: what inode i declares enabled, or Torn
          fd,           \* fd[p]: the inode p has open for writing
          pc,           \* pc[p]: where p is in its apply
          want,         \* want[p]: the toggle p was asked for
          doc,          \* doc[p]: the document p opened
          seen,         \* seen[p]: the view p resolved
          against,      \* history: the view in force when p resolved
          alone,        \* history: no other apply has overlapped p's
          promised,     \* history: what acknowledged applies last said of a
                        \* capability no apply is about to change
          begun         \* how many applies were begun

register == <<view, undo, open>>
files == <<file, tmp, text, fd>>
local == <<want, doc, seen, against>>
vars == <<register, files, pc, local, alone, promised, begun>>

Gens == SUBSET Caps
Torn == {"torn"}        \* a text that does not parse
Toggles == [cap : Caps, on : BOOLEAN]
NoToggle == [cap |-> NoFile, on |-> FALSE]
Steps == {"idle", "opened", "truncated", "written", "unrenamed", "saved",
          "resolved", "started"}

Register == INSTANCE ViewRegister

TypeOK ==
    /\ Register!TypeOK
    /\ file \in Inodes \cup {NoFile} /\ tmp \in Inodes \cup {NoFile}
    /\ text \in [Inodes -> Gens \cup {Torn}]
    /\ fd \in [Procs -> Inodes \cup {NoFile}]
    /\ pc \in [Procs -> Steps]
    /\ want \in [Procs -> Toggles \cup {NoToggle}]
    /\ doc \in [Procs -> Gens]
    /\ seen \in [Procs -> Gens]
    /\ against \in [Procs -> Gens \cup {None}]
    /\ alone \in [Procs -> BOOLEAN]
    /\ promised \in [Caps -> {"on", "off", "open"}]
    /\ begun \in 0..MaxApplies

Init ==
    /\ Register!Init
    /\ file = NoFile /\ tmp = NoFile
    /\ text = [i \in Inodes |-> {}]
    /\ fd = [p \in Procs |-> NoFile]
    /\ pc = [p \in Procs |-> "idle"]
    /\ want = [p \in Procs |-> NoToggle]
    /\ doc = [p \in Procs |-> {}]
    /\ seen = [p \in Procs |-> {}]
    /\ against = [p \in Procs |-> None]
    /\ alone = [p \in Procs |-> TRUE]
    /\ promised = [c \in Caps |-> "open"]
    /\ begun = 0

(* A missing file declares nothing; so does one truncated to nothing.      *)
Declared == IF file = NoFile THEN {} ELSE text[file]

Edited(d, t) == IF t.on THEN d \cup {t.cap} ELSE d \ {t.cap}

Goto(p, l) == pc' = [pc EXCEPT ![p] = l]

(* p's apply is over, with or without effect.                              *)
Over(p) ==
    /\ Goto(p, "idle")
    /\ want' = [want EXCEPT ![p] = NoToggle]
    /\ doc' = [doc EXCEPT ![p] = {}]
    /\ seen' = [seen EXCEPT ![p] = {}]
    /\ against' = [against EXCEPT ![p] = None]
    /\ fd' = [fd EXCEPT ![p] = NoFile]
    /\ alone' = [alone EXCEPT ![p] = TRUE]

-----------------------------------------------------------------------------
(* An apply begins; from here on it overlaps every other in progress.      *)
Begin(p) ==
    /\ pc[p] = "idle" /\ begun < MaxApplies
    /\ begun' = begun + 1
    /\ alone' = [q \in Procs |-> IF q = p THEN \A r \in Procs : pc[r] = "idle"
                                          ELSE alone[q] /\ pc[q] = "idle"]

(* scope_document and apply_toggles: the file is read and edited in memory *)
Open(p, t) ==
    /\ Begin(p)
    /\ Declared # Torn
    /\ want' = [want EXCEPT ![p] = t]
    /\ doc' = [doc EXCEPT ![p] = Edited(Declared, t)]
    /\ promised' = [promised EXCEPT ![t.cap] = "open"]
    /\ Goto(p, "opened")
    /\ UNCHANGED <<register, files, seen, against>>

(* An apply of no toggle saves nothing, and resolves what is declared.     *)
Refresh(p) ==
    /\ Begin(p)
    /\ Goto(p, "saved")
    /\ UNCHANGED <<register, files, local, promised>>

(* Mutant: the file itself is opened for writing.                              *)
TruncateInPlace(p) ==
    /\ pc[p] = "opened"
    /\ \E i \in IF file # NoFile THEN {file} ELSE Inodes :
          /\ file' = i /\ tmp' = i
          /\ fd' = [fd EXCEPT ![p] = i]
          /\ text' = [text EXCEPT ![i] = {}]
    /\ Goto(p, "truncated")
    /\ UNCHANGED <<register, local, alone, promised, begun>>

(* fs::write opens the temporary: the one that is there, or a new one.     *)
Truncate(p) ==
    LET inUse == {file, tmp} \cup {fd[q] : q \in Procs}
    IN
    /\ pc[p] = "opened"
    /\ \E i \in IF tmp # NoFile THEN {tmp} ELSE Inodes \ inUse :
          /\ tmp' = i
          /\ fd' = [fd EXCEPT ![p] = i]
          /\ text' = [text EXCEPT ![i] = {}]
    /\ Goto(p, "truncated")
    /\ UNCHANGED <<register, file, local, alone, promised, begun>>

(* ... and writes from its start.  What another process wrote there since  *)
(* the truncation shows past the end of a shorter text.                    *)
Write(p) ==
    /\ pc[p] = "truncated"
    /\ \E written \in IF text[fd[p]] = {} THEN {doc[p]} ELSE {doc[p], Torn} :
          text' = [text EXCEPT ![fd[p]] = written]
    /\ fd' = [fd EXCEPT ![p] = NoFile]
    /\ Goto(p, "written")
    /\ UNCHANGED <<register, file, tmp, local, alone, promised, begun>>

(* The temporary of that name replaces the file, whoever wrote it.         *)
Rename(p) ==
    /\ pc[p] = "written" /\ tmp # NoFile
    /\ file' = tmp /\ tmp' = NoFile
    /\ Goto(p, "saved")
    /\ UNCHANGED <<register, text, fd, local, alone, promised, begun>>

(* The rename fails: another process has renamed it already, or any error. *)
RenameFail(p) ==
    /\ pc[p] = "written"
    /\ Goto(p, "unrenamed")
    /\ UNCHANGED <<register, files, local, alone, promised, begun>>

(* edit.write_failed: the temporary is removed, by name, whoever made it.  *)
RemoveTmp(p) ==
    /\ pc[p] = "unrenamed"
    /\ tmp' = NoFile
    /\ Over(p)
    /\ UNCHANGED <<register, file, text, promised, begun>>

-----------------------------------------------------------------------------
(* Mutant: the layers are not read again after the save.                   *)
ResolveStale(p) ==
    /\ pc[p] = "saved"
    /\ seen' = [seen EXCEPT ![p] = doc[p] \ {want[p].cap}]
    /\ against' = [against EXCEPT ![p] = view]
    /\ Goto(p, "resolved")
    /\ UNCHANGED <<register, files, want, doc, alone, promised, begun>>

(* assemble_layers and resolve read the file again.                        *)
Resolve(p) ==
    /\ pc[p] = "saved" /\ Declared # Torn
    /\ seen' = [seen EXCEPT ![p] = Declared]
    /\ against' = [against EXCEPT ![p] = view]
    /\ Goto(p, "resolved")
    /\ UNCHANGED <<register, files, want, doc, alone, promised, begun>>

(* edit.parse_error, which reports and writes nothing.                     *)
ResolveFail(p) ==
    /\ pc[p] = "saved" /\ Declared = Torn
    /\ Over(p)
    /\ UNCHANGED <<register, file, tmp, text, promised, begun>>

(* The base is read, after the resolve.                                    *)
ReadBase(p) ==
    /\ pc[p] = "resolved"
    /\ Register!Start(p, "apply")
    /\ Goto(p, "started")
    /\ UNCHANGED <<files, local, alone, promised, begun>>

(* The apply reports success.  What it said stands if nobody else is about *)
(* to change the same capability.                                          *)
Acknowledge(p) ==
    LET t == want[p] IN
    /\ Over(p)
    /\ promised' =
         IF t = NoToggle \/ \E q \in Procs \ {p} : want[q].cap = t.cap
         THEN promised
         ELSE [promised EXCEPT ![t.cap] = IF t.on THEN "on" ELSE "off"]
    /\ UNCHANGED <<file, tmp, text, begun>>

(* The base is still in force: the view resolved replaces it.              *)
Commit(p) ==
    /\ pc[p] = "started" /\ seen[p] # view
    /\ Register!Replace(p, seen[p])
    /\ Acknowledge(p)

(* It is, and is what was resolved: it is reused.                          *)
Reuse(p) ==
    /\ pc[p] = "started" /\ seen[p] = view
    /\ open[p].seen = view
    /\ Register!Abandon(p)
    /\ Acknowledge(p)

(* generation.stale_base: the declaration stays as it was saved.           *)
Refuse(p) ==
    /\ pc[p] = "started"
    /\ open[p].seen # view
    /\ Register!Abandon(p)
    /\ Over(p)
    /\ UNCHANGED <<file, tmp, text, promised, begun>>

-----------------------------------------------------------------------------
(* An error or a kill at any step of an apply, in its commit or after it.  *)
Stop(p) ==
    /\ pc[p] # "idle"
    /\ IF pc[p] = "started"
       THEN \/ Register!Abandon(p) \/ Register!Cut(p)
            \/ seen[p] # view /\ Register!Replace(p, seen[p])
       ELSE UNCHANGED register
    /\ Over(p)
    /\ UNCHANGED <<file, tmp, text, promised, begun>>

(* `aikit rollback` in an idle process: the register's, and not the file's *)
Rollback(p) ==
    /\ pc[p] = "idle"
    /\ view # None /\ undo \notin {None, view}
    /\ view' = undo /\ undo' = view
    /\ UNCHANGED <<open, files, pc, local, alone, promised, begun>>

Next ==
    \E p \in Procs :
       \/ \E t \in Toggles : Open(p, t)
       \/ Refresh(p)
       \/ Truncate(p) \/ Write(p) \/ Rename(p) \/ RenameFail(p) \/ RemoveTmp(p)
       \/ Resolve(p) \/ ResolveFail(p)
       \/ ReadBase(p) \/ Commit(p) \/ Reuse(p) \/ Refuse(p)
       \/ Stop(p) \/ Rollback(p)

Spec == Init /\ [][Next]_vars

-----------------------------------------------------------------------------
Acks(p) == pc[p] = "started" /\ pc'[p] = "idle" /\ promised' # promised

(* An apply no other apply overlapped, whatever was left behind by earlier *)
(* ones that failed or were killed, and whatever rollbacks run meanwhile,  *)
(* reports success only with the file as it opened it and the toggle made, *)
(* and with that in force.                                                 *)
SoloApplyLands ==
    [][\A p \in Procs : Acks(p) /\ alone[p] =>
         /\ Declared = doc[p] /\ view' = doc[p]]_vars

(* The file of an apply no other overlapped changes once, to the document  *)
(* it saved: an interrupted save cannot truncate it (edit.rs:18-20).       *)
SoloSaveIsAtomic ==
    [][\A p \in Procs : alone[p] /\ pc'[p] # pc[p] /\ Declared' # Declared =>
         pc'[p] = "saved" /\ Declared' = doc[p]]_vars

-----------------------------------------------------------------------------
(* Stated by the source and not kept by it.                                *)

(* mod.rs:3496-3498: the commit honours "the compare-and-swap against the  *)
(* base we resolved from".  The base is read after the resolve, so what    *)
(* another process put in force between the two is discarded silently.     *)
CommitsWhatItResolvedAgainst ==
    [][\A p \in Procs : pc[p] = "started" /\ view' # view /\ pc'[p] = "idle"
         => against[p] = view]_vars

(* profile.rs:611-612: "an apply whose base is stale is detected rather    *)
(* than silently clobbering the other pane".  What an apply that reported  *)
(* success declared is still declared once every apply is over, until one  *)
(* changes it.  But the base recorded in the file is never consulted.      *)
DeclarationKept ==
    (\A p \in Procs : pc[p] = "idle") =>
      \A c \in Caps :
        /\ promised[c] = "on" => c \in Declared
        /\ promised[c] = "off" => c \notin Declared
=============================================================================
