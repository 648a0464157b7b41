------------------------------ MODULE Composition ------------------------------
(***************************************************************************)
(* `aikit repertoire --apply` (aikit-cli/src/app/repertoire.rs): one       *)
(* operation over two stores.  A preview plans the edit of a scope's       *)
(* declarations as a procedure; its application builds the generation the  *)
(* edited declarations would resolve to, runs the procedure, commits the   *)
(* generation and, when that is refused, undoes the procedure.             *)
(*                                                                         *)
(* The generations of the context are the register they implement          *)
(* (ViewRegister), a generation being what was declared and the revision   *)
(* of the accepted sources it was made from.  The procedure is reduced to  *)
(* its one edit of the declarations, its journal and its marker; what can  *)
(* happen inside it is the subject of Procedures.  Nothing but the steps   *)
(* of the register is under a lock.                                        *)
(***************************************************************************)
EXTENDS Naturals, FiniteSets

CONSTANTS Procs,        \* processes
          Items,        \* profiles and skill sets that can be declared
          Sets,         \* those of them that are skill sets
          None,         \* no generation
          Shared,       \* whether two processes may apply one saved preview
                        \* at the same time
          MaxPlans,     \* bound: previews made in a run
          MaxApplies,   \* bound: applications begun
          MaxRevision,  \* bound: changes of the accepted sources
          MaxOthers,    \* bound: changes made by anything else
          MaxFaults     \* bound: errors and kills

ASSUME BoundsAssumption ==
    /\ MaxPlans \in Nat /\ MaxApplies \in Nat /\ MaxRevision \in Nat
    /\ MaxOthers \in Nat /\ MaxFaults \in Nat
ASSUME SetsAssumption == Sets \subseteq Items
ASSUME SharedAssumption == Shared \in BOOLEAN

VARIABLES view, undo, open,     \* the register: see ViewRegister
          text,         \* what the scope declares
          revision,     \* the accepted sources: no content comes back
          made,         \* how many previews were made; they number them
          plan,         \* plan[i]: what preview i was computed from and plans
          saved,        \* the previews whose procedure is retained
          journal,      \* those with an undo record
          done,         \* the plan digests marked as satisfied
          pc,           \* pc[p]: where p is in its application
          at,           \* at[p]: the preview p applies, or was refused
          shown,        \* shown[p]: the declarations p resolved when it began
          built,        \* built[p]: the generation p staged or reused
          already,      \* already[p]: p's run found its plan satisfied
          outcome,      \* outcome[p]: how p's last application ended
          stands,       \* history: the declarations p made, or found made,
                        \* have not been changed since
          steady,       \* history: who began with the declarations that its
                        \* run then found
          moved,        \* history: previews after which others changed the
                        \* declarations, the sources, the view or the marker
          torn,         \* history: previews whose procedure was killed halfway
          stale,        \* history: previews planned when their plan was
                        \* already marked as satisfied
          applies,      \* how many applications were begun
          others,       \* how many changes others made
          faults        \* how many errors and kills there were

register == <<view, undo, open>>
store == <<saved, journal, done>>
history == <<stands, steady, moved, torn, stale>>
previews == <<made, plan>>
local == <<at, shown, built, already>>
bounds == <<applies, others, faults>>
vars == <<register, text, revision, previews, store, pc, local, outcome,
          history, bounds>>

Ids == 1..MaxPlans
Texts == SUBSET Items
Gens == [declares : Texts, from : 0..MaxRevision]
Plans == [before : Texts, after : Texts, adds : Texts, from : 0..MaxRevision,
          base : Gens \cup {None}]
NoPlan == [before |-> {}, after |-> {}, adds |-> {}, from |-> 0, base |-> None]

ASSUME NoneAssumption == None \notin Gens

Register == INSTANCE ViewRegister

(* "late" is an error returned after the commit.                           *)
Outcomes == {"none", "applied", "refused", "failed", "late", "killed"}
Steps == {"idle", "loaded", "checked", "based", "built", "running", "edited", "ran",
          "committed", "undoing", "restored"}

(* Edits and preconditions make the digest, and not the preview's id.      *)
Digest(i) == [before |-> plan[i].before, after |-> plan[i].after,
              from |-> plan[i].from]

TypeOK ==
    /\ Register!TypeOK
    /\ text \in Texts /\ revision \in 0..MaxRevision
    /\ made \in 0..MaxPlans /\ plan \in [Ids -> Plans]
    /\ saved \subseteq 1..made /\ journal \subseteq saved
    /\ done \subseteq {Digest(i) : i \in saved}
    /\ pc \in [Procs -> Steps]
    /\ at \in [Procs -> 0..made]
    /\ shown \in [Procs -> Texts]
    /\ built \in [Procs -> Gens \cup {None}]
    /\ already \in [Procs -> BOOLEAN]
    /\ outcome \in [Procs -> Outcomes]
    /\ stands \in [Procs -> BOOLEAN] /\ steady \subseteq Procs
    /\ moved \subseteq 1..made /\ torn \subseteq saved /\ stale \subseteq 1..made
    /\ applies \in 0..MaxApplies /\ others \in 0..MaxOthers
    /\ faults \in 0..MaxFaults

Init ==
    /\ Register!Init
    /\ text = {} /\ revision = 0
    /\ made = 0 /\ plan = [i \in Ids |-> NoPlan]
    /\ saved = {} /\ journal = {} /\ done = {}
    /\ pc = [p \in Procs |-> "idle"]
    /\ at = [p \in Procs |-> 0]
    /\ shown = [p \in Procs |-> {}]
    /\ built = [p \in Procs |-> None]
    /\ already = [p \in Procs |-> FALSE]
    /\ outcome = [p \in Procs |-> "none"]
    /\ stands = [p \in Procs |-> FALSE] /\ steady = {}
    /\ moved = {} /\ torn = {} /\ stale = {}
    /\ applies = 0 /\ others = 0 /\ faults = 0

Goto(p, l) == pc' = [pc EXCEPT ![p] = l]

(* p's application ends; the preview of one that was refused is kept.      *)
End(p, how) ==
    /\ Goto(p, "idle")
    /\ outcome' = [outcome EXCEPT ![p] = how]
    /\ shown' = [shown EXCEPT ![p] = {}]
    /\ built' = [built EXCEPT ![p] = None]
    /\ IF how \in {"refused", "failed", "late"}
       THEN UNCHANGED <<at, already>>
       ELSE /\ at' = [at EXCEPT ![p] = 0]
            /\ already' = [already EXCEPT ![p] = FALSE]

(* It ends so once its procedure is undone.                                *)
Undoing(p, how) ==
    /\ Goto(p, "undoing")
    /\ outcome' = [outcome EXCEPT ![p] = how]
    /\ UNCHANGED local

Reused(p) == open[p].op = "none"

Fault == faults < MaxFaults /\ faults' = faults + 1

(* The world changed, by the application of preview i or by others (0).    *)
Moved(i) == moved' = moved \cup (1..made \ {i})

(* So did the marker of its plan, for the other previews of the same plan. *)
MarkerMoved(i) ==
    moved' = moved \cup {j \in 1..made \ {i} : Digest(j) = Digest(i)}

(* The declarations become t, by p's run or (nobody) by others.            *)
Declare(t, who) ==
    /\ text' = t
    /\ stands' = [p \in Procs |-> p \in who]
    /\ steady' = {p \in steady : pc[p] \in {"edited", "ran", "committed"}}

-----------------------------------------------------------------------------
(* preview_repertoire writes nothing: it records what it read, what would  *)
(* be declared, and the generation in force.                               *)
Preview(items) ==
    /\ made < MaxPlans
    /\ made' = made + 1
    /\ plan' = [plan EXCEPT ![made'] =
          [before |-> text, after |-> text \cup items, adds |-> items,
           from |-> revision, base |-> view]]
    /\ stale' = IF /\ ~ items \subseteq text
                   /\ [before |-> text, after |-> text \cup items,
                       from |-> revision] \in done
                THEN stale \cup {made'} ELSE stale
    /\ UNCHANGED <<register, text, revision, store, pc, local, outcome,
                   stands, steady, moved, torn, bounds>>

Begin(p, i) ==
    /\ pc[p] = "idle" /\ i \in 1..made /\ applies < MaxApplies
    /\ Shared \/ \A q \in Procs : pc[q] = "idle" \/ at[q] # i
    /\ applies' = applies + 1
    /\ at' = [at EXCEPT ![p] = i]
    /\ already' = [already EXCEPT ![p] = FALSE]
    /\ stands' = [stands EXCEPT ![p] = FALSE]
    /\ UNCHANGED <<register, text, revision, previews, store, built, moved,
                   torn, stale, others, faults>>

(* It loads the catalogue of the accepted sources, which must be the one   *)
(* reviewed, and resolves what is declared (refresh).                      *)
Refresh(p, i) ==
    /\ Begin(p, i)
    /\ revision = plan[i].from
    /\ shown' = [shown EXCEPT ![p] = text]
    /\ steady' = steady \cup {p}
    /\ Goto(p, "loaded")
    /\ outcome' = [outcome EXCEPT ![p] = "none"]

(* composition.preview_stale                                               *)
StaleSources(p, i) ==
    /\ Begin(p, i)
    /\ revision # plan[i].from
    /\ outcome' = [outcome EXCEPT ![p] = "refused"]
    /\ UNCHANGED <<pc, shown, steady>>

(* It previews the same request on the declarations as they are now: that  *)
(* must yield the same selection ...                                       *)
SameMaterial(i) == text \cup plan[i].adds = plan[i].after

(* Mutant: only the very plan authorises.                                  *)
AuthorisedByPlan(i) == text = plan[i].before /\ revision = plan[i].from

(* ... and the same plan, unless the procedure reviewed is retained: then  *)
(* it is a replay.                                                         *)
Authorised(i) == (text = plan[i].before /\ revision = plan[i].from) \/ i \in saved

Check(p) ==
    /\ pc[p] = "loaded"
    /\ SameMaterial(at[p]) /\ Authorised(at[p])
    /\ Goto(p, "checked")
    /\ UNCHANGED <<register, text, revision, previews, store, local, outcome,
                   history, bounds>>

(* composition.preview_stale                                               *)
StalePreview(p) ==
    /\ pc[p] = "loaded"
    /\ ~(SameMaterial(at[p]) /\ Authorised(at[p]))
    /\ End(p, "refused")
    /\ UNCHANGED <<register, text, revision, previews, store, history, bounds>>

(* The repertoire as p has it: its profiles are of the view it resolved    *)
(* when it began, its skill sets are read again.                           *)
Resolved(p) == (shown[p] \ Sets) \cup (text \cap Sets)

(* The base of the commit is the generation in force now.  It may differ   *)
(* from the one reviewed if the repertoire is already what was reviewed.   *)
ReadBase(p) ==
    LET i == at[p] IN
    /\ pc[p] = "checked"
    /\ view = plan[i].base \/ Resolved(p) = plan[i].after
    /\ Register!Start(p, "apply")
    /\ Goto(p, "based")
    /\ UNCHANGED <<text, revision, previews, store, local, outcome, history,
                   bounds>>

(* generation.stale_base, before anything was written.                     *)
BaseMoved(p) ==
    /\ \/ /\ pc[p] = "checked" /\ view # plan[at[p]].base
          /\ Resolved(p) # plan[at[p]].after
       \/ pc[p] = "based" /\ open[p].seen # view
    /\ Register!Abandon(p)
    /\ End(p, "refused")
    /\ UNCHANGED <<text, revision, previews, store, history, bounds>>

(* Whether the procedure of preview i writes the declarations.             *)
Edits(i) == plan[i].after # plan[i].before

(* What is staged from the sources as they are now: the repertoire that    *)
(* was reviewed, or, when there is nothing to edit, the one p has.         *)
Target(p) ==
    [declares |-> IF Edits(at[p]) THEN plan[at[p]].after ELSE Resolved(p),
     from |-> revision]

(* reuse_current: it is in force.                                          *)
Reuse(p) ==
    /\ pc[p] = "based" /\ open[p].seen = view /\ view = Target(p)
    /\ Register!Abandon(p)
    /\ built' = [built EXCEPT ![p] = view]
    /\ shown' = [shown EXCEPT ![p] = {}]
    /\ Goto(p, "built")
    /\ UNCHANGED <<text, revision, previews, store, at, already, outcome,
                   history, bounds>>

(* A tree in force that is damaged is built again and repaired, which      *)
(* Generations models.                                                     *)
Build(p) ==
    /\ pc[p] = "based" /\ open[p].seen = view /\ view # Target(p)
    /\ built' = [built EXCEPT ![p] = Target(p)]
    /\ shown' = [shown EXCEPT ![p] = {}]
    /\ Goto(p, "built")
    /\ UNCHANGED <<register, text, revision, previews, store, at, already,
                   outcome, history, bounds>>

-----------------------------------------------------------------------------
(* ProcedureRunner::run, which retains the plan before it looks at it.     *)
AfterRun(p) == IF Reused(p) THEN "committed" ELSE "ran"

Satisfied(p) ==
    /\ pc[p] = "built" /\ Digest(at[p]) \in done
    /\ saved' = saved \cup {at[p]}

(* Mutant: a plan marked as satisfied is taken to be so.                   *)
RunSatisfiedUnread(p) ==
    /\ Satisfied(p)
    /\ already' = [already EXCEPT ![p] = TRUE]
    /\ stands' = [stands EXCEPT ![p] = TRUE]
    /\ Goto(p, AfterRun(p))
    /\ UNCHANGED <<register, text, revision, previews, journal, done, at,
                   shown, built, outcome, steady, moved, torn, stale, bounds>>

(* A plan marked as satisfied is not applied again: what it did and what   *)
(* it read are looked at (verify_applied).                                 *)
RunSatisfied(p) ==
    /\ Satisfied(p)
    /\ text = plan[at[p]].after /\ revision = plan[at[p]].from
    /\ already' = [already EXCEPT ![p] = TRUE]
    /\ stands' = [stands EXCEPT ![p] = TRUE]
    /\ Goto(p, AfterRun(p))
    /\ UNCHANGED <<register, text, revision, previews, journal, done, at,
                   shown, built, outcome, steady, moved, torn, stale, bounds>>

(* procedure.satisfied_drift: the staged generation is dropped.            *)
RunDrifted(p) ==
    /\ Satisfied(p)
    /\ ~(text = plan[at[p]].after /\ revision = plan[at[p]].from)
    /\ Register!Abandon(p)
    /\ End(p, "refused")
    /\ UNCHANGED <<text, revision, previews, journal, done, history, bounds>>

(* Otherwise what is only read is verified first.                          *)
RunStart(p) ==
    /\ pc[p] = "built" /\ Digest(at[p]) \notin done
    /\ revision = plan[at[p]].from
    /\ saved' = saved \cup {at[p]}
    /\ Goto(p, "running")
    /\ UNCHANGED <<register, text, revision, previews, journal, done, local,
                   outcome, history, bounds>>

(* A precondition fails: the run rolls back nothing and discards the       *)
(* journal of its id, an earlier run's too.                                *)
RunRefused(p) ==
    LET i == at[p] IN
    /\ \/ /\ pc[p] = "built" /\ Digest(i) \notin done
          /\ revision # plan[i].from
       \/ pc[p] = "running" /\ text # plan[i].before
    /\ saved' = saved \cup {i}
    /\ journal' = journal \ {i}
    /\ Register!Abandon(p)
    /\ End(p, "refused")
    /\ UNCHANGED <<text, revision, previews, done, history, bounds>>

(* The declarations are verified, journaled and written; a plan without an *)
(* edit writes no journal.                                                 *)
Edit(p) ==
    LET i == at[p] IN
    /\ pc[p] = "running" /\ text = plan[i].before
    /\ IF Edits(i)
       THEN /\ Declare(plan[i].after, {p})
            /\ journal' = journal \cup {i}
            /\ Moved(i)
       ELSE /\ stands' = [stands EXCEPT ![p] = TRUE]
            /\ UNCHANGED <<text, journal, steady, moved>>
    /\ Goto(p, "edited")
    /\ UNCHANGED <<register, revision, previews, saved, done, local, outcome,
                   torn, stale, bounds>>

Mark(p) ==
    /\ pc[p] = "edited"
    /\ done' = done \cup {Digest(at[p])}
    /\ MarkerMoved(at[p])
    /\ Goto(p, AfterRun(p))
    /\ UNCHANGED <<register, text, revision, previews, saved, journal, local,
                   outcome, stands, steady, torn, stale, bounds>>

(* The marker cannot be written: the inverses in memory run, whatever is   *)
(* declared now.                                                           *)
MarkFail(p) ==
    LET i == at[p] IN
    /\ Fault
    /\ pc[p] = "edited"
    /\ IF Edits(i) /\ text # plan[i].before
       THEN Declare(plan[i].before, {}) /\ Moved(i)
       ELSE UNCHANGED <<text, stands, steady, moved>>
    /\ journal' = journal \ {i}
    /\ Register!Abandon(p)
    /\ End(p, "failed")
    /\ UNCHANGED <<revision, previews, saved, done, torn, stale, applies, others>>

-----------------------------------------------------------------------------
(* The base is still in force, and the staged tree is still what its name  *)
(* says.                                                                   *)
Commit(p) ==
    /\ pc[p] = "ran" /\ open[p].seen = view
    /\ built[p].from = revision
    /\ Register!Replace(p, built[p])
    /\ Moved(at[p])
    /\ Goto(p, "committed")
    /\ UNCHANGED <<text, revision, previews, store, local, outcome, stands,
                   steady, torn, stale, bounds>>

(* Mutant: a refused commit is reported as it is.                          *)
CommitRefusedOnly(p) ==
    /\ pc[p] = "ran"
    /\ open[p].seen # view \/ built[p].from # revision
    /\ Register!Abandon(p)
    /\ End(p, "refused")
    /\ UNCHANGED <<text, revision, previews, store, history, bounds>>

(* generation.stale_base or generation.source_changed: what this run has   *)
(* declared, and only that, is undone.                                     *)
CommitRefused(p) ==
    /\ pc[p] = "ran"
    /\ open[p].seen # view \/ built[p].from # revision
    /\ Register!Abandon(p)
    /\ IF already[p]
       THEN End(p, "refused")
       ELSE Undoing(p, "refused")
    /\ UNCHANGED <<text, revision, previews, store, history, bounds>>

(* Any other error of the commit goes the same way.                        *)
CommitFail(p) ==
    /\ Fault
    /\ pc[p] = "ran"
    /\ Register!Abandon(p) \/ Register!Cut(p)
    /\ IF already[p]
       THEN End(p, "failed")
       ELSE Undoing(p, "failed")
    /\ UNCHANGED <<text, revision, previews, store, history, applies, others>>

(* ProcedureRunner::undo asks for the journal, and for the result of the   *)
(* run to be still there.                                                  *)
Undoable(i) == i \in journal /\ text = plan[i].after

Restore(p) ==
    LET i == at[p] IN
    /\ pc[p] = "undoing" /\ Undoable(i)
    /\ Declare(plan[i].before, {})
    /\ Moved(i)
    /\ Goto(p, "restored")
    /\ UNCHANGED <<register, revision, previews, store, local, outcome, torn,
                   stale, bounds>>

RestoreRefused(p) ==
    /\ pc[p] = "undoing" /\ ~Undoable(at[p])
    /\ End(p, outcome[p])
    /\ UNCHANGED <<register, text, revision, previews, store, history,
                   bounds>>

Unmark(p) ==
    /\ pc[p] = "restored"
    /\ done' = done \ {Digest(at[p])}
    /\ MarkerMoved(at[p])
    /\ End(p, outcome[p])
    /\ UNCHANGED <<register, text, revision, previews, saved, journal,
                   stands, steady, torn, stale, bounds>>

(* The view is read back: it must be the generation committed.  If it is   *)
(* not, the error leaves the declarations as they are, ...                 *)
Report(p) ==
    /\ pc[p] = "committed"
    /\ End(p, IF view = built[p] THEN "applied" ELSE "late")
    /\ UNCHANGED <<register, text, revision, previews, store, history,
                   bounds>>

(* ... as does one of reading back.                                        *)
ReportFail(p) ==
    /\ Fault
    /\ pc[p] = "committed"
    /\ End(p, "late")
    /\ UNCHANGED <<register, text, revision, previews, store, history,
                   applies, others>>

-----------------------------------------------------------------------------
(* An error before the declarations change (inside the run, its rollback   *)
(* discards the journal), or a kill at any step.                           *)
Fail(p) ==
    /\ Fault
    /\ pc[p] \in {"loaded", "checked", "based", "built", "running"}
    /\ journal' \in {journal} \cup IF pc[p] = "running" THEN {journal \ {at[p]}}
                                                     ELSE {}
    /\ Register!Abandon(p)
    /\ End(p, "failed")
    /\ UNCHANGED <<text, revision, previews, saved, done, history, applies, others>>

Kill(p) ==
    /\ Fault
    /\ pc[p] # "idle"
    /\ Register!Abandon(p) \/ (pc[p] = "ran" /\ Register!Cut(p))
    /\ End(p, "killed")
    /\ torn' = IF pc[p] \in {"edited", "restored"} THEN torn \cup {at[p]} ELSE torn
    /\ UNCHANGED <<text, revision, previews, store, stands, steady, moved,
                   stale, applies, others>>

(* Everyone else, at any time: the user edits the declarations, ...        *)
Other == others < MaxOthers /\ others' = others + 1

UserEdit(t) ==
    /\ Other /\ t # text
    /\ Declare(t, {})
    /\ Moved(0)
    /\ UNCHANGED <<register, revision, previews, store, pc, local, outcome,
                   torn, stale, applies, faults>>

(* ... undoes a retained procedure, ...                                    *)
UserUndo(i) ==
    /\ Other /\ Undoable(i)
    /\ Declare(plan[i].before, {})
    /\ done' = done \ {Digest(i)}
    /\ Moved(0)
    /\ UNCHANGED <<register, revision, previews, saved, journal, pc, local,
                   outcome, torn, stale, applies, faults>>

(* ... a source changes, ...                                               *)
SourceMove ==
    /\ revision < MaxRevision
    /\ revision' = revision + 1
    /\ Moved(0)
    /\ UNCHANGED <<register, text, previews, store, pc, local, outcome,
                   stands, steady, torn, stale, bounds>>

(* ... and `aikit apply` and `aikit rollback` change the view.             *)
ViewMove ==
    /\ Other
    /\ \/ /\ view' = [declares |-> text, from |-> revision]
          /\ view' # view
          /\ undo' = IF view = None THEN undo ELSE view
       \/ /\ view # None /\ undo \notin {None, view}
          /\ view' = undo /\ undo' = view
    /\ Moved(0)
    /\ UNCHANGED <<open, text, revision, previews, store, pc, local, outcome,
                   stands, steady, torn, stale, applies, faults>>

Apply(p) ==
    \/ \E i \in Ids : Refresh(p, i) \/ StaleSources(p, i)
    \/ Check(p) \/ StalePreview(p)
    \/ ReadBase(p) \/ BaseMoved(p) \/ Reuse(p) \/ Build(p)
    \/ RunSatisfied(p) \/ RunDrifted(p) \/ RunStart(p) \/ RunRefused(p)
    \/ Edit(p) \/ Mark(p) \/ MarkFail(p)
    \/ Commit(p) \/ CommitRefused(p) \/ CommitFail(p)
    \/ Restore(p) \/ RestoreRefused(p) \/ Unmark(p)
    \/ Report(p) \/ ReportFail(p)
    \/ Fail(p) \/ Kill(p)

Next ==
    \/ \E items \in Texts \ {{}} : Preview(items)
    \/ \E p \in Procs : Apply(p)
    \/ \E t \in Texts : UserEdit(t)
    \/ \E i \in Ids : UserUndo(i)
    \/ SourceMove \/ ViewMove

Spec == Init /\ [][Next]_vars

-----------------------------------------------------------------------------
(* An application that reports success leaves in force the generation that *)
(* was reviewed, made of the sources that were reviewed, and the           *)
(* declarations it follows from, unless someone changed those after its    *)
(* own run had made them or found them made.  Where its procedure edits    *)
(* nothing, the generation is the one reviewed if the declarations were    *)
(* not changed between its refresh and its run (CompReviewed.cfg).         *)
ReportHolds ==
    [][\A p \in Procs : outcome'[p] = "applied" /\ pc'[p] # pc[p] =>
         LET i == at[p] IN
         /\ view'.from = plan[i].from
         /\ Edits(i) \/ p \in steady => view'.declares = plan[i].after
         /\ stands[p] => text' = plan[i].after]_vars

(* An application that is refused or fails before its commit, wherever it  *)
(* was cut short by others, leaves no declaration of its own behind.  An   *)
(* error after the commit, of reading back what was published, leaves them *)
(* (ErrorLeavesNothing, below).  Two applications of one saved preview at  *)
(* the same time are excepted (Shared): the run that is refused discards   *)
(* the journal of the other, which then cannot undo its own.               *)
LeavesNothing(p) == ~stands[p] \/ already[p] \/ ~Edits(at[p])

RefusedLeavesNothing ==
    \A p \in Procs :
      pc[p] = "idle" /\ outcome[p] \in {"refused", "failed"} => LeavesNothing(p)

(* A reviewed preview can be applied, and applied again after a kill or a  *)
(* report that was lost, as long as nobody else changed what it was        *)
(* computed from (the tests of the module: "interrupted_after_declaration_ *)
(* recovers_through_the_same_procedure").  Two cases are excepted: a kill  *)
(* inside the procedure, and a plan that was marked as satisfied already   *)
(* when it was made.                                                       *)
ReplayLands ==
    \A p \in Procs : outcome[p] = "refused" => at[p] \in moved \cup torn \cup stale

-----------------------------------------------------------------------------
(* What one might expect of the code, and it does not keep                 *)
(* (CompReviewed.cfg).                                                     *)

(* "Build from the reviewed hypothetical view before any declaration edit" *)
(* (repertoire.rs:651).  But a procedure without an edit of the            *)
(* declarations has no such view: the one of the refresh is taken.  Were   *)
(* the declarations others at the refresh, and those reviewed again by the *)
(* time they are compared and the run verifies them, a generation nobody   *)
(* reviewed is committed and reported as applied.                          *)
ReviewedIsPublished ==
    [][\A p \in Procs : outcome'[p] = "applied" /\ pc'[p] # pc[p] =>
         view'.declares = plan[at[p]].after]_vars

(* An application that returns an error leaves no declaration of its own   *)
(* behind.  But only a refused commit undoes them: once it has committed,  *)
(* an error of the refresh or of the readback, or a view that others have  *)
(* changed again (generation.stale_base), leaves them standing.            *)
ErrorLeavesNothing ==
    \A p \in Procs :
      pc[p] = "idle" /\ outcome[p] \in {"refused", "failed", "late"} =>
        LeavesNothing(p)

(* A preview of the world as it is can be applied.  But a marker outlives  *)
(* the declarations it speaks of when those are edited back by hand: the   *)
(* same request is then refused as drift, however often it is previewed.   *)
FreshPreviewLands ==
    \A p \in Procs : outcome[p] = "refused" => at[p] \in moved \cup torn

(* What one application reported is not taken back by the refusal of       *)
(* another.  But of two applications of one plan the later commit is       *)
(* refused, and undoes the declarations both rely on if it was the one     *)
(* that wrote them.                                                        *)
ReportOutlivesRefusal ==
    [][\A p, q \in Procs : p # q /\ pc[q] = "undoing" /\ text' # text =>
         ~(outcome[p] = "applied" /\ stands[p])]_vars
=============================================================================
