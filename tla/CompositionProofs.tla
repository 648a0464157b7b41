-------------------------- MODULE CompositionProofs --------------------------
(***************************************************************************)
(* Proofs about Composition, for any processes, items and bounds.          *)
(***************************************************************************)
EXTENDS Composition, TLAPS

-----------------------------------------------------------------------------
(* The inductive invariant, in parts. *)

(* A preview plans what it says from what was accepted at the time.        *)
Planned ==
    \A i \in 1 .. made :
        /\ plan[i].after = plan[i].before \cup plan[i].adds
        /\ plan[i].from <= revision

(* Who is at an application, or was refused one, has its preview; the run  *)
(* has retained its plan, and only a run has found its plan satisfied.     *)
Numbered ==
    \A p \in Procs :
        /\ pc[p] # "idle" \/ outcome[p] \in {"refused", "failed"} => at[p] \in 1 .. made
        /\ pc[p] \notin {"idle", "loaded", "checked", "based", "built"} => at[p] \in saved
        /\ already[p] => pc[p] \in {"idle", "ran", "committed"}

(* An outcome is told at the end, but for a commit that is being undone.   *)
Told ==
    \A p \in Procs :
        /\ pc[p] \notin {"idle", "undoing", "restored"} => outcome[p] = "none"
        /\ pc[p] \in {"undoing", "restored"} => outcome[p] \in {"refused", "failed"}

(* What p made of the declarations stands as long as nobody changed them.  *)
Standing ==
    \A p \in Procs :
        /\ stands[p] /\ at[p] # 0 => text = plan[at[p]].after
        /\ pc[p] \in {"loaded", "checked", "based", "built", "running", "restored"} =>
              ~stands[p]

(* What p staged to publish an edit is what was reviewed, from the sources *)
(* that were reviewed as soon as the run has verified them.                *)
Staged ==
    \A p \in Procs :
        /\ pc[p] \in {"built", "running", "edited", "ran", "committed"} =>
              /\ built[p] \in Gens
              /\ Edits(at[p]) => built[p].declares = plan[at[p]].after
              /\ plan[at[p]].from <= built[p].from /\ built[p].from <= revision
        /\ pc[p] \in {"running", "edited", "ran", "committed"} =>
              built[p].from = plan[at[p]].from

(* What p resolved when it began, and staged of it where nothing is to be  *)
(* edited, is what is declared, as long as nobody changed that.            *)
Steadied ==
    \A p \in Procs : p \in steady =>
        /\ pc[p] \in {"loaded", "checked", "based"} => shown[p] = text
        /\ pc[p] \in {"built", "running"} =>
              Edits(at[p]) \/ built[p].declares = text
        /\ pc[p] \in {"edited", "ran", "committed"} =>
              Edits(at[p]) \/ built[p].declares = plan[at[p]].after

(* An operation of the register is open from the base to the commit.       *)
Opened ==
    \A p \in Procs :
        /\ pc[p] \in {"based", "ran"} => open[p].op # "none"
        /\ pc[p] \in {"idle", "loaded", "checked", "committed", "undoing", "restored"} =>
              open[p].op = "none"

(* Unless they may share it, two processes do not apply one preview.       *)
Alone ==
    \A p, q \in Procs : p # q /\ pc[p] # "idle" /\ pc[q] # "idle" => at[p] # at[q]

(* Until it is committed, what p wrote is journaled.                       *)
Written ==
    \A p \in Procs :
        pc[p] \in {"edited", "ran", "undoing"} /\ stands[p] /\ ~already[p] =>
            at[p] \in journal \/ plan[at[p]].after = plan[at[p]].before

(* As long as nobody else moved what preview i was computed from, ...      *)
Quiet(i) == i \in 1 .. made /\ i \notin moved \cup torn \cup stale
(* ... the world is what it was computed from, or what applying it makes   *)
(* of that; ...                                                            *)
Calm(i) ==
    /\ revision = plan[i].from
    /\ text = plan[i].before \/ (text = plan[i].after /\ i \in saved)
    /\ view = plan[i].base \/ (text = plan[i].after /\ Digest(i) \in done)
    /\ \/ text = plan[i].before \/ Digest(i) \in done
       \/ \E p \in Procs : at[p] = i /\ pc[p] = "edited"
    /\ \/ text = plan[i].after \/ Digest(i) \notin done
       \/ \E p \in Procs : at[p] = i /\ pc[p] = "restored"
Undisturbed == \A i \in Ids : Quiet(i) => Calm(i)
(* ... and whoever applies it is as far as that shows.                     *)
Along(p) ==
    /\ pc[p] \in {"running", "edited"} => Digest(at[p]) \notin done
    /\ pc[p] \in {"ran", "undoing"} => Digest(at[p]) \in done
    /\ pc[p] \in {"edited", "ran", "undoing"} => text = plan[at[p]].after
    /\ pc[p] = "restored" => text = plan[at[p]].before
    /\ pc[p] \in {"undoing", "restored"} \/ (pc[p] = "ran" /\ ~already[p]) =>
          view = plan[at[p]].base
    /\ open[p].op # "none" => open[p].seen = view
    /\ pc[p] \in {"loaded", "checked", "based"} => shown[p] = text
InStep == \A p \in Procs : pc[p] # "idle" /\ Quiet(at[p]) => Along(p)

Landed == \A p \in Procs : outcome[p] = "refused" => ~Quiet(at[p])

Inv ==
    /\ TypeOK /\ Planned /\ Numbered /\ Told /\ Standing /\ Staged /\ Opened /\ Steadied
    /\ ~Shared => /\ Alone /\ Written /\ Undisturbed /\ InStep
                  /\ RefusedLeavesNothing /\ Landed

-----------------------------------------------------------------------------
(* What the values of the variables are, without what relates them.        *)

Shapes ==
    /\ open \in [Procs -> [op : {"apply", "rollback", "none"}, seen : Gens \cup {None}]]
    /\ made \in Nat /\ plan \in [Ids -> Plans]
    /\ pc \in [Procs -> Steps] /\ at \in [Procs -> Nat]
    /\ built \in [Procs -> Gens \cup {None}] /\ already \in [Procs -> BOOLEAN]
    /\ shown \in [Procs -> Texts] /\ steady \subseteq Procs
    /\ outcome \in [Procs -> Outcomes] /\ stands \in [Procs -> BOOLEAN]

LEMMA Shaped == TypeOK => Shapes
<1> SUFFICES ASSUME TypeOK PROVE Shapes
  OBVIOUS
<1>1. made \in Nat
  BY BoundsAssumption DEF TypeOK
<1>2. 0 .. made \subseteq Nat
  OBVIOUS
<1>3. at \in [Procs -> Nat]
  BY <1>2 DEF TypeOK
<1> QED  BY <1>1, <1>3
         DEF TypeOK, Shapes, Register!TypeOK, Register!GenOrNone, Register!Kinds

(* What a preview that was made plans.                                     *)
LEMMA Plain ==
  ASSUME TypeOK, NEW i \in 1 .. made
  PROVE  /\ i \in Ids /\ plan[i].before \in Texts /\ plan[i].after \in Texts
         /\ plan[i].from \in 0 .. MaxRevision /\ plan[i].base \in Gens \cup {None}
<1>1. i \in Ids
  BY BoundsAssumption DEF TypeOK, Ids
<1>2. plan[i] \in Plans
  BY <1>1 DEF TypeOK
<1> QED  BY <1>1, <1>2 DEF Plans

(* Whoever is at an application has such a preview.                        *)
Aimed(p) ==
    /\ at[p] \in 1 .. made /\ at[p] \in Ids
    /\ plan[at[p]].before \in Texts /\ plan[at[p]].after \in Texts
    /\ plan[at[p]].from \in 0 .. MaxRevision

LEMMA Aims ==
  ASSUME TypeOK, Numbered, NEW p \in Procs, pc[p] # "idle"
  PROVE  Aimed(p)
BY Plain DEF Aimed, Numbered

(* Who made the declarations what they are, as far as the history says.    *)
LEMMA Declares ==
  ASSUME NEW t, NEW who, Declare(t, who)
  PROVE  /\ stands' \in [Procs -> BOOLEAN] /\ (\A q \in Procs : stands'[q] <=> q \in who)
         /\ steady' = {q \in steady : pc[q] \in {"edited", "ran", "committed"}}
<1>1. \A q \in Procs : (q \in who) \in BOOLEAN
  OBVIOUS
<1>2. stands' = [q \in Procs |-> q \in who]
  BY DEF Declare
<1>3. steady' = {q \in steady : pc[q] \in {"edited", "ran", "committed"}}
  BY DEF Declare
<1> QED  BY <1>1, <1>2, <1>3, Zenon

(* What is undisturbed is a preview.                                       *)
LEMMA QuietIds == TypeOK => \A i : Quiet(i) => i \in Ids
BY BoundsAssumption DEF TypeOK, Quiet, Ids

-----------------------------------------------------------------------------
(* A preview, and the checks before its application.                      *)

LEMMA PreviewKeeps ==
  ASSUME Inv, NEW items \in Texts \ {{}}, Preview(items)
  PROVE  Inv'
<1>1. TypeOK /\ Shapes /\ Planned /\ Numbered /\ Told /\ Standing /\ Staged
      /\ Opened /\ Steadied
  BY Shaped DEF Inv
<1>2. ~Shared => /\ Alone /\ Written /\ Undisturbed /\ InStep
                 /\ RefusedLeavesNothing /\ Landed
  BY DEF Inv
<1>3. PICK n : n = made + 1
  OBVIOUS
<1>4. PICK v : v = [before |-> text, after |-> text \cup items, adds |-> items,
                    from |-> revision, base |-> view]
  OBVIOUS
<1>5. UNCHANGED <<view, undo, open, text, revision, saved, journal, done, pc, at,
                  shown, built, already, outcome, stands, steady, moved, torn,
                  applies, others, faults>>
  BY DEF Preview, register, store, local, bounds
<1>6. made \in Nat /\ n \in Ids /\ made' = n /\ n \in 0 .. MaxPlans /\ n \in 1 .. n
  BY <1>1, <1>3, BoundsAssumption DEF Preview, Shapes, Ids
<1>7. n \notin 1 .. made /\ 1 .. made \subseteq 1 .. n /\ 0 .. made \subseteq 0 .. n
      /\ (\A i \in 1 .. n : i \in 1 .. made \/ i = n)
  BY <1>3, <1>6
<1>8. text \in Texts /\ text \cup items \in Texts /\ items \in Texts
      /\ revision \in 0 .. MaxRevision /\ view \in Gens \cup {None}
  BY <1>1 DEF TypeOK, Register!TypeOK, Register!GenOrNone, Texts
<1>9. v \in Plans
  BY <1>4, <1>8 DEF Plans
<1>10. plan' = [plan EXCEPT ![n] = v]
  BY <1>3, <1>4, <1>6 DEF Preview
<1>11. plan' \in [Ids -> Plans]
  BY <1>1, <1>9, <1>10 DEF TypeOK
<1>12. plan'[n] = v /\ (\A i \in 1 .. made : plan'[i] = plan[i])
  BY <1>1, <1>6, <1>7, <1>10 DEF Shapes
<1>13. plan'[n].before = text /\ plan'[n].after = text \cup items /\ plan'[n].adds = items
       /\ plan'[n].from = revision /\ plan'[n].base = view
  BY <1>4, <1>12
<1>14. \A i \in 1 .. made : Digest(i)' = Digest(i)
  BY <1>12 DEF Digest
<1>15. stale \subseteq stale' /\ stale' \subseteq stale \cup {n}
  BY <1>6 DEF Preview
<1>16. n \notin stale' => text \cup items = text \/ Digest(n)' \notin done
  BY <1>6, <1>13 DEF Preview, Digest
<1>17. \A j : Quiet(j)' => (Quiet(j) /\ j \in 1 .. made) \/ j = n
  BY <1>5, <1>6, <1>7, <1>15 DEF Quiet
<1>18. \A q \in Procs : at[q] = 0 \/ at[q] \in 1 .. made
  BY <1>1, <1>6 DEF TypeOK
<1>19. TypeOK'
  <2>1. saved' \subseteq 1 .. made' /\ moved' \subseteq 1 .. made'
        /\ stale' \subseteq 1 .. made'
    BY <1>1, <1>5, <1>6, <1>7, <1>15 DEF TypeOK
  <2>2. done' \subseteq {Digest(i)' : i \in saved'}
    BY <1>1, <1>5, <1>14 DEF TypeOK
  <2>3. at' \in [Procs -> 0 .. made']
    BY <1>1, <1>5, <1>6, <1>7 DEF TypeOK
  <2> QED  BY <1>1, <1>5, <1>6, <1>11, <2>1, <2>2, <2>3
           DEF TypeOK, Register!TypeOK, Register!GenOrNone, Register!Kinds
<1>20. Planned'
  <2>1. revision <= revision
    BY <1>8, BoundsAssumption
  <2> QED  BY <1>1, <1>5, <1>6, <1>7, <1>12, <1>13, <2>1 DEF Planned
<1>21. Numbered' /\ Told' /\ Opened'
  BY <1>1, <1>5, <1>6, <1>7 DEF Numbered, Told, Opened
<1>22. Standing'
  BY <1>1, <1>5, <1>12, <1>18 DEF Standing
<1>23. Staged'
  BY <1>1, <1>5, <1>12 DEF Staged, Edits, Numbered
<1>steady. Steadied'
  BY <1>1, <1>5, <1>6, <1>7, <1>12
     DEF Steadied, Edits, Numbered
<1>24. ASSUME ~Shared
       PROVE  /\ Alone' /\ Written' /\ Undisturbed' /\ InStep'
              /\ RefusedLeavesNothing' /\ Landed'
  <2>1. Alone /\ Written /\ Undisturbed /\ InStep /\ RefusedLeavesNothing /\ Landed
    BY <1>2, <1>24
  <2>2. Alone'
    BY <2>1, <1>5 DEF Alone
  <2>3. Written'
    BY <2>1, <1>1, <1>5, <1>12 DEF Written, Numbered
  <2>4. ASSUME NEW j \in Ids, Quiet(j)'
        PROVE  Calm(j)'
    <3>1. CASE j = n
      <4>1. j \notin stale'
        BY <2>4 DEF Quiet
      <4> QED  BY <3>1, <4>1, <1>5, <1>13, <1>16 DEF Calm
    <3>2. CASE j # n
      <4>1. Quiet(j) /\ j \in 1 .. made /\ Calm(j)
        BY <1>17, <2>1, <2>4, <3>2 DEF Undisturbed
      <4> QED  BY <4>1, <1>5, <1>12, <1>14 DEF Calm
    <3> QED  BY <3>1, <3>2
  <2>5. Undisturbed'
    BY <2>4 DEF Undisturbed
  <2>6. ASSUME NEW q \in Procs, pc'[q] # "idle", Quiet(at[q])'
        PROVE  Along(q)'
    <3>1. pc[q] # "idle" /\ at[q] \in 1 .. made
      BY <1>1, <1>5, <2>6 DEF Numbered
    <3>2. Quiet(at[q]) /\ Along(q)
      BY <1>5, <1>7, <1>17, <2>1, <2>6, <3>1 DEF InStep
    <3> QED  BY <3>1, <3>2, <1>5, <1>12, <1>14 DEF Along
  <2>7. InStep'
    BY <2>6 DEF InStep
  <2>8. RefusedLeavesNothing'
    BY <2>1, <1>1, <1>5, <1>12 DEF RefusedLeavesNothing, LeavesNothing, Edits, Numbered
  <2>9. ASSUME NEW q \in Procs, outcome'[q] = "refused"
        PROVE  ~Quiet(at[q])'
    <3>1. at[q] \in 1 .. made
      BY <1>1, <1>5, <2>9 DEF Numbered
    <3> QED  BY <1>5, <1>7, <1>17, <2>1, <2>9, <3>1 DEF Landed
  <2>10. Landed'
    BY <2>9 DEF Landed
  <2> QED  BY <2>2, <2>3, <2>5, <2>7, <2>8, <2>10
<1> QED  BY <1>steady, <1>19, <1>20, <1>21, <1>22, <1>23, <1>24 DEF Inv

LEMMA RefreshKeeps ==
  ASSUME Inv, NEW p \in Procs, NEW i \in Ids, Refresh(p, i)
  PROVE  Inv'
<1>1. TypeOK /\ Shapes /\ Planned /\ Numbered /\ Told /\ Standing /\ Staged
      /\ Opened /\ Steadied
  BY Shaped DEF Inv
<1>2. ~Shared => /\ Alone /\ Written /\ Undisturbed /\ InStep
                 /\ RefusedLeavesNothing /\ Landed
  BY DEF Inv
<1>3. /\ pc[p] = "idle" /\ i \in 1 .. made /\ at'[p] = i /\ already'[p] = FALSE
      /\ stands'[p] = FALSE
      /\ Shared \/ \A q \in Procs : pc[q] = "idle" \/ at[q] # i
      /\ (\A q \in Procs : q # p => at'[q] = at[q] /\ already'[q] = already[q]
              /\ stands'[q] = stands[q] /\ outcome'[q] = outcome[q] /\ pc'[q] = pc[q]
              /\ shown'[q] = shown[q])
      /\ pc'[p] = "loaded" /\ outcome'[p] = "none"
      /\ shown'[p] = text /\ steady' = steady \cup {p}
      /\ UNCHANGED <<view, undo, open, text, revision, made, plan, saved, journal,
                     done, built, moved, torn, stale, others, faults>>
  BY <1>1 DEF Shapes, Refresh, Begin, Goto, register, previews, store, local, history,
     bounds
<1>4. \A j : Digest(j)' = Digest(j)
  BY <1>3 DEF Digest
<1>5. \A j : Quiet(j)' <=> Quiet(j)
  BY <1>3 DEF Quiet
<1>6. pc' \in [Procs -> Steps]
  BY <1>1, <1>3 DEF TypeOK, Steps, Refresh, Begin, Goto
<1>7. at' \in [Procs -> 0 .. made']
  BY <1>1, <1>3 DEF TypeOK, Refresh, Begin, Goto
<1>8. already' \in [Procs -> BOOLEAN]
  BY <1>1, <1>3 DEF TypeOK, Refresh, Begin, Goto
<1>9. outcome' \in [Procs -> Outcomes]
  BY <1>1, <1>3 DEF TypeOK, Outcomes, Refresh, Begin, Goto
<1>10. stands' \in [Procs -> BOOLEAN] /\ shown' \in [Procs -> Texts]
  BY <1>1, <1>3 DEF TypeOK, Texts, Refresh, Begin, Goto
<1>11. applies' \in 0 .. MaxApplies
  BY <1>1, BoundsAssumption DEF TypeOK, Refresh, Begin, Goto
<1>12. TypeOK'
  BY <1>1, <1>3, <1>4, <1>5, <1>6, <1>7, <1>8, <1>9, <1>10, <1>11 DEF TypeOK,
     Register!TypeOK, Register!GenOrNone, Register!Kinds
<1>13. Planned'
  BY <1>1, <1>3, <1>4, <1>5 DEF Planned
<1>14. Numbered'
  BY <1>1, <1>3, <1>4, <1>5 DEF Numbered
<1>15. Told'
  BY <1>1, <1>3, <1>4, <1>5 DEF Told
<1>16. Standing'
  BY <1>1, <1>3, <1>4, <1>5 DEF Standing
<1>17. Staged'
  BY <1>1, <1>3, <1>4, <1>5 DEF Staged, Edits
<1>18. Opened'
  BY <1>1, <1>3, <1>4, <1>5 DEF Opened
<1>steady. Steadied'
  BY <1>1, <1>3, <1>4, <1>5
     DEF Steadied, Edits, Numbered
<1>19. ASSUME ~Shared
      PROVE  /\ Alone' /\ Written' /\ Undisturbed' /\ InStep'
             /\ RefusedLeavesNothing' /\ Landed'
  <2> Alone /\ Written /\ Undisturbed /\ InStep /\ RefusedLeavesNothing /\ Landed
    BY <1>2, <1>19
  <2>1. Alone'
    BY <1>1, <1>3, <1>4, <1>5, <1>19 DEF Alone
  <2>2. Written'
    BY <1>1, <1>3, <1>4, <1>5 DEF Written
  <2>3. Undisturbed'
    BY <1>1, <1>3, <1>4, <1>5 DEF Undisturbed, Calm
  <2>4. InStep'
    BY <1>1, <1>3, <1>4, <1>5 DEF InStep, Along, Opened
  <2>5. RefusedLeavesNothing'
    BY <1>1, <1>3, <1>4, <1>5 DEF RefusedLeavesNothing, LeavesNothing, Edits
  <2>6. Landed'
    BY <1>1, <1>3, <1>4, <1>5 DEF Landed
  <2> QED  BY <2>1, <2>2, <2>3, <2>4, <2>5, <2>6
<1> QED  BY <1>steady, <1>12, <1>13, <1>14, <1>15, <1>16, <1>17, <1>18, <1>19 DEF Inv

LEMMA StaleSourcesKeeps ==
  ASSUME Inv, NEW p \in Procs, NEW i \in Ids, StaleSources(p, i)
  PROVE  Inv'
<1>1. TypeOK /\ Shapes /\ Planned /\ Numbered /\ Told /\ Standing /\ Staged
      /\ Opened /\ Steadied
  BY Shaped DEF Inv
<1>2. ~Shared => /\ Alone /\ Written /\ Undisturbed /\ InStep
                 /\ RefusedLeavesNothing /\ Landed
  BY DEF Inv
<1>3. /\ pc[p] = "idle" /\ i \in 1 .. made /\ at'[p] = i /\ already'[p] = FALSE
      /\ stands'[p] = FALSE
      /\ Shared \/ \A q \in Procs : pc[q] = "idle" \/ at[q] # i
      /\ (\A q \in Procs : q # p => at'[q] = at[q] /\ already'[q] = already[q]
              /\ stands'[q] = stands[q] /\ outcome'[q] = outcome[q])
      /\ outcome'[p] = "refused" /\ revision # plan[i].from
      /\ UNCHANGED <<view, undo, open, text, revision, made, plan, saved, journal,
                     done, pc, shown, built, steady, moved, torn, stale, others,
                     faults>>
  BY <1>1 DEF Shapes, StaleSources, Begin, Goto, register, previews, store, local,
     history, bounds
<1>4. \A j : Digest(j)' = Digest(j)
  BY <1>3 DEF Digest
<1>5. \A j : Quiet(j)' <=> Quiet(j)
  BY <1>3 DEF Quiet
<1>6. at' \in [Procs -> 0 .. made']
  BY <1>1, <1>3 DEF TypeOK, StaleSources, Begin, Goto
<1>7. already' \in [Procs -> BOOLEAN]
  BY <1>1, <1>3 DEF TypeOK, StaleSources, Begin, Goto
<1>8. outcome' \in [Procs -> Outcomes]
  BY <1>1, <1>3 DEF TypeOK, Outcomes, StaleSources, Begin, Goto
<1>9. stands' \in [Procs -> BOOLEAN]
  BY <1>1, <1>3 DEF TypeOK, StaleSources, Begin, Goto
<1>10. applies' \in 0 .. MaxApplies
  BY <1>1, BoundsAssumption DEF TypeOK, StaleSources, Begin, Goto
<1>11. TypeOK'
  BY <1>1, <1>3, <1>4, <1>5, <1>6, <1>7, <1>8, <1>9, <1>10 DEF TypeOK, Register!TypeOK,
     Register!GenOrNone, Register!Kinds
<1>12. Planned' /\ Opened'
  BY <1>1, <1>3, <1>4, <1>5 DEF Planned, Opened
<1>13. Numbered'
  BY <1>1, <1>3, <1>4, <1>5 DEF Numbered
<1>14. Told'
  BY <1>1, <1>3, <1>4, <1>5 DEF Told
<1>15. Standing'
  BY <1>1, <1>3, <1>4, <1>5 DEF Standing
<1>16. Staged'
  BY <1>1, <1>3, <1>4, <1>5 DEF Staged, Edits
<1>steady. Steadied'
  BY <1>1, <1>3, <1>4, <1>5
     DEF Steadied, Edits, Numbered
<1>17. ASSUME ~Shared
      PROVE  /\ Alone' /\ Written' /\ Undisturbed' /\ InStep'
             /\ RefusedLeavesNothing' /\ Landed'
  <2> Alone /\ Written /\ Undisturbed /\ InStep /\ RefusedLeavesNothing /\ Landed
    BY <1>2, <1>17
  <2>1. Alone'
    BY <1>1, <1>3, <1>4, <1>5, <1>17 DEF Alone
  <2>2. Written'
    BY <1>1, <1>3, <1>4, <1>5 DEF Written
  <2>3. Undisturbed'
    BY <1>1, <1>3, <1>4, <1>5 DEF Undisturbed, Calm
  <2>4. InStep'
    BY <1>1, <1>3, <1>4, <1>5 DEF InStep, Along
  <2>5. RefusedLeavesNothing'
    BY <1>1, <1>3, <1>4, <1>5 DEF RefusedLeavesNothing, LeavesNothing, Edits
  <2>6. Landed'
    <3>1. ~Quiet(i)
      BY <1>1, <1>3, <1>4, <1>5, QuietIds DEF Undisturbed, Calm
    <3> QED  BY <1>1, <1>3, <1>4, <1>5, <3>1 DEF Landed
  <2> QED  BY <2>1, <2>2, <2>3, <2>4, <2>5, <2>6
<1> QED  BY <1>steady, <1>11, <1>12, <1>13, <1>14, <1>15, <1>16, <1>17 DEF Inv

LEMMA CheckKeeps ==
  ASSUME Inv, NEW p \in Procs, Check(p)
  PROVE  Inv'
<1>1. TypeOK /\ Shapes /\ Planned /\ Numbered /\ Told /\ Standing /\ Staged
      /\ Opened /\ Steadied
  BY Shaped DEF Inv
<1>2. ~Shared => /\ Alone /\ Written /\ Undisturbed /\ InStep
                 /\ RefusedLeavesNothing /\ Landed
  BY DEF Inv
<1>3. /\ pc[p] = "loaded" /\ pc'[p] = "checked"
      /\ (\A q \in Procs : q # p => pc'[q] = pc[q])
      /\ UNCHANGED <<view, undo, open, text, revision, made, plan, saved, journal,
                     done, at, shown, built, already, outcome, stands, steady, moved,
                     torn, stale, applies, others, faults>>
  BY <1>1 DEF Shapes, Check, Goto, register, previews, store, local, history, bounds
<1>4. \A j : Digest(j)' = Digest(j)
  BY <1>3 DEF Digest
<1>5. \A j : Quiet(j)' <=> Quiet(j)
  BY <1>3 DEF Quiet
<1>7. pc' \in [Procs -> Steps]
  BY <1>1, <1>3 DEF TypeOK, Steps, Check, Goto
<1>8. TypeOK'
  BY <1>1, <1>3, <1>4, <1>5, <1>7 DEF TypeOK, Register!TypeOK, Register!GenOrNone,
     Register!Kinds
<1>9. Planned'
  BY <1>1, <1>3, <1>4, <1>5 DEF Planned
<1>10. Numbered'
  BY <1>1, <1>3, <1>4, <1>5 DEF Numbered
<1>11. Told'
  BY <1>1, <1>3, <1>4, <1>5 DEF Told
<1>12. Standing'
  BY <1>1, <1>3, <1>4, <1>5 DEF Standing
<1>13. Staged'
  BY <1>1, <1>3, <1>4, <1>5 DEF Staged, Edits
<1>14. Opened'
  BY <1>1, <1>3, <1>4, <1>5 DEF Opened
<1>steady. Steadied'
  BY <1>1, <1>3, <1>4, <1>5
     DEF Steadied, Edits, Numbered
<1>15. ASSUME ~Shared
      PROVE  /\ Alone' /\ Written' /\ Undisturbed' /\ InStep'
             /\ RefusedLeavesNothing' /\ Landed'
  <2> Alone /\ Written /\ Undisturbed /\ InStep /\ RefusedLeavesNothing /\ Landed
    BY <1>2, <1>15
  <2>1. Landed'
    BY <1>1, <1>3, <1>4, <1>5 DEF Landed
  <2>2. Alone'
    BY <1>1, <1>3, <1>4, <1>5 DEF Alone
  <2>3. Written'
    BY <1>1, <1>3, <1>4, <1>5 DEF Written
  <2>4. Undisturbed'
    BY <1>1, <1>3, <1>4, <1>5 DEF Undisturbed, Calm
  <2>5. InStep'
    BY <1>1, <1>3, <1>4, <1>5 DEF InStep, Along
  <2>6. RefusedLeavesNothing'
    BY <1>1, <1>3, <1>4, <1>5 DEF RefusedLeavesNothing, LeavesNothing, Edits
  <2> QED  BY <2>1, <2>2, <2>3, <2>4, <2>5, <2>6
<1> QED  BY <1>steady, <1>8, <1>9, <1>10, <1>11, <1>12, <1>13, <1>14, <1>15 DEF Inv

LEMMA StalePreviewKeeps ==
  ASSUME Inv, NEW p \in Procs, StalePreview(p)
  PROVE  Inv'
<1>1. TypeOK /\ Shapes /\ Planned /\ Numbered /\ Told /\ Standing /\ Staged
      /\ Opened /\ Steadied
  BY Shaped DEF Inv
<1>2. ~Shared => /\ Alone /\ Written /\ Undisturbed /\ InStep
                 /\ RefusedLeavesNothing /\ Landed
  BY DEF Inv
<1>3. /\ pc[p] = "loaded" /\ pc'[p] = "idle" /\ outcome'[p] = "refused"
      /\ built'[p] = None
      /\ ~(SameMaterial(at[p]) /\ Authorised(at[p]))
      /\ (\A q \in Procs : q # p => pc'[q] = pc[q] /\ outcome'[q] = outcome[q]
              /\ built'[q] = built[q] /\ shown'[q] = shown[q])
      /\ UNCHANGED <<view, undo, open, text, revision, made, plan, saved, journal,
                     done, at, already, stands, steady, moved, torn, stale, applies,
                     others, faults>>
  BY <1>1 DEF Shapes, StalePreview, End, Goto, register, previews, store, local,
     history, bounds
<1>4. \A j : Digest(j)' = Digest(j)
  BY <1>3 DEF Digest
<1>5. \A j : Quiet(j)' <=> Quiet(j)
  BY <1>3 DEF Quiet
<1>6. Aimed(p)
  BY <1>1, <1>3, Aims
<1>8. pc' \in [Procs -> Steps]
  BY <1>1, <1>3 DEF TypeOK, Steps, StalePreview, End, Goto
<1>9. built' \in [Procs -> Gens \cup {None}] /\ shown' \in [Procs -> Texts]
  BY <1>1, <1>3, <1>6 DEF TypeOK, Texts, StalePreview, End, Goto, Aimed
<1>10. outcome' \in [Procs -> Outcomes]
  BY <1>1, <1>3 DEF TypeOK, Outcomes, StalePreview, End, Goto
<1>11. TypeOK'
  BY <1>1, <1>3, <1>4, <1>5, <1>8, <1>9, <1>10 DEF TypeOK, Register!TypeOK,
     Register!GenOrNone, Register!Kinds
<1>12. Planned'
  BY <1>1, <1>3, <1>4, <1>5 DEF Planned
<1>13. Numbered'
  BY <1>1, <1>3, <1>4, <1>5 DEF Numbered
<1>14. Told'
  BY <1>1, <1>3, <1>4, <1>5 DEF Told
<1>15. Standing'
  BY <1>1, <1>3, <1>4, <1>5 DEF Standing
<1>16. Staged'
  BY <1>1, <1>3, <1>4, <1>5 DEF Staged, Edits
<1>17. Opened'
  BY <1>1, <1>3, <1>4, <1>5 DEF Opened
<1>steady. Steadied'
  BY <1>1, <1>3, <1>4, <1>5
     DEF Steadied, Edits, Numbered
<1>18. ASSUME ~Shared
      PROVE  /\ Alone' /\ Written' /\ Undisturbed' /\ InStep'
             /\ RefusedLeavesNothing' /\ Landed'
  <2> Alone /\ Written /\ Undisturbed /\ InStep /\ RefusedLeavesNothing /\ Landed
    BY <1>2, <1>18
  <2>1. Alone'
    BY <1>1, <1>3, <1>4, <1>5 DEF Alone
  <2>2. Written'
    BY <1>1, <1>3, <1>4, <1>5 DEF Written
  <2>3. Undisturbed'
    BY <1>1, <1>3, <1>4, <1>5 DEF Undisturbed, Calm
  <2>4. InStep'
    BY <1>1, <1>3, <1>4, <1>5 DEF InStep, Along
  <2>5. RefusedLeavesNothing'
    BY <1>1, <1>3, <1>4, <1>5 DEF RefusedLeavesNothing, LeavesNothing, Edits, Standing
  <2>6. Landed'
    <3>1. ~Quiet(at[p])
      BY <1>1, <1>3, <1>4, <1>5, <1>6
         DEF Aimed, Undisturbed, Calm, Planned, SameMaterial, Authorised
    <3> QED  BY <3>1, <1>1, <1>3, <1>4, <1>5 DEF Landed
  <2> QED  BY <2>1, <2>2, <2>3, <2>4, <2>5, <2>6
<1> QED  BY <1>steady, <1>11, <1>12, <1>13, <1>14, <1>15, <1>16, <1>17, <1>18 DEF Inv

LEMMA ReadBaseKeeps ==
  ASSUME Inv, NEW p \in Procs, ReadBase(p)
  PROVE  Inv'
<1>1. TypeOK /\ Shapes /\ Planned /\ Numbered /\ Told /\ Standing /\ Staged
      /\ Opened /\ Steadied
  BY Shaped DEF Inv
<1>2. ~Shared => /\ Alone /\ Written /\ Undisturbed /\ InStep
                 /\ RefusedLeavesNothing /\ Landed
  BY DEF Inv
<1>3. /\ pc[p] = "checked" /\ pc'[p] = "based" /\ open'[p].op = "apply"
      /\ open'[p].seen = view
      /\ (\A q \in Procs : q # p => pc'[q] = pc[q] /\ open'[q] = open[q])
      /\ UNCHANGED <<view, undo, text, revision, made, plan, saved, journal, done, at,
                     shown, built, already, outcome, stands, steady, moved, torn,
                     stale, applies, others, faults>>
  BY <1>1 DEF Shapes, ReadBase, Goto, Register!Start, Register!Closed, register,
     previews, store, local, history, bounds
<1>4. \A j : Digest(j)' = Digest(j)
  BY <1>3 DEF Digest
<1>5. \A j : Quiet(j)' <=> Quiet(j)
  BY <1>3 DEF Quiet
<1>6. open' \in [Procs -> [op : {"apply", "rollback", "none"}, seen : Gens \cup {None}]]
  BY <1>1, <1>3 DEF TypeOK, Register!TypeOK, Register!GenOrNone, Register!Kinds,
     ReadBase, Goto, Register!Start, Register!Closed
<1>7. pc' \in [Procs -> Steps]
  BY <1>1, <1>3 DEF TypeOK, Steps, ReadBase, Goto
<1>8. TypeOK'
  BY <1>1, <1>3, <1>4, <1>5, <1>6, <1>7 DEF TypeOK, Register!TypeOK, Register!GenOrNone,
     Register!Kinds
<1>9. Planned'
  BY <1>1, <1>3, <1>4, <1>5 DEF Planned
<1>10. Numbered'
  BY <1>1, <1>3, <1>4, <1>5 DEF Numbered
<1>11. Told'
  BY <1>1, <1>3, <1>4, <1>5 DEF Told
<1>12. Standing'
  BY <1>1, <1>3, <1>4, <1>5 DEF Standing
<1>13. Staged'
  BY <1>1, <1>3, <1>4, <1>5 DEF Staged, Edits
<1>14. Opened'
  BY <1>1, <1>3, <1>4, <1>5 DEF Opened
<1>steady. Steadied'
  BY <1>1, <1>3, <1>4, <1>5
     DEF Steadied, Edits, Numbered
<1>15. ASSUME ~Shared
      PROVE  /\ Alone' /\ Written' /\ Undisturbed' /\ InStep'
             /\ RefusedLeavesNothing' /\ Landed'
  <2> Alone /\ Written /\ Undisturbed /\ InStep /\ RefusedLeavesNothing /\ Landed
    BY <1>2, <1>15
  <2>1. Landed'
    BY <1>1, <1>3, <1>4, <1>5 DEF Landed
  <2>2. Alone'
    BY <1>1, <1>3, <1>4, <1>5 DEF Alone
  <2>3. Written'
    BY <1>1, <1>3, <1>4, <1>5 DEF Written
  <2>4. Undisturbed'
    BY <1>1, <1>3, <1>4, <1>5 DEF Undisturbed, Calm
  <2>5. InStep'
    BY <1>1, <1>3, <1>4, <1>5 DEF InStep, Along
  <2>6. RefusedLeavesNothing'
    BY <1>1, <1>3, <1>4, <1>5 DEF RefusedLeavesNothing, LeavesNothing, Edits
  <2> QED  BY <2>1, <2>2, <2>3, <2>4, <2>5, <2>6
<1> QED  BY <1>steady, <1>8, <1>9, <1>10, <1>11, <1>12, <1>13, <1>14, <1>15 DEF Inv

LEMMA BaseMovedKeeps ==
  ASSUME Inv, NEW p \in Procs, BaseMoved(p)
  PROVE  Inv'
<1>1. TypeOK /\ Shapes /\ Planned /\ Numbered /\ Told /\ Standing /\ Staged
      /\ Opened /\ Steadied
  BY Shaped DEF Inv
<1>2. ~Shared => /\ Alone /\ Written /\ Undisturbed /\ InStep
                 /\ RefusedLeavesNothing /\ Landed
  BY DEF Inv
<1>3. /\ pc[p] \in {"checked", "based"} /\ pc'[p] = "idle" /\ outcome'[p] = "refused"
      /\ built'[p] = None
      /\ open'[p].op = "none"
      /\ \/ pc[p] = "checked" /\ view # plan[at[p]].base /\ Resolved(p) # plan[at[p]].after
         \/ pc[p] = "based" /\ open[p].seen # view
      /\ (\A q \in Procs : q # p => pc'[q] = pc[q] /\ outcome'[q] = outcome[q]
              /\ built'[q] = built[q] /\ shown'[q] = shown[q] /\ open'[q] = open[q])
      /\ UNCHANGED <<view, undo, text, revision, made, plan, saved, journal, done, at,
                     already, stands, steady, moved, torn, stale, applies, others,
                     faults>>
  BY <1>1 DEF Shapes, BaseMoved, End, Goto, Register!Abandon, Register!Closed, register,
     previews, store, local, history, bounds
<1>4. \A j : Digest(j)' = Digest(j)
  BY <1>3 DEF Digest
<1>5. \A j : Quiet(j)' <=> Quiet(j)
  BY <1>3 DEF Quiet
<1>6. Aimed(p)
  BY <1>1, <1>3, Aims
<1>7. open' \in [Procs -> [op : {"apply", "rollback", "none"}, seen : Gens \cup {None}]]
  BY <1>1, <1>3 DEF TypeOK, Register!TypeOK, Register!GenOrNone, Register!Kinds,
     BaseMoved, End, Goto, Register!Abandon, Register!Closed
<1>8. pc' \in [Procs -> Steps]
  BY <1>1, <1>3 DEF TypeOK, Steps, BaseMoved, End, Goto
<1>9. built' \in [Procs -> Gens \cup {None}] /\ shown' \in [Procs -> Texts]
  BY <1>1, <1>3, <1>6 DEF TypeOK, Texts, BaseMoved, End, Goto, Aimed
<1>10. outcome' \in [Procs -> Outcomes]
  BY <1>1, <1>3 DEF TypeOK, Outcomes, BaseMoved, End, Goto
<1>11. TypeOK'
  BY <1>1, <1>3, <1>4, <1>5, <1>7, <1>8, <1>9, <1>10 DEF TypeOK, Register!TypeOK,
     Register!GenOrNone, Register!Kinds
<1>12. Planned'
  BY <1>1, <1>3, <1>4, <1>5 DEF Planned
<1>13. Numbered'
  BY <1>1, <1>3, <1>4, <1>5 DEF Numbered
<1>14. Told'
  BY <1>1, <1>3, <1>4, <1>5 DEF Told
<1>15. Standing'
  BY <1>1, <1>3, <1>4, <1>5 DEF Standing
<1>16. Staged'
  BY <1>1, <1>3, <1>4, <1>5 DEF Staged, Edits
<1>17. Opened'
  BY <1>1, <1>3, <1>4, <1>5 DEF Opened
<1>steady. Steadied'
  BY <1>1, <1>3, <1>4, <1>5
     DEF Steadied, Edits, Numbered
<1>18. ASSUME ~Shared
      PROVE  /\ Alone' /\ Written' /\ Undisturbed' /\ InStep'
             /\ RefusedLeavesNothing' /\ Landed'
  <2> Alone /\ Written /\ Undisturbed /\ InStep /\ RefusedLeavesNothing /\ Landed
    BY <1>2, <1>18
  <2>1. Alone'
    BY <1>1, <1>3, <1>4, <1>5 DEF Alone
  <2>2. Written'
    BY <1>1, <1>3, <1>4, <1>5 DEF Written
  <2>3. Undisturbed'
    BY <1>1, <1>3, <1>4, <1>5 DEF Undisturbed, Calm
  <2>4. InStep'
    BY <1>1, <1>3, <1>4, <1>5 DEF InStep, Along
  <2>5. RefusedLeavesNothing'
    BY <1>1, <1>3, <1>4, <1>5 DEF RefusedLeavesNothing, LeavesNothing, Edits, Standing
  <2>6. Landed'
    <3>1. shown[p] = text => Resolved(p) = text
      BY <1>1 DEF Resolved, Shapes, TypeOK, Texts
    <3>2. ~Quiet(at[p])
      BY <1>1, <1>3, <1>4, <1>5, <1>6, <3>1
         DEF Aimed, Undisturbed, Calm, Alone, InStep, Along, Opened
    <3> QED  BY <3>2, <1>1, <1>3, <1>4, <1>5 DEF Landed
  <2> QED  BY <2>1, <2>2, <2>3, <2>4, <2>5, <2>6
<1> QED  BY <1>steady, <1>11, <1>12, <1>13, <1>14, <1>15, <1>16, <1>17, <1>18 DEF Inv

LEMMA ReuseKeeps ==
  ASSUME Inv, NEW p \in Procs, Reuse(p)
  PROVE  Inv'
<1>1. TypeOK /\ Shapes /\ Planned /\ Numbered /\ Told /\ Standing /\ Staged
      /\ Opened /\ Steadied
  BY Shaped DEF Inv
<1>2. ~Shared => /\ Alone /\ Written /\ Undisturbed /\ InStep
                 /\ RefusedLeavesNothing /\ Landed
  BY DEF Inv
<1>3. /\ pc[p] = "based" /\ pc'[p] = "built"
      /\ built'[p] = Target(p)
      /\ open'[p].op = "none"
      /\ (\A q \in Procs : q # p => pc'[q] = pc[q] /\ open'[q] = open[q]
              /\ built'[q] = built[q] /\ shown'[q] = shown[q])
      /\ UNCHANGED <<view, undo, text, revision, made, plan, saved, journal, done, at,
                     already, outcome, stands, steady, moved, torn, stale, applies,
                     others, faults>>
  BY <1>1 DEF Shapes, Reuse, Goto, Register!Abandon, Register!Closed, register,
     previews, store, local, history, bounds
<1>4. \A j : Digest(j)' = Digest(j)
  BY <1>3 DEF Digest
<1>5. \A j : Quiet(j)' <=> Quiet(j)
  BY <1>3 DEF Quiet
<1>6. Aimed(p)
  BY <1>1, <1>3, Aims
<1>7. open' \in [Procs -> [op : {"apply", "rollback", "none"}, seen : Gens \cup {None}]]
  BY <1>1, <1>3 DEF TypeOK, Register!TypeOK, Register!GenOrNone, Register!Kinds, Reuse,
     Goto, Register!Abandon, Register!Closed
<1>8. pc' \in [Procs -> Steps]
  BY <1>1, <1>3 DEF TypeOK, Steps, Reuse, Goto, Target
<1>9. built' \in [Procs -> Gens \cup {None}] /\ shown' \in [Procs -> Texts]
  <2>1. Target(p) \in Gens
    BY <1>1, <1>6 DEF Aimed, TypeOK, Gens, Texts, Target, Resolved
  <2> QED  BY <1>1, <2>1 DEF TypeOK, Texts, Build, Reuse
<1>10. TypeOK'
  BY <1>1, <1>3, <1>4, <1>5, <1>7, <1>8, <1>9 DEF TypeOK, Register!TypeOK,
     Register!GenOrNone, Register!Kinds
<1>11. Planned'
  BY <1>1, <1>3, <1>4, <1>5 DEF Planned
<1>12. Numbered'
  BY <1>1, <1>3, <1>4, <1>5 DEF Numbered
<1>13. Told'
  BY <1>1, <1>3, <1>4, <1>5 DEF Told
<1>14. Standing'
  BY <1>1, <1>3, <1>4, <1>5 DEF Standing
<1>15. Staged'
  <2>1. Target(p) \in Gens
    BY <1>1, <1>6 DEF Aimed, TypeOK, Gens, Texts, Target, Resolved
  <2>2. revision \in Nat /\ plan[at[p]].from <= revision
    BY <1>1, <1>6, BoundsAssumption DEF Aimed, TypeOK, Planned
  <2> QED  BY <1>1, <1>3, <1>4, <1>5, <2>1, <2>2 DEF Staged, Edits, Target
<1>16. Opened'
  BY <1>1, <1>3, <1>4, <1>5 DEF Opened
<1>steady. Steadied'
  <2>1. shown[p] = text => Resolved(p) = text
    BY <1>1 DEF Resolved, Shapes, TypeOK, Texts
  <2>2. Edits(at[p]) \/ Target(p).declares = Resolved(p)
    BY DEF Target
  <2> QED  BY <1>1, <1>3, <2>1, <2>2 DEF Steadied, Edits
<1>17. ASSUME ~Shared
      PROVE  /\ Alone' /\ Written' /\ Undisturbed' /\ InStep'
             /\ RefusedLeavesNothing' /\ Landed'
  <2> Alone /\ Written /\ Undisturbed /\ InStep /\ RefusedLeavesNothing /\ Landed
    BY <1>2, <1>17
  <2>1. Landed'
    BY <1>1, <1>3, <1>4, <1>5 DEF Landed
  <2>2. Alone'
    BY <1>1, <1>3, <1>4, <1>5 DEF Alone
  <2>3. Written'
    BY <1>1, <1>3, <1>4, <1>5 DEF Written
  <2>4. Undisturbed'
    BY <1>1, <1>3, <1>4, <1>5 DEF Undisturbed, Calm
  <2>5. InStep'
    BY <1>1, <1>3, <1>4, <1>5 DEF InStep, Along
  <2>6. RefusedLeavesNothing'
    BY <1>1, <1>3, <1>4, <1>5 DEF RefusedLeavesNothing, LeavesNothing, Edits
  <2> QED  BY <2>1, <2>2, <2>3, <2>4, <2>5, <2>6
<1> QED  BY <1>steady, <1>10, <1>11, <1>12, <1>13, <1>14, <1>15, <1>16, <1>17 DEF Inv

LEMMA BuildKeeps ==
  ASSUME Inv, NEW p \in Procs, Build(p)
  PROVE  Inv'
<1>1. TypeOK /\ Shapes /\ Planned /\ Numbered /\ Told /\ Standing /\ Staged
      /\ Opened /\ Steadied
  BY Shaped DEF Inv
<1>2. ~Shared => /\ Alone /\ Written /\ Undisturbed /\ InStep
                 /\ RefusedLeavesNothing /\ Landed
  BY DEF Inv
<1>3. /\ pc[p] = "based" /\ pc'[p] = "built"
      /\ built'[p] = Target(p)
      /\ (\A q \in Procs : q # p => pc'[q] = pc[q] /\ built'[q] = built[q]
              /\ shown'[q] = shown[q])
      /\ UNCHANGED <<view, undo, open, text, revision, made, plan, saved, journal,
                     done, at, already, outcome, stands, steady, moved, torn, stale,
                     applies, others, faults>>
  BY <1>1 DEF Shapes, Build, Goto, register, previews, store, local, history, bounds
<1>4. \A j : Digest(j)' = Digest(j)
  BY <1>3 DEF Digest
<1>5. \A j : Quiet(j)' <=> Quiet(j)
  BY <1>3 DEF Quiet
<1>6. Aimed(p)
  BY <1>1, <1>3, Aims
<1>7. pc' \in [Procs -> Steps]
  BY <1>1, <1>3 DEF TypeOK, Steps, Build, Goto, Target
<1>8. built' \in [Procs -> Gens \cup {None}] /\ shown' \in [Procs -> Texts]
  <2>1. Target(p) \in Gens
    BY <1>1, <1>6 DEF Aimed, TypeOK, Gens, Texts, Target, Resolved
  <2> QED  BY <1>1, <2>1 DEF TypeOK, Texts, Build, Reuse
<1>9. TypeOK'
  BY <1>1, <1>3, <1>4, <1>5, <1>7, <1>8 DEF TypeOK, Register!TypeOK, Register!GenOrNone,
     Register!Kinds
<1>10. Planned'
  BY <1>1, <1>3, <1>4, <1>5 DEF Planned
<1>11. Numbered'
  BY <1>1, <1>3, <1>4, <1>5 DEF Numbered
<1>12. Told'
  BY <1>1, <1>3, <1>4, <1>5 DEF Told
<1>13. Standing'
  BY <1>1, <1>3, <1>4, <1>5 DEF Standing
<1>14. Staged'
  <2>1. Target(p) \in Gens
    BY <1>1, <1>6 DEF Aimed, TypeOK, Gens, Texts, Target, Resolved
  <2>2. revision \in Nat /\ plan[at[p]].from <= revision
    BY <1>1, <1>6, BoundsAssumption DEF Aimed, TypeOK, Planned
  <2> QED  BY <1>1, <1>3, <1>4, <1>5, <2>1, <2>2 DEF Staged, Edits, Target
<1>15. Opened'
  BY <1>1, <1>3, <1>4, <1>5 DEF Opened
<1>steady. Steadied'
  <2>1. shown[p] = text => Resolved(p) = text
    BY <1>1 DEF Resolved, Shapes, TypeOK, Texts
  <2>2. Edits(at[p]) \/ Target(p).declares = Resolved(p)
    BY DEF Target
  <2> QED  BY <1>1, <1>3, <2>1, <2>2 DEF Steadied, Edits
<1>16. ASSUME ~Shared
      PROVE  /\ Alone' /\ Written' /\ Undisturbed' /\ InStep'
             /\ RefusedLeavesNothing' /\ Landed'
  <2> Alone /\ Written /\ Undisturbed /\ InStep /\ RefusedLeavesNothing /\ Landed
    BY <1>2, <1>16
  <2>1. Landed'
    BY <1>1, <1>3, <1>4, <1>5 DEF Landed
  <2>2. Alone'
    BY <1>1, <1>3, <1>4, <1>5 DEF Alone
  <2>3. Written'
    BY <1>1, <1>3, <1>4, <1>5 DEF Written
  <2>4. Undisturbed'
    BY <1>1, <1>3, <1>4, <1>5 DEF Undisturbed, Calm
  <2>5. InStep'
    BY <1>1, <1>3, <1>4, <1>5 DEF InStep, Along
  <2>6. RefusedLeavesNothing'
    BY <1>1, <1>3, <1>4, <1>5 DEF RefusedLeavesNothing, LeavesNothing, Edits
  <2> QED  BY <2>1, <2>2, <2>3, <2>4, <2>5, <2>6
<1> QED  BY <1>steady, <1>9, <1>10, <1>11, <1>12, <1>13, <1>14, <1>15, <1>16 DEF Inv

-----------------------------------------------------------------------------
(* The run of the procedure.                                              *)

LEMMA RunSatisfiedKeeps ==
  ASSUME Inv, NEW p \in Procs, RunSatisfied(p)
  PROVE  Inv'
<1>1. TypeOK /\ Shapes /\ Planned /\ Numbered /\ Told /\ Standing /\ Staged
      /\ Opened /\ Steadied
  BY Shaped DEF Inv
<1>2. ~Shared => /\ Alone /\ Written /\ Undisturbed /\ InStep
                 /\ RefusedLeavesNothing /\ Landed
  BY DEF Inv
<1>3. /\ pc[p] = "built" /\ saved' = saved \cup {at[p]} /\ Digest(at[p]) \in done
      /\ pc'[p] \in {"ran", "committed"}
      /\ pc'[p] = IF open[p].op = "none" THEN "committed" ELSE "ran"
      /\ text = plan[at[p]].after /\ revision = plan[at[p]].from
      /\ already'[p] = TRUE /\ stands'[p] = TRUE
      /\ (\A q \in Procs : q # p => pc'[q] = pc[q] /\ already'[q] = already[q]
              /\ stands'[q] = stands[q])
      /\ UNCHANGED <<view, undo, open, text, revision, made, plan, journal, done, at,
                     shown, built, outcome, steady, moved, torn, stale, applies,
                     others, faults>>
  BY <1>1 DEF Shapes, RunSatisfied, Satisfied, Goto, AfterRun, Reused, register,
     previews, store, local, history, bounds
<1>4. \A j : Digest(j)' = Digest(j)
  BY <1>3 DEF Digest
<1>5. \A j : Quiet(j)' <=> Quiet(j)
  BY <1>3 DEF Quiet
<1>6. Aimed(p)
  BY <1>1, <1>3, Aims
<1>7. saved' \subseteq 1 .. made'
  BY <1>1, <1>3, <1>6 DEF TypeOK, Numbered, RunSatisfied, Satisfied, Goto, AfterRun,
     Reused, Aimed
<1>8. pc' \in [Procs -> Steps]
  BY <1>1, <1>3 DEF TypeOK, Steps, RunSatisfied, Satisfied, Goto, AfterRun, Reused
<1>9. already' \in [Procs -> BOOLEAN]
  BY <1>1, <1>3 DEF TypeOK, RunSatisfied, Satisfied, Goto, AfterRun, Reused
<1>10. stands' \in [Procs -> BOOLEAN]
  BY <1>1, <1>3 DEF TypeOK, RunSatisfied, Satisfied, Goto, AfterRun, Reused
<1>11. TypeOK'
  BY <1>1, <1>3, <1>4, <1>5, <1>7, <1>8, <1>9, <1>10 DEF TypeOK, Register!TypeOK,
     Register!GenOrNone, Register!Kinds
<1>12. Planned'
  BY <1>1, <1>3, <1>4, <1>5 DEF Planned
<1>13. Numbered'
  BY <1>1, <1>3, <1>4, <1>5 DEF Numbered
<1>14. Told'
  BY <1>1, <1>3, <1>4, <1>5 DEF Told
<1>15. Standing'
  BY <1>1, <1>3, <1>4, <1>5 DEF Standing
<1>16. Staged'
  <2>1. built[p] \in Gens
    BY <1>1, <1>3 DEF Staged, Edits
  <2>2. built[p].from \in Nat /\ revision \in Nat /\ plan[at[p]].from \in Nat
    BY <1>1, <2>1, <1>6, BoundsAssumption DEF Aimed, Gens, TypeOK
  <2> QED  BY <1>1, <1>3, <1>4, <1>5, <2>2 DEF Staged, Edits
<1>17. Opened'
  BY <1>1, <1>3, <1>4, <1>5 DEF Opened
<1>steady. Steadied'
  BY <1>1, <1>3, <1>4, <1>5
     DEF Steadied, Edits, Numbered
<1>18. ASSUME ~Shared
      PROVE  /\ Alone' /\ Written' /\ Undisturbed' /\ InStep'
             /\ RefusedLeavesNothing' /\ Landed'
  <2> Alone /\ Written /\ Undisturbed /\ InStep /\ RefusedLeavesNothing /\ Landed
    BY <1>2, <1>18
  <2>1. Landed'
    BY <1>1, <1>3, <1>4, <1>5 DEF Landed
  <2>2. Alone'
    BY <1>1, <1>3, <1>4, <1>5 DEF Alone
  <2>3. Written'
    BY <1>1, <1>3, <1>4, <1>5 DEF Written
  <2>4. Undisturbed'
    BY <1>1, <1>3, <1>4, <1>5 DEF Undisturbed, Calm
  <2>5. InStep'
    BY <1>1, <1>3, <1>4, <1>5 DEF InStep, Along
  <2>6. RefusedLeavesNothing'
    BY <1>1, <1>3, <1>4, <1>5 DEF RefusedLeavesNothing, LeavesNothing, Edits
  <2> QED  BY <2>1, <2>2, <2>3, <2>4, <2>5, <2>6
<1> QED  BY <1>steady, <1>11, <1>12, <1>13, <1>14, <1>15, <1>16, <1>17, <1>18 DEF Inv

LEMMA RunDriftedKeeps ==
  ASSUME Inv, NEW p \in Procs, RunDrifted(p)
  PROVE  Inv'
<1>1. TypeOK /\ Shapes /\ Planned /\ Numbered /\ Told /\ Standing /\ Staged
      /\ Opened /\ Steadied
  BY Shaped DEF Inv
<1>2. ~Shared => /\ Alone /\ Written /\ Undisturbed /\ InStep
                 /\ RefusedLeavesNothing /\ Landed
  BY DEF Inv
<1>3. /\ pc[p] = "built" /\ pc'[p] = "idle" /\ outcome'[p] = "refused" /\ built'[p] = None
      /\ open'[p].op = "none"
      /\ saved' = saved \cup {at[p]} /\ Digest(at[p]) \in done
      /\ ~(text = plan[at[p]].after /\ revision = plan[at[p]].from)
      /\ (\A q \in Procs : q # p => pc'[q] = pc[q] /\ outcome'[q] = outcome[q]
              /\ built'[q] = built[q] /\ shown'[q] = shown[q] /\ open'[q] = open[q])
      /\ UNCHANGED <<view, undo, text, revision, made, plan, journal, done, at,
                     already, stands, steady, moved, torn, stale, applies, others,
                     faults>>
  BY <1>1 DEF Shapes, RunDrifted, Satisfied, End, Goto, Register!Abandon,
     Register!Closed, register, previews, store, local, history, bounds
<1>4. \A j : Digest(j)' = Digest(j)
  BY <1>3 DEF Digest
<1>5. \A j : Quiet(j)' <=> Quiet(j)
  BY <1>3 DEF Quiet
<1>6. Aimed(p)
  BY <1>1, <1>3, Aims
<1>7. open' \in [Procs -> [op : {"apply", "rollback", "none"}, seen : Gens \cup {None}]]
  BY <1>1, <1>3 DEF TypeOK, Register!TypeOK, Register!GenOrNone, Register!Kinds,
     RunDrifted, Satisfied, End, Goto, Register!Abandon, Register!Closed
<1>8. saved' \subseteq 1 .. made'
  BY <1>1, <1>3, <1>6 DEF TypeOK, Numbered, RunDrifted, Satisfied, End, Goto, Aimed
<1>9. pc' \in [Procs -> Steps]
  BY <1>1, <1>3 DEF TypeOK, Steps, RunDrifted, Satisfied, End, Goto
<1>10. built' \in [Procs -> Gens \cup {None}] /\ shown' \in [Procs -> Texts]
  BY <1>1, <1>3, <1>6 DEF TypeOK, Texts, RunDrifted, Satisfied, End, Goto, Aimed
<1>11. outcome' \in [Procs -> Outcomes]
  BY <1>1, <1>3 DEF TypeOK, Outcomes, RunDrifted, Satisfied, End, Goto
<1>12. TypeOK'
  BY <1>1, <1>3, <1>4, <1>5, <1>7, <1>8, <1>9, <1>10, <1>11 DEF TypeOK, Register!TypeOK,
     Register!GenOrNone, Register!Kinds
<1>13. Planned'
  BY <1>1, <1>3, <1>4, <1>5 DEF Planned
<1>14. Numbered'
  BY <1>1, <1>3, <1>4, <1>5 DEF Numbered
<1>15. Told'
  BY <1>1, <1>3, <1>4, <1>5 DEF Told
<1>16. Standing'
  BY <1>1, <1>3, <1>4, <1>5 DEF Standing
<1>17. Staged'
  BY <1>1, <1>3, <1>4, <1>5 DEF Staged, Edits
<1>18. Opened'
  BY <1>1, <1>3, <1>4, <1>5 DEF Opened
<1>steady. Steadied'
  BY <1>1, <1>3, <1>4, <1>5
     DEF Steadied, Edits, Numbered
<1>19. ASSUME ~Shared
      PROVE  /\ Alone' /\ Written' /\ Undisturbed' /\ InStep'
             /\ RefusedLeavesNothing' /\ Landed'
  <2> Alone /\ Written /\ Undisturbed /\ InStep /\ RefusedLeavesNothing /\ Landed
    BY <1>2, <1>19
  <2>1. Alone'
    BY <1>1, <1>3, <1>4, <1>5 DEF Alone
  <2>2. Written'
    BY <1>1, <1>3, <1>4, <1>5 DEF Written
  <2>3. Undisturbed'
    BY <1>1, <1>3, <1>4, <1>5 DEF Undisturbed, Calm
  <2>4. InStep'
    BY <1>1, <1>3, <1>4, <1>5 DEF InStep, Along
  <2>5. RefusedLeavesNothing'
    BY <1>1, <1>3, <1>4, <1>5 DEF RefusedLeavesNothing, LeavesNothing, Edits, Standing
  <2>6. Landed'
    <3>1. ~Quiet(at[p])
      BY <1>1, <1>3, <1>4, <1>5, <1>6 DEF Aimed, Undisturbed, Calm, Alone
    <3> QED  BY <3>1, <1>1, <1>3, <1>4, <1>5 DEF Landed
  <2> QED  BY <2>1, <2>2, <2>3, <2>4, <2>5, <2>6
<1> QED  BY <1>steady, <1>12, <1>13, <1>14, <1>15, <1>16, <1>17, <1>18, <1>19 DEF Inv

LEMMA RunStartKeeps ==
  ASSUME Inv, NEW p \in Procs, RunStart(p)
  PROVE  Inv'
<1>1. TypeOK /\ Shapes /\ Planned /\ Numbered /\ Told /\ Standing /\ Staged
      /\ Opened /\ Steadied
  BY Shaped DEF Inv
<1>2. ~Shared => /\ Alone /\ Written /\ Undisturbed /\ InStep
                 /\ RefusedLeavesNothing /\ Landed
  BY DEF Inv
<1>3. /\ pc[p] = "built" /\ pc'[p] = "running" /\ saved' = saved \cup {at[p]}
      /\ Digest(at[p]) \notin done /\ revision = plan[at[p]].from
      /\ (\A q \in Procs : q # p => pc'[q] = pc[q])
      /\ UNCHANGED <<view, undo, open, text, revision, made, plan, journal, done, at,
                     shown, built, already, outcome, stands, steady, moved, torn,
                     stale, applies, others, faults>>
  BY <1>1 DEF Shapes, RunStart, Goto, register, previews, store, local, history, bounds
<1>4. \A j : Digest(j)' = Digest(j)
  BY <1>3 DEF Digest
<1>5. \A j : Quiet(j)' <=> Quiet(j)
  BY <1>3 DEF Quiet
<1>6. Aimed(p)
  BY <1>1, <1>3, Aims
<1>7. saved' \subseteq 1 .. made'
  BY <1>1, <1>3, <1>6 DEF TypeOK, Numbered, RunStart, Goto, Aimed
<1>8. pc' \in [Procs -> Steps]
  BY <1>1, <1>3 DEF TypeOK, Steps, RunStart, Goto
<1>9. TypeOK'
  BY <1>1, <1>3, <1>4, <1>5, <1>7, <1>8 DEF TypeOK, Register!TypeOK, Register!GenOrNone,
     Register!Kinds
<1>10. Planned'
  BY <1>1, <1>3, <1>4, <1>5 DEF Planned
<1>11. Numbered'
  BY <1>1, <1>3, <1>4, <1>5 DEF Numbered
<1>12. Told'
  BY <1>1, <1>3, <1>4, <1>5 DEF Told
<1>13. Standing'
  BY <1>1, <1>3, <1>4, <1>5 DEF Standing
<1>14. Staged'
  <2>1. built[p] \in Gens
    BY <1>1, <1>3 DEF Staged, Edits
  <2>2. built[p].from \in Nat /\ revision \in Nat /\ plan[at[p]].from \in Nat
    BY <1>1, <2>1, <1>6, BoundsAssumption DEF Aimed, Gens, TypeOK
  <2> QED  BY <1>1, <1>3, <1>4, <1>5, <2>2 DEF Staged, Edits
<1>15. Opened'
  BY <1>1, <1>3, <1>4, <1>5 DEF Opened
<1>steady. Steadied'
  BY <1>1, <1>3, <1>4, <1>5
     DEF Steadied, Edits, Numbered
<1>16. ASSUME ~Shared
      PROVE  /\ Alone' /\ Written' /\ Undisturbed' /\ InStep'
             /\ RefusedLeavesNothing' /\ Landed'
  <2> Alone /\ Written /\ Undisturbed /\ InStep /\ RefusedLeavesNothing /\ Landed
    BY <1>2, <1>16
  <2>1. Landed'
    BY <1>1, <1>3, <1>4, <1>5 DEF Landed
  <2>2. Alone'
    BY <1>1, <1>3, <1>4, <1>5 DEF Alone
  <2>3. Written'
    BY <1>1, <1>3, <1>4, <1>5 DEF Written
  <2>4. Undisturbed'
    BY <1>1, <1>3, <1>4, <1>5 DEF Undisturbed, Calm
  <2>5. InStep'
    BY <1>1, <1>3, <1>4, <1>5 DEF InStep, Along
  <2>6. RefusedLeavesNothing'
    BY <1>1, <1>3, <1>4, <1>5 DEF RefusedLeavesNothing, LeavesNothing, Edits
  <2> QED  BY <2>1, <2>2, <2>3, <2>4, <2>5, <2>6
<1> QED  BY <1>steady, <1>9, <1>10, <1>11, <1>12, <1>13, <1>14, <1>15, <1>16 DEF Inv

LEMMA RunRefusedKeeps ==
  ASSUME Inv, NEW p \in Procs, RunRefused(p)
  PROVE  Inv'
<1>1. TypeOK /\ Shapes /\ Planned /\ Numbered /\ Told /\ Standing /\ Staged
      /\ Opened /\ Steadied
  BY Shaped DEF Inv
<1>2. ~Shared => /\ Alone /\ Written /\ Undisturbed /\ InStep
                 /\ RefusedLeavesNothing /\ Landed
  BY DEF Inv
<1>3. /\ pc[p] \in {"built", "running"} /\ pc'[p] = "idle" /\ outcome'[p] = "refused"
      /\ built'[p] = None
      /\ open'[p].op = "none"
      /\ saved' = saved \cup {at[p]} /\ journal' = journal \ {at[p]}
      /\ \/ pc[p] = "built" /\ Digest(at[p]) \notin done /\ revision # plan[at[p]].from
         \/ pc[p] = "running" /\ text # plan[at[p]].before
      /\ (\A q \in Procs : q # p => pc'[q] = pc[q] /\ outcome'[q] = outcome[q]
              /\ built'[q] = built[q] /\ shown'[q] = shown[q] /\ open'[q] = open[q])
      /\ UNCHANGED <<view, undo, text, revision, made, plan, done, at, already,
                     stands, steady, moved, torn, stale, applies, others, faults>>
  BY <1>1 DEF Shapes, RunRefused, End, Goto, Register!Abandon, Register!Closed, register,
     previews, store, local, history, bounds
<1>4. \A j : Digest(j)' = Digest(j)
  BY <1>3 DEF Digest
<1>5. \A j : Quiet(j)' <=> Quiet(j)
  BY <1>3 DEF Quiet
<1>6. Aimed(p)
  BY <1>1, <1>3, Aims
<1>7. open' \in [Procs -> [op : {"apply", "rollback", "none"}, seen : Gens \cup {None}]]
  BY <1>1, <1>3 DEF TypeOK, Register!TypeOK, Register!GenOrNone, Register!Kinds,
     RunRefused, End, Goto, Register!Abandon, Register!Closed
<1>8. saved' \subseteq 1 .. made'
  BY <1>1, <1>3, <1>6 DEF TypeOK, Numbered, RunRefused, End, Goto, Aimed
<1>9. journal' \subseteq saved'
  BY <1>1, <1>3, <1>6 DEF TypeOK, Numbered, RunRefused, End, Goto, Aimed
<1>10. pc' \in [Procs -> Steps]
  BY <1>1, <1>3 DEF TypeOK, Steps, RunRefused, End, Goto
<1>11. built' \in [Procs -> Gens \cup {None}] /\ shown' \in [Procs -> Texts]
  BY <1>1, <1>3, <1>6 DEF TypeOK, Texts, RunRefused, End, Goto, Aimed
<1>12. outcome' \in [Procs -> Outcomes]
  BY <1>1, <1>3 DEF TypeOK, Outcomes, RunRefused, End, Goto
<1>13. TypeOK'
  BY <1>1, <1>3, <1>4, <1>5, <1>7, <1>8, <1>9, <1>10, <1>11, <1>12 DEF TypeOK,
     Register!TypeOK, Register!GenOrNone, Register!Kinds
<1>14. Planned'
  BY <1>1, <1>3, <1>4, <1>5 DEF Planned
<1>15. Numbered'
  BY <1>1, <1>3, <1>4, <1>5 DEF Numbered
<1>16. Told'
  BY <1>1, <1>3, <1>4, <1>5 DEF Told
<1>17. Standing'
  BY <1>1, <1>3, <1>4, <1>5 DEF Standing
<1>18. Staged'
  BY <1>1, <1>3, <1>4, <1>5 DEF Staged, Edits
<1>19. Opened'
  BY <1>1, <1>3, <1>4, <1>5 DEF Opened
<1>steady. Steadied'
  BY <1>1, <1>3, <1>4, <1>5
     DEF Steadied, Edits, Numbered
<1>20. ASSUME ~Shared
      PROVE  /\ Alone' /\ Written' /\ Undisturbed' /\ InStep'
             /\ RefusedLeavesNothing' /\ Landed'
  <2> Alone /\ Written /\ Undisturbed /\ InStep /\ RefusedLeavesNothing /\ Landed
    BY <1>2, <1>20
  <2>1. Alone'
    BY <1>1, <1>3, <1>4, <1>5 DEF Alone
  <2>2. Written'
    BY <1>1, <1>3, <1>4, <1>5 DEF Written, Alone
  <2>3. Undisturbed'
    BY <1>1, <1>3, <1>4, <1>5 DEF Undisturbed, Calm
  <2>4. InStep'
    BY <1>1, <1>3, <1>4, <1>5 DEF InStep, Along
  <2>5. RefusedLeavesNothing'
    BY <1>1, <1>3, <1>4, <1>5 DEF RefusedLeavesNothing, LeavesNothing, Edits, Standing
  <2>6. Landed'
    <3>1. ~Quiet(at[p])
      BY <1>1, <1>3, <1>4, <1>5, <1>6 DEF Aimed, Undisturbed, Calm, Alone, InStep, Along
    <3> QED  BY <3>1, <1>1, <1>3, <1>4, <1>5 DEF Landed
  <2> QED  BY <2>1, <2>2, <2>3, <2>4, <2>5, <2>6
<1> QED  BY <1>steady, <1>13, <1>14, <1>15, <1>16, <1>17, <1>18, <1>19, <1>20 DEF Inv

LEMMA EditNothingKeeps ==
  ASSUME Inv, NEW p \in Procs, Edit(p), ~Edits(at[p])
  PROVE  Inv'
<1>1. TypeOK /\ Shapes /\ Planned /\ Numbered /\ Told /\ Standing /\ Staged
      /\ Opened /\ Steadied
  BY Shaped DEF Inv
<1>2. ~Shared => /\ Alone /\ Written /\ Undisturbed /\ InStep
                 /\ RefusedLeavesNothing /\ Landed
  BY DEF Inv
<1>3. /\ pc[p] = "running" /\ pc'[p] = "edited" /\ text = plan[at[p]].before
      /\ plan[at[p]].after = text
      /\ stands'[p] = TRUE
      /\ (\A q \in Procs : q # p => pc'[q] = pc[q] /\ stands'[q] = stands[q])
      /\ UNCHANGED <<view, undo, open, text, revision, made, plan, saved, journal,
                     done, at, shown, built, already, outcome, steady, moved, torn,
                     stale, applies, others, faults>>
  BY <1>1 DEF Shapes, Edit, Edits, Goto, register, previews, store, local, history, bounds
<1>4. \A j : Digest(j)' = Digest(j)
  BY <1>3 DEF Digest
<1>5. \A j : Quiet(j)' <=> Quiet(j)
  BY <1>3 DEF Quiet
<1>6. pc' \in [Procs -> Steps]
  BY <1>1, <1>3 DEF TypeOK, Steps, Edit, Goto
<1>7. stands' \in [Procs -> BOOLEAN]
  BY <1>1, <1>3 DEF TypeOK, Edit, Goto
<1>8. TypeOK'
  BY <1>1, <1>3, <1>4, <1>5, <1>6, <1>7 DEF TypeOK, Register!TypeOK, Register!GenOrNone,
     Register!Kinds
<1>9. Planned'
  BY <1>1, <1>3, <1>4, <1>5 DEF Planned
<1>10. Numbered'
  BY <1>1, <1>3, <1>4, <1>5 DEF Numbered
<1>11. Told'
  BY <1>1, <1>3, <1>4, <1>5 DEF Told
<1>12. Standing'
  BY <1>1, <1>3, <1>4, <1>5 DEF Standing
<1>13. Staged'
  BY <1>1, <1>3, <1>4, <1>5 DEF Staged, Edits
<1>14. Opened'
  BY <1>1, <1>3, <1>4, <1>5 DEF Opened
<1>steady. Steadied'
  BY <1>1, <1>3, <1>4, <1>5
     DEF Steadied, Edits, Numbered
<1>15. ASSUME ~Shared
      PROVE  /\ Alone' /\ Written' /\ Undisturbed' /\ InStep'
             /\ RefusedLeavesNothing' /\ Landed'
  <2> Alone /\ Written /\ Undisturbed /\ InStep /\ RefusedLeavesNothing /\ Landed
    BY <1>2, <1>15
  <2>1. Landed'
    BY <1>1, <1>3, <1>4, <1>5 DEF Landed
  <2>2. Alone'
    BY <1>1, <1>3, <1>4, <1>5 DEF Alone
  <2>3. Written'
    BY <1>1, <1>3, <1>4, <1>5 DEF Written
  <2>4. Undisturbed'
    BY <1>1, <1>3, <1>4, <1>5 DEF Undisturbed, Calm
  <2>5. InStep'
    BY <1>1, <1>3, <1>4, <1>5 DEF InStep, Along
  <2>6. RefusedLeavesNothing'
    BY <1>1, <1>3, <1>4, <1>5 DEF RefusedLeavesNothing, LeavesNothing, Edits
  <2> QED  BY <2>1, <2>2, <2>3, <2>4, <2>5, <2>6
<1> QED  BY <1>steady, <1>8, <1>9, <1>10, <1>11, <1>12, <1>13, <1>14, <1>15 DEF Inv

LEMMA EditWritesKeeps ==
  ASSUME Inv, NEW p \in Procs, Edit(p), Edits(at[p])
  PROVE  Inv'
<1>1. TypeOK /\ Shapes /\ Planned /\ Numbered /\ Told /\ Standing /\ Staged
      /\ Opened /\ Steadied
  BY Shaped DEF Inv
<1>2. ~Shared => /\ Alone /\ Written /\ Undisturbed /\ InStep
                 /\ RefusedLeavesNothing /\ Landed
  BY DEF Inv
<1>3. pc[p] = "running" /\ pc'[p] = "edited" /\ text = plan[at[p]].before
      /\ text' = plan[at[p]].after
  BY <1>1 DEF Shapes, Edit, Goto, Declare, Moved, register, previews, store, local,
     history, bounds
<1>4. journal' = journal \cup {at[p]} /\ moved' = moved \cup (1 .. made \ {at[p]})
  BY <1>1 DEF Shapes, Edit, Goto, Declare, Moved, register, previews, store, local,
     history, bounds
<1>5. (\A q \in Procs : stands'[q] <=> q = p)
      /\ steady' = {q \in steady : pc[q] \in {"edited", "ran", "committed"}}
  BY <1>1 DEF Shapes, Edit, Goto, Declare, Moved, register, previews, store, local,
     history, bounds
<1>6. \A q \in Procs : q # p => pc'[q] = pc[q]
  BY <1>1 DEF Shapes, Edit, Goto, Declare, Moved, register, previews, store, local,
     history, bounds
<1>7. UNCHANGED <<view, undo, open, revision, made, plan, saved, done, at, shown,
                  built, already, outcome, torn, stale, applies, others, faults>>
  BY <1>1 DEF Shapes, Edit, Goto, Declare, Moved, register, previews, store, local,
     history, bounds
<1>8. \A j : Digest(j)' = Digest(j)
  BY <1>3, <1>4, <1>5, <1>6, <1>7 DEF Digest
<1>9. \A j : Quiet(j)' => Quiet(j) /\ j = at[p]
  BY <1>1, <1>3, <1>4, <1>5, <1>6, <1>7 DEF Quiet, Moved, Numbered
<1>10. Aimed(p)
  BY <1>1, <1>3, <1>4, <1>5, <1>6, <1>7, Aims
<1>11. text' \in Texts
  BY <1>1, <1>3, <1>4, <1>5, <1>6, <1>7, <1>10 DEF TypeOK, Texts, Edit, Goto, Declare,
     Moved, Aimed
<1>12. journal' \subseteq saved'
  BY <1>1, <1>3, <1>4, <1>5, <1>6, <1>7, <1>10 DEF TypeOK, Numbered, Edit, Goto, Declare,
     Moved, Aimed
<1>13. pc' \in [Procs -> Steps]
  BY <1>1, <1>3, <1>4, <1>5, <1>6, <1>7 DEF TypeOK, Steps, Edit, Goto, Declare, Moved
<1>14. stands' \in [Procs -> BOOLEAN]
  BY Declares DEF Edit
<1>15. moved' \subseteq 1 .. made'
  BY <1>1, <1>3, <1>4, <1>5, <1>6, <1>7 DEF TypeOK, Edit, Goto, Declare, Moved
<1>16. TypeOK'
  BY <1>1, <1>3, <1>4, <1>5, <1>6, <1>7, <1>8, <1>9, <1>11, <1>12, <1>13, <1>14,
     <1>15 DEF TypeOK, Register!TypeOK, Register!GenOrNone, Register!Kinds
<1>17. Planned'
  BY <1>1, <1>3, <1>4, <1>5, <1>6, <1>7, <1>8, <1>9 DEF Planned
<1>18. Numbered'
  BY <1>1, <1>3, <1>4, <1>5, <1>6, <1>7, <1>8, <1>9 DEF Numbered
<1>19. Told'
  BY <1>1, <1>3, <1>4, <1>5, <1>6, <1>7, <1>8, <1>9 DEF Told
<1>20. Standing'
  BY <1>1, <1>3, <1>4, <1>5, <1>6, <1>7, <1>8, <1>9 DEF Standing
<1>21. Staged'
  BY <1>1, <1>3, <1>4, <1>5, <1>6, <1>7, <1>8, <1>9 DEF Staged, Edits
<1>22. Opened'
  BY <1>1, <1>3, <1>4, <1>5, <1>6, <1>7, <1>8, <1>9 DEF Opened
<1>steady. Steadied'
  BY <1>1, <1>3, <1>4, <1>5, <1>6, <1>7, <1>8, <1>9
     DEF Steadied, Edits, Numbered
<1>23. ASSUME ~Shared
      PROVE  /\ Alone' /\ Written' /\ Undisturbed' /\ InStep'
             /\ RefusedLeavesNothing' /\ Landed'
  <2> Alone /\ Written /\ Undisturbed /\ InStep /\ RefusedLeavesNothing /\ Landed
    BY <1>2, <1>23
  <2>1. Alone'
    BY <1>1, <1>3, <1>4, <1>5, <1>6, <1>7, <1>8, <1>9 DEF Alone
  <2>2. Written'
    BY <1>1, <1>3, <1>4, <1>5, <1>6, <1>7, <1>8, <1>9 DEF Written
  <2>3. Undisturbed'
    <3>1. ASSUME NEW j \in Ids, Quiet(j)'
          PROVE  Calm(j)'
      <4>1. j = at[p] /\ Quiet(j) /\ Calm(j)
        BY <3>1, <1>3, <1>4, <1>5, <1>6, <1>7, <1>8, <1>9 DEF Undisturbed
      <4> QED  BY <1>1, <1>3, <1>4, <1>5, <1>6, <1>7, <1>8, <1>9, <4>1
               DEF Calm, Numbered, Alone, InStep, Along
    <3> QED  BY <3>1 DEF Undisturbed
  <2>4. InStep'
    <3>1. ASSUME NEW q \in Procs, pc'[q] # "idle", Quiet(at[q])'
          PROVE  Along(q)'
      <4>1. pc[q] # "idle" /\ at[q] = at[p] /\ Quiet(at[q])
        BY <1>1, <3>1, <1>3, <1>4, <1>5, <1>6, <1>7, <1>8, <1>9 DEF Alone
      <4>2. q = p
        BY <1>1, <4>1, <1>3, <1>4, <1>5, <1>6, <1>7, <1>8, <1>9 DEF Alone
      <4>3. Along(p) /\ Calm(at[p])
        BY <1>1, <4>1, <4>2, QuietIds, <1>3, <1>4, <1>5, <1>6, <1>7, <1>8, <1>9
           DEF Undisturbed, InStep
      <4> QED  BY <1>1, <1>3, <1>4, <1>5, <1>6, <1>7, <1>8, <1>9, <4>2, <4>3
               DEF Calm, Along, Opened, Staged, Alone
    <3> QED  BY <3>1 DEF InStep
  <2>5. RefusedLeavesNothing'
    BY <1>1, <1>3, <1>4, <1>5, <1>6, <1>7, <1>8, <1>9 DEF RefusedLeavesNothing,
       LeavesNothing, Edits
  <2>6. Landed'
    BY <1>1, <1>3, <1>4, <1>5, <1>6, <1>7, <1>8, <1>9 DEF Landed
  <2> QED  BY <2>1, <2>2, <2>3, <2>4, <2>5, <2>6
<1> QED  BY <1>steady, <1>16, <1>17, <1>18, <1>19, <1>20, <1>21, <1>22, <1>23 DEF Inv

LEMMA MarkKeeps ==
  ASSUME Inv, NEW p \in Procs, Mark(p)
  PROVE  Inv'
<1>1. TypeOK /\ Shapes /\ Planned /\ Numbered /\ Told /\ Standing /\ Staged
      /\ Opened /\ Steadied
  BY Shaped DEF Inv
<1>2. ~Shared => /\ Alone /\ Written /\ Undisturbed /\ InStep
                 /\ RefusedLeavesNothing /\ Landed
  BY DEF Inv
<1>3. /\ pc[p] = "edited" /\ done' = done \cup {Digest(at[p])}
      /\ moved' = moved \cup {j \in 1 .. made \ {at[p]} : Digest(j) = Digest(at[p])}
      /\ pc'[p] \in {"ran", "committed"}
      /\ pc'[p] = IF open[p].op = "none" THEN "committed" ELSE "ran"
      /\ (\A q \in Procs : q # p => pc'[q] = pc[q])
      /\ UNCHANGED <<view, undo, open, text, revision, made, plan, saved, journal, at,
                     shown, built, already, outcome, stands, steady, torn, stale,
                     applies, others, faults>>
  BY <1>1 DEF Shapes, Mark, Goto, MarkerMoved, AfterRun, Reused, register, previews,
     store, local, history, bounds
<1>4. \A j : Digest(j)' = Digest(j)
  BY <1>3 DEF Digest
<1>5. \A j : Quiet(j)' => Quiet(j) /\ (j = at[p] \/ Digest(j) # Digest(at[p]))
  BY <1>1, <1>3 DEF Quiet, Numbered
<1>6. Aimed(p)
  BY <1>1, <1>3, Aims
<1>7. done' \subseteq {Digest(j)' : j \in saved'}
  BY <1>1, <1>3, <1>4, <1>5, <1>6 DEF TypeOK, Numbered, Mark, Goto, MarkerMoved,
     AfterRun, Reused, Aimed
<1>8. pc' \in [Procs -> Steps]
  BY <1>1, <1>3 DEF TypeOK, Steps, Mark, Goto, MarkerMoved, AfterRun, Reused
<1>9. moved' \subseteq 1 .. made'
  BY <1>1, <1>3 DEF TypeOK, Mark, Goto, MarkerMoved, AfterRun, Reused
<1>10. TypeOK'
  BY <1>1, <1>3, <1>4, <1>5, <1>7, <1>8, <1>9 DEF TypeOK, Register!TypeOK,
     Register!GenOrNone, Register!Kinds
<1>11. Planned'
  BY <1>1, <1>3, <1>4, <1>5 DEF Planned
<1>12. Numbered'
  BY <1>1, <1>3, <1>4, <1>5 DEF Numbered
<1>13. Told'
  BY <1>1, <1>3, <1>4, <1>5 DEF Told
<1>14. Standing'
  BY <1>1, <1>3, <1>4, <1>5 DEF Standing
<1>15. Staged'
  BY <1>1, <1>3, <1>4, <1>5 DEF Staged, Edits
<1>16. Opened'
  BY <1>1, <1>3, <1>4, <1>5 DEF Opened
<1>steady. Steadied'
  BY <1>1, <1>3, <1>4, <1>5
     DEF Steadied, Edits, Numbered
<1>17. ASSUME ~Shared
      PROVE  /\ Alone' /\ Written' /\ Undisturbed' /\ InStep'
             /\ RefusedLeavesNothing' /\ Landed'
  <2> Alone /\ Written /\ Undisturbed /\ InStep /\ RefusedLeavesNothing /\ Landed
    BY <1>2, <1>17
  <2>1. Alone'
    BY <1>1, <1>3, <1>4, <1>5 DEF Alone
  <2>2. Written'
    BY <1>1, <1>3, <1>4, <1>5 DEF Written
  <2>3. Undisturbed'
    <3>1. ASSUME NEW j \in Ids, Quiet(j)'
          PROVE  Calm(j)'
      <4>1. Quiet(j) /\ Calm(j) /\ (j = at[p] \/ Digest(j) # Digest(at[p]))
        BY <3>1, <1>3, <1>4, <1>5 DEF Undisturbed
      <4>2. CASE j = at[p]
        BY <1>1, <1>3, <1>4, <1>5, <4>1, <4>2 DEF Calm, Alone, InStep, Along, Numbered
      <4>3. CASE j # at[p]
        BY <1>1, <1>3, <1>4, <1>5, <4>1, <4>3 DEF Calm
      <4> QED  BY <4>2, <4>3
    <3> QED  BY <3>1 DEF Undisturbed
  <2>4. InStep'
    <3>1. ASSUME NEW q \in Procs, pc'[q] # "idle", Quiet(at[q])'
          PROVE  Along(q)'
      <4>1. pc[q] # "idle" /\ Quiet(at[q]) /\ Along(q)
            /\ (at[q] = at[p] \/ Digest(at[q]) # Digest(at[p]))
        BY <1>1, <3>1, <1>3, <1>4, <1>5 DEF InStep
      <4>2. CASE q = p
        <5>1. Calm(at[p])
          BY <4>1, <4>2, <1>1, QuietIds DEF Undisturbed
        <5> QED  BY <1>1, <1>3, <1>4, <1>5, <4>1, <4>2, <5>1, <3>1 DEF Along, Opened, Calm
      <4>3. CASE q # p
        BY <1>1, <1>3, <1>4, <1>5, <4>1, <4>3 DEF Along, Alone
      <4> QED  BY <4>2, <4>3
    <3> QED  BY <3>1 DEF InStep
  <2>5. RefusedLeavesNothing'
    BY <1>1, <1>3, <1>4, <1>5 DEF RefusedLeavesNothing, LeavesNothing, Edits
  <2>6. Landed'
    BY <1>1, <1>3, <1>4, <1>5 DEF Landed
  <2> QED  BY <2>1, <2>2, <2>3, <2>4, <2>5, <2>6
<1> QED  BY <1>steady, <1>10, <1>11, <1>12, <1>13, <1>14, <1>15, <1>16, <1>17 DEF Inv

LEMMA MarkFailUnwrittenKeeps ==
  ASSUME Inv, NEW p \in Procs, MarkFail(p),
         ~Edits(at[p]) \/ text = plan[at[p]].before
  PROVE  Inv'
<1>1. TypeOK /\ Shapes /\ Planned /\ Numbered /\ Told /\ Standing /\ Staged
      /\ Opened /\ Steadied
  BY Shaped DEF Inv
<1>2. ~Shared => /\ Alone /\ Written /\ Undisturbed /\ InStep
                 /\ RefusedLeavesNothing /\ Landed
  BY DEF Inv
<1>3. /\ pc[p] = "edited" /\ pc'[p] = "idle" /\ outcome'[p] = "failed" /\ built'[p] = None
      /\ open'[p].op = "none"
      /\ journal' = journal \ {at[p]}
      /\ text = plan[at[p]].before \/ plan[at[p]].after = plan[at[p]].before
      /\ (\A q \in Procs : q # p => pc'[q] = pc[q] /\ outcome'[q] = outcome[q]
              /\ built'[q] = built[q] /\ shown'[q] = shown[q] /\ open'[q] = open[q])
      /\ UNCHANGED <<view, undo, text, revision, made, plan, saved, done, at, already,
                     stands, steady, moved, torn, stale, applies, others>>
  BY <1>1 DEF Shapes, MarkFail, Edits, Fault, End, Goto, Register!Abandon, Register!Closed,
     register, previews, store, local, history, bounds
<1>4. \A j : Digest(j)' = Digest(j)
  BY <1>3 DEF Digest
<1>5. \A j : Quiet(j)' <=> Quiet(j)
  BY <1>3 DEF Quiet
<1>6. Aimed(p)
  BY <1>1, <1>3, Aims
<1>7. open' \in [Procs -> [op : {"apply", "rollback", "none"}, seen : Gens \cup {None}]]
  BY <1>1, <1>3 DEF TypeOK, Register!TypeOK, Register!GenOrNone, Register!Kinds,
     MarkFail, Fault, End, Goto, Register!Abandon, Register!Closed
<1>8. journal' \subseteq saved'
  BY <1>1, <1>3, <1>6 DEF TypeOK, Numbered, MarkFail, Fault, End, Goto, Aimed
<1>9. pc' \in [Procs -> Steps]
  BY <1>1, <1>3 DEF TypeOK, Steps, MarkFail, Fault, End, Goto
<1>10. built' \in [Procs -> Gens \cup {None}] /\ shown' \in [Procs -> Texts]
  BY <1>1, <1>3, <1>6 DEF TypeOK, Texts, MarkFail, Fault, End, Goto, Aimed
<1>11. outcome' \in [Procs -> Outcomes]
  BY <1>1, <1>3 DEF TypeOK, Outcomes, MarkFail, Fault, End, Goto
<1>12. faults' \in 0 .. MaxFaults
  BY <1>1, BoundsAssumption DEF TypeOK, MarkFail, Fault, End, Goto, Register!Abandon,
     Register!Closed
<1>13. TypeOK'
  BY <1>1, <1>3, <1>4, <1>5, <1>7, <1>8, <1>9, <1>10, <1>11, <1>12 DEF TypeOK,
     Register!TypeOK, Register!GenOrNone, Register!Kinds
<1>14. Planned'
  BY <1>1, <1>3, <1>4, <1>5 DEF Planned
<1>15. Numbered'
  BY <1>1, <1>3, <1>4, <1>5 DEF Numbered
<1>16. Told'
  BY <1>1, <1>3, <1>4, <1>5 DEF Told
<1>17. Standing'
  BY <1>1, <1>3, <1>4, <1>5 DEF Standing
<1>18. Staged'
  BY <1>1, <1>3, <1>4, <1>5 DEF Staged, Edits
<1>19. Opened'
  BY <1>1, <1>3, <1>4, <1>5 DEF Opened
<1>steady. Steadied'
  BY <1>1, <1>3, <1>4, <1>5
     DEF Steadied, Edits, Numbered
<1>20. ASSUME ~Shared
      PROVE  /\ Alone' /\ Written' /\ Undisturbed' /\ InStep'
             /\ RefusedLeavesNothing' /\ Landed'
  <2> Alone /\ Written /\ Undisturbed /\ InStep /\ RefusedLeavesNothing /\ Landed
    BY <1>2, <1>20
  <2>1. Alone'
    BY <1>1, <1>3, <1>4, <1>5 DEF Alone
  <2>2. Written'
    BY <1>1, <1>3, <1>4, <1>5 DEF Written, Alone
  <2>3. Undisturbed'
    BY <1>1, <1>3, <1>4, <1>5 DEF Undisturbed, Calm
  <2>4. InStep'
    BY <1>1, <1>3, <1>4, <1>5 DEF InStep, Along
  <2>5. RefusedLeavesNothing'
    BY <1>1, <1>3, <1>4, <1>5 DEF RefusedLeavesNothing, LeavesNothing, Edits, Standing,
       Numbered
  <2>6. Landed'
    BY <1>1, <1>3, <1>4, <1>5 DEF Landed
  <2> QED  BY <2>1, <2>2, <2>3, <2>4, <2>5, <2>6
<1> QED  BY <1>steady, <1>13, <1>14, <1>15, <1>16, <1>17, <1>18, <1>19, <1>20 DEF Inv

LEMMA MarkFailUndoneKeeps ==
  ASSUME Inv, NEW p \in Procs, MarkFail(p),
         Edits(at[p]), text # plan[at[p]].before
  PROVE  Inv'
<1>1. TypeOK /\ Shapes /\ Planned /\ Numbered /\ Told /\ Standing /\ Staged
      /\ Opened /\ Steadied
  BY Shaped DEF Inv
<1>2. ~Shared => /\ Alone /\ Written /\ Undisturbed /\ InStep
                 /\ RefusedLeavesNothing /\ Landed
  BY DEF Inv
<1>3. pc[p] = "edited" /\ pc'[p] = "idle" /\ outcome'[p] = "failed" /\ built'[p] = None
  BY <1>1 DEF Shapes, MarkFail, Fault, Declare, Moved, End, Goto, Register!Abandon,
     Register!Closed, register, previews, store, local, history, bounds
<1>4. open'[p].op = "none"
  BY <1>1 DEF Shapes, MarkFail, Fault, Declare, Moved, End, Goto, Register!Abandon,
     Register!Closed, register, previews, store, local, history, bounds
<1>5. journal' = journal \ {at[p]}
  BY <1>1 DEF Shapes, MarkFail, Fault, Declare, Moved, End, Goto, Register!Abandon,
     Register!Closed, register, previews, store, local, history, bounds
<1>6. text # plan[at[p]].before /\ text' = plan[at[p]].before
  BY <1>1 DEF Shapes, MarkFail, Fault, Declare, Moved, End, Goto, Register!Abandon,
     Register!Closed, register, previews, store, local, history, bounds
<1>7. moved' = moved \cup (1 .. made \ {at[p]})
  BY <1>1 DEF Shapes, MarkFail, Fault, Declare, Moved, End, Goto, Register!Abandon,
     Register!Closed, register, previews, store, local, history, bounds
<1>8. (\A q \in Procs : ~stands'[q])
      /\ steady' = {q \in steady : pc[q] \in {"edited", "ran", "committed"}}
  BY <1>1 DEF Shapes, MarkFail, Fault, Declare, Moved, End, Goto, Register!Abandon,
     Register!Closed, register, previews, store, local, history, bounds
<1>9. \A q \in Procs : q # p => pc'[q] = pc[q] /\ outcome'[q] = outcome[q]
      /\ built'[q] = built[q] /\ shown'[q] = shown[q] /\ open'[q] = open[q]
  BY <1>1 DEF Shapes, MarkFail, Fault, Declare, Moved, End, Goto, Register!Abandon,
     Register!Closed, register, previews, store, local, history, bounds
<1>10. UNCHANGED <<view, undo, revision, made, plan, saved, done, at, already, torn,
                   stale, applies, others>>
  BY <1>1 DEF Shapes, MarkFail, Fault, Declare, Moved, End, Goto, Register!Abandon,
     Register!Closed, register, previews, store, local, history, bounds
<1>11. \A j : Digest(j)' = Digest(j)
  BY <1>3, <1>4, <1>5, <1>6, <1>7, <1>8, <1>9, <1>10 DEF Digest
<1>12. \A j : Quiet(j)' => Quiet(j) /\ j = at[p]
  BY <1>1, <1>3, <1>4, <1>5, <1>6, <1>7, <1>8, <1>9, <1>10 DEF Quiet, Moved, Numbered
<1>13. Aimed(p)
  BY <1>1, <1>3, <1>4, <1>5, <1>6, <1>7, <1>8, <1>9, <1>10, Aims
<1>14. open' \in [Procs -> [op : {"apply", "rollback", "none"}, seen : Gens \cup {None}]]
  BY <1>1, <1>3, <1>4, <1>5, <1>6, <1>7, <1>8, <1>9, <1>10 DEF TypeOK, Register!TypeOK,
     Register!GenOrNone, Register!Kinds, MarkFail, Fault, Declare, Moved, End, Goto,
     Register!Abandon, Register!Closed
<1>15. text' \in Texts
  BY <1>1, <1>3, <1>4, <1>5, <1>6, <1>7, <1>8, <1>9, <1>10, <1>13 DEF TypeOK, Texts,
     MarkFail, Fault, Declare, Moved, End, Goto, Aimed
<1>16. journal' \subseteq saved'
  BY <1>1, <1>3, <1>4, <1>5, <1>6, <1>7, <1>8, <1>9, <1>10, <1>13 DEF TypeOK, Numbered,
     MarkFail, Fault, Declare, Moved, End, Goto, Aimed
<1>17. pc' \in [Procs -> Steps]
  BY <1>1, <1>3, <1>4, <1>5, <1>6, <1>7, <1>8, <1>9, <1>10 DEF TypeOK, Steps, MarkFail,
     Fault, Declare, Moved, End, Goto
<1>18. built' \in [Procs -> Gens \cup {None}] /\ shown' \in [Procs -> Texts]
  BY <1>1, <1>3, <1>4, <1>5, <1>6, <1>7, <1>8, <1>9, <1>10, <1>13 DEF TypeOK, Texts,
     MarkFail,
     Fault, Declare, Moved, End, Goto, Aimed
<1>19. outcome' \in [Procs -> Outcomes]
  BY <1>1, <1>3, <1>4, <1>5, <1>6, <1>7, <1>8, <1>9, <1>10 DEF TypeOK, Outcomes,
     MarkFail, Fault, Declare, Moved, End, Goto
<1>20. stands' \in [Procs -> BOOLEAN]
  BY Declares DEF MarkFail
<1>21. moved' \subseteq 1 .. made'
  BY <1>1, <1>3, <1>4, <1>5, <1>6, <1>7, <1>8, <1>9, <1>10 DEF TypeOK, MarkFail, Fault,
     Declare, Moved, End, Goto
<1>22. faults' \in 0 .. MaxFaults
  BY <1>1, BoundsAssumption DEF TypeOK, MarkFail, Fault, Declare, Moved, End, Goto,
     Register!Abandon, Register!Closed
<1>23. TypeOK'
  BY <1>1, <1>3, <1>4, <1>5, <1>6, <1>7, <1>8, <1>9, <1>10, <1>11, <1>12, <1>14, <1>15,
     <1>16, <1>17, <1>18, <1>19, <1>20, <1>21, <1>22 DEF TypeOK, Register!TypeOK,
     Register!GenOrNone, Register!Kinds
<1>24. Planned'
  BY <1>1, <1>3, <1>4, <1>5, <1>6, <1>7, <1>8, <1>9, <1>10, <1>11, <1>12 DEF Planned
<1>25. Numbered'
  BY <1>1, <1>3, <1>4, <1>5, <1>6, <1>7, <1>8, <1>9, <1>10, <1>11, <1>12 DEF Numbered
<1>26. Told'
  BY <1>1, <1>3, <1>4, <1>5, <1>6, <1>7, <1>8, <1>9, <1>10, <1>11, <1>12 DEF Told
<1>27. Standing'
  BY <1>1, <1>3, <1>4, <1>5, <1>6, <1>7, <1>8, <1>9, <1>10, <1>11, <1>12 DEF Standing
<1>28. Staged'
  BY <1>1, <1>3, <1>4, <1>5, <1>6, <1>7, <1>8, <1>9, <1>10, <1>11, <1>12 DEF Staged, Edits
<1>29. Opened'
  BY <1>1, <1>3, <1>4, <1>5, <1>6, <1>7, <1>8, <1>9, <1>10, <1>11, <1>12 DEF Opened
<1>steady. Steadied'
  BY <1>1, <1>3, <1>4, <1>5, <1>6, <1>7, <1>8, <1>9, <1>10, <1>11, <1>12
     DEF Steadied, Edits, Numbered
<1>30. ASSUME ~Shared
      PROVE  /\ Alone' /\ Written' /\ Undisturbed' /\ InStep'
             /\ RefusedLeavesNothing' /\ Landed'
  <2> Alone /\ Written /\ Undisturbed /\ InStep /\ RefusedLeavesNothing /\ Landed
    BY <1>2, <1>30
  <2>1. Alone'
    BY <1>1, <1>3, <1>4, <1>5, <1>6, <1>7, <1>8, <1>9, <1>10, <1>11, <1>12 DEF Alone
  <2>2. Written'
    BY <1>1, <1>3, <1>4, <1>5, <1>6, <1>7, <1>8, <1>9, <1>10, <1>11, <1>12 DEF Written
  <2>3. Undisturbed'
    <3>1. ASSUME NEW j \in Ids, Quiet(j)'
          PROVE  Calm(j)'
      <4>1. j = at[p] /\ Quiet(j) /\ Calm(j)
        BY <3>1, <1>3, <1>4, <1>5, <1>6, <1>7, <1>8, <1>9, <1>10, <1>11, <1>12
           DEF Undisturbed
      <4> QED  BY <1>1, <1>3, <1>4, <1>5, <1>6, <1>7, <1>8, <1>9, <1>10, <1>11, <1>12, <4>1
               DEF Calm, Numbered, Alone, InStep, Along
    <3> QED  BY <3>1 DEF Undisturbed
  <2>4. InStep'
    <3>1. ASSUME NEW q \in Procs, pc'[q] # "idle", Quiet(at[q])'
          PROVE  Along(q)'
      <4>1. pc[q] # "idle" /\ at[q] = at[p] /\ Quiet(at[q])
        BY <1>1, <3>1, <1>3, <1>4, <1>5, <1>6, <1>7, <1>8, <1>9, <1>10, <1>11, <1>12
           DEF Alone
      <4>2. q = p
        BY <1>1, <4>1, <1>3, <1>4, <1>5, <1>6, <1>7, <1>8, <1>9, <1>10, <1>11, <1>12
           DEF Alone
      <4>3. Along(p) /\ Calm(at[p])
        BY <1>1, <4>1, <4>2, QuietIds, <1>3, <1>4, <1>5, <1>6, <1>7, <1>8, <1>9, <1>10,
           <1>11, <1>12 DEF Undisturbed, InStep
      <4> QED  BY <1>1, <1>3, <1>4, <1>5, <1>6, <1>7, <1>8, <1>9, <1>10, <1>11, <1>12,
                  <4>2, <4>3 DEF Calm, Along, Opened, Staged, Alone
    <3> QED  BY <3>1 DEF InStep
  <2>5. RefusedLeavesNothing'
    BY <1>1, <1>3, <1>4, <1>5, <1>6, <1>7, <1>8, <1>9, <1>10, <1>11, <1>12
       DEF RefusedLeavesNothing, LeavesNothing, Edits
  <2>6. Landed'
    BY <1>1, <1>3, <1>4, <1>5, <1>6, <1>7, <1>8, <1>9, <1>10, <1>11, <1>12 DEF Landed
  <2> QED  BY <2>1, <2>2, <2>3, <2>4, <2>5, <2>6
<1> QED  BY <1>steady, <1>23, <1>24, <1>25, <1>26, <1>27, <1>28, <1>29, <1>30 DEF Inv

-----------------------------------------------------------------------------
(* The commit, and the undo after one that was refused.                   *)

LEMMA CommitKeeps ==
  ASSUME Inv, NEW p \in Procs, Commit(p)
  PROVE  Inv'
<1>1. TypeOK /\ Shapes /\ Planned /\ Numbered /\ Told /\ Standing /\ Staged
      /\ Opened /\ Steadied
  BY Shaped DEF Inv
<1>2. ~Shared => /\ Alone /\ Written /\ Undisturbed /\ InStep
                 /\ RefusedLeavesNothing /\ Landed
  BY DEF Inv
<1>3. /\ pc[p] = "ran" /\ pc'[p] = "committed" /\ view' = built[p] /\ undo' \in {undo, view}
      /\ open'[p].op = "none"
      /\ moved' = moved \cup (1 .. made \ {at[p]})
      /\ (\A q \in Procs : q # p => pc'[q] = pc[q] /\ open'[q] = open[q])
      /\ UNCHANGED <<text, revision, made, plan, saved, journal, done, at, shown,
                     built, already, outcome, stands, steady, torn, stale, applies,
                     others, faults>>
  BY <1>1 DEF Shapes, Commit, Goto, Moved, Register!Replace, Register!Change,
     Register!Closed, register, previews, store, local, history, bounds
<1>4. \A j : Digest(j)' = Digest(j)
  BY <1>3 DEF Digest
<1>5. \A j : Quiet(j)' => Quiet(j) /\ j = at[p]
  BY <1>1, <1>3 DEF Quiet, Moved, Numbered
<1>6. view' \in Gens \cup {None}
  BY <1>1, <1>3 DEF TypeOK, Register!TypeOK, Register!GenOrNone, Commit, Goto, Moved,
     Register!Replace, Register!Change, Register!Closed
<1>7. undo' \in Gens \cup {None}
  BY <1>1, <1>3 DEF TypeOK, Register!TypeOK, Register!GenOrNone, Commit, Goto, Moved,
     Register!Replace, Register!Change, Register!Closed
<1>8. open' \in [Procs -> [op : {"apply", "rollback", "none"}, seen : Gens \cup {None}]]
  BY <1>1, <1>3 DEF TypeOK, Register!TypeOK, Register!GenOrNone, Register!Kinds, Commit,
     Goto, Moved, Register!Replace, Register!Change, Register!Closed
<1>9. pc' \in [Procs -> Steps]
  BY <1>1, <1>3 DEF TypeOK, Steps, Commit, Goto, Moved
<1>10. moved' \subseteq 1 .. made'
  BY <1>1, <1>3 DEF TypeOK, Commit, Goto, Moved
<1>11. TypeOK'
  BY <1>1, <1>3, <1>4, <1>5, <1>6, <1>7, <1>8, <1>9, <1>10 DEF TypeOK, Register!TypeOK,
     Register!GenOrNone, Register!Kinds
<1>12. Planned'
  BY <1>1, <1>3, <1>4, <1>5 DEF Planned
<1>13. Numbered'
  BY <1>1, <1>3, <1>4, <1>5 DEF Numbered
<1>14. Told'
  BY <1>1, <1>3, <1>4, <1>5 DEF Told
<1>15. Standing'
  BY <1>1, <1>3, <1>4, <1>5 DEF Standing
<1>16. Staged'
  BY <1>1, <1>3, <1>4, <1>5 DEF Staged, Edits
<1>17. Opened'
  BY <1>1, <1>3, <1>4, <1>5 DEF Opened
<1>steady. Steadied'
  BY <1>1, <1>3, <1>4, <1>5
     DEF Steadied, Edits, Numbered
<1>18. ASSUME ~Shared
      PROVE  /\ Alone' /\ Written' /\ Undisturbed' /\ InStep'
             /\ RefusedLeavesNothing' /\ Landed'
  <2> Alone /\ Written /\ Undisturbed /\ InStep /\ RefusedLeavesNothing /\ Landed
    BY <1>2, <1>18
  <2>1. Alone'
    BY <1>1, <1>3, <1>4, <1>5 DEF Alone
  <2>2. Written'
    BY <1>1, <1>3, <1>4, <1>5 DEF Written
  <2>3. Undisturbed'
    <3>1. ASSUME NEW j \in Ids, Quiet(j)'
          PROVE  Calm(j)'
      <4>1. j = at[p] /\ Quiet(j) /\ Calm(j)
        BY <3>1, <1>3, <1>4, <1>5 DEF Undisturbed
      <4> QED  BY <1>1, <1>3, <1>4, <1>5, <4>1 DEF Calm, Numbered, Alone, InStep, Along
    <3> QED  BY <3>1 DEF Undisturbed
  <2>4. InStep'
    <3>1. ASSUME NEW q \in Procs, pc'[q] # "idle", Quiet(at[q])'
          PROVE  Along(q)'
      <4>1. pc[q] # "idle" /\ at[q] = at[p] /\ Quiet(at[q])
        BY <1>1, <3>1, <1>3, <1>4, <1>5 DEF Alone
      <4>2. q = p
        BY <1>1, <4>1, <1>3, <1>4, <1>5 DEF Alone
      <4>3. Along(p) /\ Calm(at[p])
        BY <1>1, <4>1, <4>2, QuietIds, <1>3, <1>4, <1>5 DEF Undisturbed, InStep
      <4> QED  BY <1>1, <1>3, <1>4, <1>5, <4>2, <4>3 DEF Calm, Along, Opened, Staged, Alone
    <3> QED  BY <3>1 DEF InStep
  <2>5. RefusedLeavesNothing'
    BY <1>1, <1>3, <1>4, <1>5 DEF RefusedLeavesNothing, LeavesNothing, Edits
  <2>6. Landed'
    BY <1>1, <1>3, <1>4, <1>5 DEF Landed
  <2> QED  BY <2>1, <2>2, <2>3, <2>4, <2>5, <2>6
<1> QED  BY <1>steady, <1>11, <1>12, <1>13, <1>14, <1>15, <1>16, <1>17, <1>18 DEF Inv

LEMMA CommitRefusedKeptKeeps ==
  ASSUME Inv, NEW p \in Procs, CommitRefused(p), already[p]
  PROVE  Inv'
<1>1. TypeOK /\ Shapes /\ Planned /\ Numbered /\ Told /\ Standing /\ Staged
      /\ Opened /\ Steadied
  BY Shaped DEF Inv
<1>2. ~Shared => /\ Alone /\ Written /\ Undisturbed /\ InStep
                 /\ RefusedLeavesNothing /\ Landed
  BY DEF Inv
<1>3. /\ pc[p] = "ran" /\ pc'[p] = "idle" /\ outcome'[p] = "refused" /\ built'[p] = None
      /\ open'[p].op = "none"
      /\ already[p]
      /\ open[p].seen # view \/ built[p].from # revision
      /\ (\A q \in Procs : q # p => pc'[q] = pc[q] /\ outcome'[q] = outcome[q]
              /\ built'[q] = built[q] /\ shown'[q] = shown[q] /\ open'[q] = open[q])
      /\ UNCHANGED <<view, undo, text, revision, made, plan, saved, journal, done, at,
                     already, stands, steady, moved, torn, stale, applies, others,
                     faults>>
  BY <1>1 DEF Shapes, CommitRefused, End, Goto, Register!Abandon, Register!Closed,
     register, previews, store, local, history, bounds
<1>4. \A j : Digest(j)' = Digest(j)
  BY <1>3 DEF Digest
<1>5. \A j : Quiet(j)' <=> Quiet(j)
  BY <1>3 DEF Quiet
<1>6. Aimed(p)
  BY <1>1, <1>3, Aims
<1>7. open' \in [Procs -> [op : {"apply", "rollback", "none"}, seen : Gens \cup {None}]]
  BY <1>1, <1>3 DEF TypeOK, Register!TypeOK, Register!GenOrNone, Register!Kinds,
     CommitRefused, End, Goto, Register!Abandon, Register!Closed
<1>8. pc' \in [Procs -> Steps]
  BY <1>1, <1>3 DEF TypeOK, Steps, CommitRefused, End, Goto
<1>9. built' \in [Procs -> Gens \cup {None}] /\ shown' \in [Procs -> Texts]
  BY <1>1, <1>3, <1>6 DEF TypeOK, Texts, CommitRefused, End, Goto, Aimed
<1>10. outcome' \in [Procs -> Outcomes]
  BY <1>1, <1>3 DEF TypeOK, Outcomes, CommitRefused, End, Goto
<1>11. TypeOK'
  BY <1>1, <1>3, <1>4, <1>5, <1>7, <1>8, <1>9, <1>10 DEF TypeOK, Register!TypeOK,
     Register!GenOrNone, Register!Kinds
<1>12. Planned'
  BY <1>1, <1>3, <1>4, <1>5 DEF Planned
<1>13. Numbered'
  BY <1>1, <1>3, <1>4, <1>5 DEF Numbered
<1>14. Told'
  BY <1>1, <1>3, <1>4, <1>5 DEF Told
<1>15. Standing'
  BY <1>1, <1>3, <1>4, <1>5 DEF Standing
<1>16. Staged'
  BY <1>1, <1>3, <1>4, <1>5 DEF Staged, Edits
<1>17. Opened'
  BY <1>1, <1>3, <1>4, <1>5 DEF Opened
<1>steady. Steadied'
  BY <1>1, <1>3, <1>4, <1>5
     DEF Steadied, Edits, Numbered
<1>18. ASSUME ~Shared
      PROVE  /\ Alone' /\ Written' /\ Undisturbed' /\ InStep'
             /\ RefusedLeavesNothing' /\ Landed'
  <2> Alone /\ Written /\ Undisturbed /\ InStep /\ RefusedLeavesNothing /\ Landed
    BY <1>2, <1>18
  <2>1. Alone'
    BY <1>1, <1>3, <1>4, <1>5 DEF Alone
  <2>2. Written'
    BY <1>1, <1>3, <1>4, <1>5 DEF Written
  <2>3. Undisturbed'
    BY <1>1, <1>3, <1>4, <1>5 DEF Undisturbed, Calm
  <2>4. InStep'
    BY <1>1, <1>3, <1>4, <1>5 DEF InStep, Along
  <2>5. RefusedLeavesNothing'
    BY <1>1, <1>3, <1>4, <1>5 DEF RefusedLeavesNothing, LeavesNothing, Edits
  <2>6. Landed'
    <3>1. ~Quiet(at[p])
      BY <1>1, <1>3, <1>4, <1>5, <1>6 DEF Aimed, Undisturbed, Calm, InStep, Along,
         Opened, Staged
    <3> QED  BY <3>1, <1>1, <1>3, <1>4, <1>5 DEF Landed
  <2> QED  BY <2>1, <2>2, <2>3, <2>4, <2>5, <2>6
<1> QED  BY <1>steady, <1>11, <1>12, <1>13, <1>14, <1>15, <1>16, <1>17, <1>18 DEF Inv

LEMMA CommitRefusedUndoneKeeps ==
  ASSUME Inv, NEW p \in Procs, CommitRefused(p), ~already[p]
  PROVE  Inv'
<1>1. TypeOK /\ Shapes /\ Planned /\ Numbered /\ Told /\ Standing /\ Staged
      /\ Opened /\ Steadied
  BY Shaped DEF Inv
<1>2. ~Shared => /\ Alone /\ Written /\ Undisturbed /\ InStep
                 /\ RefusedLeavesNothing /\ Landed
  BY DEF Inv
<1>3. /\ pc[p] = "ran" /\ pc'[p] = "undoing" /\ outcome'[p] = "refused" /\ ~already[p]
      /\ open'[p].op = "none"
      /\ open[p].seen # view \/ built[p].from # revision
      /\ (\A q \in Procs : q # p => pc'[q] = pc[q] /\ open'[q] = open[q]
              /\ outcome'[q] = outcome[q])
      /\ UNCHANGED <<view, undo, text, revision, made, plan, saved, journal, done, at,
                     shown, built, already, stands, steady, moved, torn, stale,
                     applies, others, faults>>
  BY <1>1 DEF Shapes, CommitRefused, Undoing, Goto, Register!Abandon, Register!Closed,
     register, previews, store, local, history, bounds
<1>4. \A j : Digest(j)' = Digest(j)
  BY <1>3 DEF Digest
<1>5. \A j : Quiet(j)' <=> Quiet(j)
  BY <1>3 DEF Quiet
<1>6. Aimed(p)
  BY <1>1, <1>3, Aims
<1>7. open' \in [Procs -> [op : {"apply", "rollback", "none"}, seen : Gens \cup {None}]]
  BY <1>1, <1>3 DEF TypeOK, Register!TypeOK, Register!GenOrNone, Register!Kinds,
     CommitRefused, Undoing, Goto, Register!Abandon, Register!Closed
<1>8. pc' \in [Procs -> Steps]
  BY <1>1, <1>3 DEF TypeOK, Steps, CommitRefused, Undoing, Goto
<1>9. outcome' \in [Procs -> Outcomes]
  BY <1>1, <1>3 DEF TypeOK, Outcomes, CommitRefused, Undoing, Goto
<1>10. TypeOK'
  BY <1>1, <1>3, <1>4, <1>5, <1>7, <1>8, <1>9 DEF TypeOK, Register!TypeOK,
     Register!GenOrNone, Register!Kinds
<1>11. Planned'
  BY <1>1, <1>3, <1>4, <1>5 DEF Planned
<1>12. Numbered'
  BY <1>1, <1>3, <1>4, <1>5 DEF Numbered
<1>13. Told'
  BY <1>1, <1>3, <1>4, <1>5 DEF Told
<1>14. Standing'
  BY <1>1, <1>3, <1>4, <1>5 DEF Standing
<1>15. Staged'
  BY <1>1, <1>3, <1>4, <1>5 DEF Staged, Edits
<1>16. Opened'
  BY <1>1, <1>3, <1>4, <1>5 DEF Opened
<1>steady. Steadied'
  BY <1>1, <1>3, <1>4, <1>5
     DEF Steadied, Edits, Numbered
<1>17. ASSUME ~Shared
      PROVE  /\ Alone' /\ Written' /\ Undisturbed' /\ InStep'
             /\ RefusedLeavesNothing' /\ Landed'
  <2> Alone /\ Written /\ Undisturbed /\ InStep /\ RefusedLeavesNothing /\ Landed
    BY <1>2, <1>17
  <2>1. Alone'
    BY <1>1, <1>3, <1>4, <1>5 DEF Alone
  <2>2. Written'
    BY <1>1, <1>3, <1>4, <1>5 DEF Written
  <2>3. Undisturbed'
    BY <1>1, <1>3, <1>4, <1>5 DEF Undisturbed, Calm
  <2>4. InStep'
    BY <1>1, <1>3, <1>4, <1>5 DEF InStep, Along
  <2>5. RefusedLeavesNothing'
    BY <1>1, <1>3, <1>4, <1>5 DEF RefusedLeavesNothing, LeavesNothing, Edits
  <2>6. Landed'
    <3>1. ~Quiet(at[p])
      BY <1>1, <1>3, <1>4, <1>5, <1>6 DEF Aimed, Undisturbed, Calm, InStep, Along,
         Opened, Staged
    <3> QED  BY <3>1, <1>1, <1>3, <1>4, <1>5 DEF Landed
  <2> QED  BY <2>1, <2>2, <2>3, <2>4, <2>5, <2>6
<1> QED  BY <1>steady, <1>10, <1>11, <1>12, <1>13, <1>14, <1>15, <1>16, <1>17 DEF Inv

LEMMA CommitFailKeptKeeps ==
  ASSUME Inv, NEW p \in Procs, CommitFail(p), already[p]
  PROVE  Inv'
<1>1. TypeOK /\ Shapes /\ Planned /\ Numbered /\ Told /\ Standing /\ Staged
      /\ Opened /\ Steadied
  BY Shaped DEF Inv
<1>2. ~Shared => /\ Alone /\ Written /\ Undisturbed /\ InStep
                 /\ RefusedLeavesNothing /\ Landed
  BY DEF Inv
<1>3. /\ pc[p] = "ran" /\ pc'[p] = "idle" /\ outcome'[p] = "failed" /\ built'[p] = None
      /\ open'[p].op = "none"
      /\ already[p] /\ undo' \in {undo, view}
      /\ (\A q \in Procs : q # p => pc'[q] = pc[q] /\ outcome'[q] = outcome[q]
              /\ built'[q] = built[q] /\ shown'[q] = shown[q] /\ open'[q] = open[q])
      /\ UNCHANGED <<view, text, revision, made, plan, saved, journal, done, at,
                     already, stands, steady, moved, torn, stale, applies, others>>
  BY <1>1 DEF Shapes, CommitFail, Fault, Register!Cut, End, Goto, Register!Abandon,
     Register!Closed, register, previews, store, local, history, bounds
<1>4. \A j : Digest(j)' = Digest(j)
  BY <1>3 DEF Digest
<1>5. \A j : Quiet(j)' <=> Quiet(j)
  BY <1>3 DEF Quiet
<1>6. Aimed(p)
  BY <1>1, <1>3, Aims
<1>7. undo' \in Gens \cup {None}
  BY <1>1, <1>3 DEF TypeOK, Register!TypeOK, Register!GenOrNone, CommitFail, Fault,
     Register!Cut, End, Goto, Register!Abandon, Register!Closed
<1>8. open' \in [Procs -> [op : {"apply", "rollback", "none"}, seen : Gens \cup {None}]]
  BY <1>1, <1>3 DEF TypeOK, Register!TypeOK, Register!GenOrNone, Register!Kinds,
     CommitFail, Fault, Register!Cut, End, Goto, Register!Abandon, Register!Closed
<1>9. pc' \in [Procs -> Steps]
  BY <1>1, <1>3 DEF TypeOK, Steps, CommitFail, Fault, End, Goto
<1>10. built' \in [Procs -> Gens \cup {None}] /\ shown' \in [Procs -> Texts]
  BY <1>1, <1>3, <1>6 DEF TypeOK, Texts, CommitFail, Fault, End, Goto, Aimed
<1>11. outcome' \in [Procs -> Outcomes]
  BY <1>1, <1>3 DEF TypeOK, Outcomes, CommitFail, Fault, End, Goto
<1>12. faults' \in 0 .. MaxFaults
  BY <1>1, BoundsAssumption DEF TypeOK, CommitFail, Fault, Register!Cut, End, Goto,
     Register!Abandon, Register!Closed
<1>13. TypeOK'
  BY <1>1, <1>3, <1>4, <1>5, <1>7, <1>8, <1>9, <1>10, <1>11, <1>12 DEF TypeOK,
     Register!TypeOK, Register!GenOrNone, Register!Kinds
<1>14. Planned'
  BY <1>1, <1>3, <1>4, <1>5 DEF Planned
<1>15. Numbered'
  BY <1>1, <1>3, <1>4, <1>5 DEF Numbered
<1>16. Told'
  BY <1>1, <1>3, <1>4, <1>5 DEF Told
<1>17. Standing'
  BY <1>1, <1>3, <1>4, <1>5 DEF Standing
<1>18. Staged'
  BY <1>1, <1>3, <1>4, <1>5 DEF Staged, Edits
<1>19. Opened'
  BY <1>1, <1>3, <1>4, <1>5 DEF Opened
<1>steady. Steadied'
  BY <1>1, <1>3, <1>4, <1>5
     DEF Steadied, Edits, Numbered
<1>20. ASSUME ~Shared
      PROVE  /\ Alone' /\ Written' /\ Undisturbed' /\ InStep'
             /\ RefusedLeavesNothing' /\ Landed'
  <2> Alone /\ Written /\ Undisturbed /\ InStep /\ RefusedLeavesNothing /\ Landed
    BY <1>2, <1>20
  <2>1. Alone'
    BY <1>1, <1>3, <1>4, <1>5 DEF Alone
  <2>2. Written'
    BY <1>1, <1>3, <1>4, <1>5 DEF Written
  <2>3. Undisturbed'
    BY <1>1, <1>3, <1>4, <1>5 DEF Undisturbed, Calm
  <2>4. InStep'
    BY <1>1, <1>3, <1>4, <1>5 DEF InStep, Along
  <2>5. RefusedLeavesNothing'
    BY <1>1, <1>3, <1>4, <1>5 DEF RefusedLeavesNothing, LeavesNothing, Edits
  <2>6. Landed'
    BY <1>1, <1>3, <1>4, <1>5 DEF Landed
  <2> QED  BY <2>1, <2>2, <2>3, <2>4, <2>5, <2>6
<1> QED  BY <1>steady, <1>13, <1>14, <1>15, <1>16, <1>17, <1>18, <1>19, <1>20 DEF Inv

LEMMA CommitFailUndoneKeeps ==
  ASSUME Inv, NEW p \in Procs, CommitFail(p), ~already[p]
  PROVE  Inv'
<1>1. TypeOK /\ Shapes /\ Planned /\ Numbered /\ Told /\ Standing /\ Staged
      /\ Opened /\ Steadied
  BY Shaped DEF Inv
<1>2. ~Shared => /\ Alone /\ Written /\ Undisturbed /\ InStep
                 /\ RefusedLeavesNothing /\ Landed
  BY DEF Inv
<1>3. /\ pc[p] = "ran" /\ pc'[p] = "undoing" /\ outcome'[p] = "failed" /\ ~already[p]
      /\ open'[p].op = "none" /\ undo' \in {undo, view}
      /\ (\A q \in Procs : q # p => pc'[q] = pc[q] /\ open'[q] = open[q]
              /\ outcome'[q] = outcome[q])
      /\ UNCHANGED <<view, text, revision, made, plan, saved, journal, done, at,
                     shown, built, already, stands, steady, moved, torn, stale,
                     applies, others>>
  BY <1>1 DEF Shapes, CommitFail, Fault, Undoing, Goto, Register!Cut, Register!Abandon,
     Register!Closed, register, previews, store, local, history, bounds
<1>4. \A j : Digest(j)' = Digest(j)
  BY <1>3 DEF Digest
<1>5. \A j : Quiet(j)' <=> Quiet(j)
  BY <1>3 DEF Quiet
<1>6. undo' \in Gens \cup {None}
  BY <1>1, <1>3 DEF TypeOK, Register!TypeOK, Register!GenOrNone, CommitFail, Fault,
     Undoing, Goto, Register!Cut, Register!Abandon, Register!Closed
<1>7. open' \in [Procs -> [op : {"apply", "rollback", "none"}, seen : Gens \cup {None}]]
  BY <1>1, <1>3 DEF TypeOK, Register!TypeOK, Register!GenOrNone, Register!Kinds,
     CommitFail, Fault, Undoing, Goto, Register!Cut, Register!Abandon, Register!Closed
<1>8. pc' \in [Procs -> Steps]
  BY <1>1, <1>3 DEF TypeOK, Steps, CommitFail, Fault, Undoing, Goto
<1>9. outcome' \in [Procs -> Outcomes]
  BY <1>1, <1>3 DEF TypeOK, Outcomes, CommitFail, Fault, Undoing, Goto
<1>10. faults' \in 0 .. MaxFaults
  BY <1>1, BoundsAssumption DEF TypeOK, CommitFail, Fault, Undoing, Goto, Register!Cut,
     Register!Abandon, Register!Closed
<1>11. TypeOK'
  BY <1>1, <1>3, <1>4, <1>5, <1>6, <1>7, <1>8, <1>9, <1>10 DEF TypeOK, Register!TypeOK,
     Register!GenOrNone, Register!Kinds
<1>12. Planned'
  BY <1>1, <1>3, <1>4, <1>5 DEF Planned
<1>13. Numbered'
  BY <1>1, <1>3, <1>4, <1>5 DEF Numbered
<1>14. Told'
  BY <1>1, <1>3, <1>4, <1>5 DEF Told
<1>15. Standing'
  BY <1>1, <1>3, <1>4, <1>5 DEF Standing
<1>16. Staged'
  BY <1>1, <1>3, <1>4, <1>5 DEF Staged, Edits
<1>17. Opened'
  BY <1>1, <1>3, <1>4, <1>5 DEF Opened
<1>steady. Steadied'
  BY <1>1, <1>3, <1>4, <1>5
     DEF Steadied, Edits, Numbered
<1>18. ASSUME ~Shared
      PROVE  /\ Alone' /\ Written' /\ Undisturbed' /\ InStep'
             /\ RefusedLeavesNothing' /\ Landed'
  <2> Alone /\ Written /\ Undisturbed /\ InStep /\ RefusedLeavesNothing /\ Landed
    BY <1>2, <1>18
  <2>1. Alone'
    BY <1>1, <1>3, <1>4, <1>5 DEF Alone
  <2>2. Written'
    BY <1>1, <1>3, <1>4, <1>5 DEF Written
  <2>3. Undisturbed'
    BY <1>1, <1>3, <1>4, <1>5 DEF Undisturbed, Calm
  <2>4. InStep'
    BY <1>1, <1>3, <1>4, <1>5 DEF InStep, Along
  <2>5. RefusedLeavesNothing'
    BY <1>1, <1>3, <1>4, <1>5 DEF RefusedLeavesNothing, LeavesNothing, Edits
  <2>6. Landed'
    BY <1>1, <1>3, <1>4, <1>5 DEF Landed
  <2> QED  BY <2>1, <2>2, <2>3, <2>4, <2>5, <2>6
<1> QED  BY <1>steady, <1>11, <1>12, <1>13, <1>14, <1>15, <1>16, <1>17, <1>18 DEF Inv

LEMMA RestoreKeeps ==
  ASSUME Inv, NEW p \in Procs, Restore(p)
  PROVE  Inv'
<1>1. TypeOK /\ Shapes /\ Planned /\ Numbered /\ Told /\ Standing /\ Staged
      /\ Opened /\ Steadied
  BY Shaped DEF Inv
<1>2. ~Shared => /\ Alone /\ Written /\ Undisturbed /\ InStep
                 /\ RefusedLeavesNothing /\ Landed
  BY DEF Inv
<1>3. pc[p] = "undoing" /\ pc'[p] = "restored" /\ text = plan[at[p]].after
      /\ text' = plan[at[p]].before
  BY <1>1 DEF Shapes, Restore, Goto, Declare, Moved, Undoable, register, previews, store,
     local, history, bounds
<1>4. moved' = moved \cup (1 .. made \ {at[p]})
  BY <1>1 DEF Shapes, Restore, Goto, Declare, Moved, Undoable, register, previews, store,
     local, history, bounds
<1>5. (\A q \in Procs : ~stands'[q])
      /\ steady' = {q \in steady : pc[q] \in {"edited", "ran", "committed"}}
  BY <1>1 DEF Shapes, Restore, Goto, Declare, Moved, Undoable, register, previews, store,
     local, history, bounds
<1>6. \A q \in Procs : q # p => pc'[q] = pc[q]
  BY <1>1 DEF Shapes, Restore, Goto, Declare, Moved, Undoable, register, previews, store,
     local, history, bounds
<1>7. UNCHANGED <<view, undo, open, revision, made, plan, saved, journal, done, at,
                  shown, built, already, outcome, torn, stale, applies, others, faults>>
  BY <1>1 DEF Shapes, Restore, Goto, Declare, Moved, Undoable, register, previews, store,
     local, history, bounds
<1>8. \A j : Digest(j)' = Digest(j)
  BY <1>3, <1>4, <1>5, <1>6, <1>7 DEF Digest
<1>9. \A j : Quiet(j)' => Quiet(j) /\ j = at[p]
  BY <1>1, <1>3, <1>4, <1>5, <1>6, <1>7 DEF Quiet, Moved, Numbered
<1>10. Aimed(p)
  BY <1>1, <1>3, <1>4, <1>5, <1>6, <1>7, Aims
<1>11. text' \in Texts
  BY <1>1, <1>3, <1>4, <1>5, <1>6, <1>7, <1>10 DEF TypeOK, Texts, Restore, Goto, Declare,
     Moved, Undoable, Aimed
<1>12. pc' \in [Procs -> Steps]
  BY <1>1, <1>3, <1>4, <1>5, <1>6, <1>7 DEF TypeOK, Steps, Restore, Goto, Declare, Moved,
     Undoable
<1>13. stands' \in [Procs -> BOOLEAN]
  BY Declares DEF Restore
<1>14. moved' \subseteq 1 .. made'
  BY <1>1, <1>3, <1>4, <1>5, <1>6, <1>7 DEF TypeOK, Restore, Goto, Declare, Moved, Undoable
<1>15. TypeOK'
  BY <1>1, <1>3, <1>4, <1>5, <1>6, <1>7, <1>8, <1>9, <1>11, <1>12, <1>13, <1>14
     DEF TypeOK, Register!TypeOK, Register!GenOrNone, Register!Kinds
<1>16. Planned'
  BY <1>1, <1>3, <1>4, <1>5, <1>6, <1>7, <1>8, <1>9 DEF Planned
<1>17. Numbered'
  BY <1>1, <1>3, <1>4, <1>5, <1>6, <1>7, <1>8, <1>9 DEF Numbered
<1>18. Told'
  BY <1>1, <1>3, <1>4, <1>5, <1>6, <1>7, <1>8, <1>9 DEF Told
<1>19. Standing'
  BY <1>1, <1>3, <1>4, <1>5, <1>6, <1>7, <1>8, <1>9 DEF Standing
<1>20. Staged'
  BY <1>1, <1>3, <1>4, <1>5, <1>6, <1>7, <1>8, <1>9 DEF Staged, Edits
<1>21. Opened'
  BY <1>1, <1>3, <1>4, <1>5, <1>6, <1>7, <1>8, <1>9 DEF Opened
<1>steady. Steadied'
  BY <1>1, <1>3, <1>4, <1>5, <1>6, <1>7, <1>8, <1>9
     DEF Steadied, Edits, Numbered
<1>22. ASSUME ~Shared
      PROVE  /\ Alone' /\ Written' /\ Undisturbed' /\ InStep'
             /\ RefusedLeavesNothing' /\ Landed'
  <2> Alone /\ Written /\ Undisturbed /\ InStep /\ RefusedLeavesNothing /\ Landed
    BY <1>2, <1>22
  <2>1. Alone'
    BY <1>1, <1>3, <1>4, <1>5, <1>6, <1>7, <1>8, <1>9 DEF Alone
  <2>2. Written'
    BY <1>1, <1>3, <1>4, <1>5, <1>6, <1>7, <1>8, <1>9 DEF Written
  <2>3. Undisturbed'
    <3>1. ASSUME NEW j \in Ids, Quiet(j)'
          PROVE  Calm(j)'
      <4>1. j = at[p] /\ Quiet(j) /\ Calm(j)
        BY <3>1, <1>3, <1>4, <1>5, <1>6, <1>7, <1>8, <1>9 DEF Undisturbed
      <4> QED  BY <1>1, <1>3, <1>4, <1>5, <1>6, <1>7, <1>8, <1>9, <4>1
               DEF Calm, Numbered, Alone, InStep, Along
    <3> QED  BY <3>1 DEF Undisturbed
  <2>4. InStep'
    <3>1. ASSUME NEW q \in Procs, pc'[q] # "idle", Quiet(at[q])'
          PROVE  Along(q)'
      <4>1. pc[q] # "idle" /\ at[q] = at[p] /\ Quiet(at[q])
        BY <1>1, <3>1, <1>3, <1>4, <1>5, <1>6, <1>7, <1>8, <1>9 DEF Alone
      <4>2. q = p
        BY <1>1, <4>1, <1>3, <1>4, <1>5, <1>6, <1>7, <1>8, <1>9 DEF Alone
      <4>3. Along(p) /\ Calm(at[p])
        BY <1>1, <4>1, <4>2, QuietIds, <1>3, <1>4, <1>5, <1>6, <1>7, <1>8, <1>9
           DEF Undisturbed, InStep
      <4> QED  BY <1>1, <1>3, <1>4, <1>5, <1>6, <1>7, <1>8, <1>9, <4>2, <4>3
               DEF Calm, Along, Opened, Staged, Alone
    <3> QED  BY <3>1 DEF InStep
  <2>5. RefusedLeavesNothing'
    BY <1>1, <1>3, <1>4, <1>5, <1>6, <1>7, <1>8, <1>9 DEF RefusedLeavesNothing,
       LeavesNothing, Edits
  <2>6. Landed'
    BY <1>1, <1>3, <1>4, <1>5, <1>6, <1>7, <1>8, <1>9 DEF Landed
  <2> QED  BY <2>1, <2>2, <2>3, <2>4, <2>5, <2>6
<1> QED  BY <1>steady, <1>15, <1>16, <1>17, <1>18, <1>19, <1>20, <1>21, <1>22 DEF Inv

LEMMA RestoreRefusedKeeps ==
  ASSUME Inv, NEW p \in Procs, RestoreRefused(p)
  PROVE  Inv'
<1>1. TypeOK /\ Shapes /\ Planned /\ Numbered /\ Told /\ Standing /\ Staged
      /\ Opened /\ Steadied
  BY Shaped DEF Inv
<1>2. ~Shared => /\ Alone /\ Written /\ Undisturbed /\ InStep
                 /\ RefusedLeavesNothing /\ Landed
  BY DEF Inv
<1>3. /\ pc[p] = "undoing" /\ pc'[p] = "idle" /\ outcome'[p] = outcome[p]
      /\ built'[p] = None
      /\ at[p] \notin journal \/ text # plan[at[p]].after
      /\ outcome[p] \in {"refused", "failed"}
      /\ (\A q \in Procs : q # p => pc'[q] = pc[q] /\ outcome'[q] = outcome[q]
              /\ built'[q] = built[q] /\ shown'[q] = shown[q])
      /\ UNCHANGED <<view, undo, open, text, revision, made, plan, saved, journal,
                     done, at, already, stands, steady, moved, torn, stale, applies,
                     others, faults>>
  BY <1>1 DEF Told, Shapes, RestoreRefused, Undoable, End, Goto, register, previews,
     store, local, history, bounds
<1>4. \A j : Digest(j)' = Digest(j)
  BY <1>3 DEF Digest
<1>5. \A j : Quiet(j)' <=> Quiet(j)
  BY <1>3 DEF Quiet
<1>6. Aimed(p)
  BY <1>1, <1>3, Aims
<1>7. pc' \in [Procs -> Steps]
  BY <1>1, <1>3 DEF TypeOK, Steps, RestoreRefused, Undoable, End, Goto
<1>8. built' \in [Procs -> Gens \cup {None}] /\ shown' \in [Procs -> Texts]
  BY <1>1, <1>3, <1>6 DEF TypeOK, Texts, RestoreRefused, Undoable, End, Goto, Aimed
<1>9. outcome' \in [Procs -> Outcomes]
  BY <1>1, <1>3 DEF TypeOK, Outcomes, RestoreRefused, Undoable, End, Goto
<1>10. TypeOK'
  BY <1>1, <1>3, <1>4, <1>5, <1>7, <1>8, <1>9 DEF TypeOK, Register!TypeOK,
     Register!GenOrNone, Register!Kinds
<1>11. Planned'
  BY <1>1, <1>3, <1>4, <1>5 DEF Planned
<1>12. Numbered'
  BY <1>1, <1>3, <1>4, <1>5 DEF Numbered
<1>13. Told'
  BY <1>1, <1>3, <1>4, <1>5 DEF Told
<1>14. Standing'
  BY <1>1, <1>3, <1>4, <1>5 DEF Standing
<1>15. Staged'
  BY <1>1, <1>3, <1>4, <1>5 DEF Staged, Edits
<1>16. Opened'
  BY <1>1, <1>3, <1>4, <1>5 DEF Opened
<1>steady. Steadied'
  BY <1>1, <1>3, <1>4, <1>5
     DEF Steadied, Edits, Numbered
<1>17. ASSUME ~Shared
      PROVE  /\ Alone' /\ Written' /\ Undisturbed' /\ InStep'
             /\ RefusedLeavesNothing' /\ Landed'
  <2> Alone /\ Written /\ Undisturbed /\ InStep /\ RefusedLeavesNothing /\ Landed
    BY <1>2, <1>17
  <2>1. Alone'
    BY <1>1, <1>3, <1>4, <1>5 DEF Alone
  <2>2. Written'
    BY <1>1, <1>3, <1>4, <1>5 DEF Written
  <2>3. Undisturbed'
    BY <1>1, <1>3, <1>4, <1>5 DEF Undisturbed, Calm
  <2>4. InStep'
    BY <1>1, <1>3, <1>4, <1>5 DEF InStep, Along
  <2>5. RefusedLeavesNothing'
    BY <1>1, <1>3, <1>4, <1>5 DEF RefusedLeavesNothing, LeavesNothing, Edits, Standing,
       Written, Numbered
  <2>6. Landed'
    BY <1>1, <1>3, <1>4, <1>5 DEF Landed
  <2> QED  BY <2>1, <2>2, <2>3, <2>4, <2>5, <2>6
<1> QED  BY <1>steady, <1>10, <1>11, <1>12, <1>13, <1>14, <1>15, <1>16, <1>17 DEF Inv

LEMMA UnmarkKeeps ==
  ASSUME Inv, NEW p \in Procs, Unmark(p)
  PROVE  Inv'
<1>1. TypeOK /\ Shapes /\ Planned /\ Numbered /\ Told /\ Standing /\ Staged
      /\ Opened /\ Steadied
  BY Shaped DEF Inv
<1>2. ~Shared => /\ Alone /\ Written /\ Undisturbed /\ InStep
                 /\ RefusedLeavesNothing /\ Landed
  BY DEF Inv
<1>3. /\ pc[p] = "restored" /\ pc'[p] = "idle" /\ outcome'[p] = outcome[p]
      /\ built'[p] = None
      /\ done' = done \ {Digest(at[p])}
      /\ moved' = moved \cup {j \in 1 .. made \ {at[p]} : Digest(j) = Digest(at[p])}
      /\ outcome[p] \in {"refused", "failed"}
      /\ (\A q \in Procs : q # p => pc'[q] = pc[q] /\ outcome'[q] = outcome[q]
              /\ built'[q] = built[q] /\ shown'[q] = shown[q])
      /\ UNCHANGED <<view, undo, open, text, revision, made, plan, saved, journal, at,
                     already, stands, steady, torn, stale, applies, others, faults>>
  BY <1>1 DEF Told, Shapes, Unmark, MarkerMoved, End, Goto, register, previews, store,
     local, history, bounds
<1>4. \A j : Digest(j)' = Digest(j)
  BY <1>3 DEF Digest
<1>5. \A j : Quiet(j)' => Quiet(j) /\ (j = at[p] \/ Digest(j) # Digest(at[p]))
  BY <1>1, <1>3 DEF Quiet, Numbered
<1>6. Aimed(p)
  BY <1>1, <1>3, Aims
<1>7. done' \subseteq {Digest(j)' : j \in saved'}
  BY <1>1, <1>3, <1>4, <1>5, <1>6 DEF TypeOK, Numbered, Unmark, MarkerMoved, End, Goto,
     Aimed
<1>8. pc' \in [Procs -> Steps]
  BY <1>1, <1>3 DEF TypeOK, Steps, Unmark, MarkerMoved, End, Goto
<1>9. built' \in [Procs -> Gens \cup {None}] /\ shown' \in [Procs -> Texts]
  BY <1>1, <1>3, <1>6 DEF TypeOK, Texts, Unmark, MarkerMoved, End, Goto, Aimed
<1>10. outcome' \in [Procs -> Outcomes]
  BY <1>1, <1>3 DEF TypeOK, Outcomes, Unmark, MarkerMoved, End, Goto
<1>11. moved' \subseteq 1 .. made'
  BY <1>1, <1>3 DEF TypeOK, Unmark, MarkerMoved, End, Goto
<1>12. TypeOK'
  BY <1>1, <1>3, <1>4, <1>5, <1>7, <1>8, <1>9, <1>10, <1>11 DEF TypeOK, Register!TypeOK,
     Register!GenOrNone, Register!Kinds
<1>13. Planned'
  BY <1>1, <1>3, <1>4, <1>5 DEF Planned
<1>14. Numbered'
  BY <1>1, <1>3, <1>4, <1>5 DEF Numbered
<1>15. Told'
  BY <1>1, <1>3, <1>4, <1>5 DEF Told
<1>16. Standing'
  BY <1>1, <1>3, <1>4, <1>5 DEF Standing
<1>17. Staged'
  BY <1>1, <1>3, <1>4, <1>5 DEF Staged, Edits
<1>18. Opened'
  BY <1>1, <1>3, <1>4, <1>5 DEF Opened
<1>steady. Steadied'
  BY <1>1, <1>3, <1>4, <1>5
     DEF Steadied, Edits, Numbered
<1>19. ASSUME ~Shared
      PROVE  /\ Alone' /\ Written' /\ Undisturbed' /\ InStep'
             /\ RefusedLeavesNothing' /\ Landed'
  <2> Alone /\ Written /\ Undisturbed /\ InStep /\ RefusedLeavesNothing /\ Landed
    BY <1>2, <1>19
  <2>1. Alone'
    BY <1>1, <1>3, <1>4, <1>5 DEF Alone
  <2>2. Written'
    BY <1>1, <1>3, <1>4, <1>5 DEF Written
  <2>3. Undisturbed'
    <3>1. ASSUME NEW j \in Ids, Quiet(j)'
          PROVE  Calm(j)'
      <4>1. Quiet(j) /\ Calm(j) /\ (j = at[p] \/ Digest(j) # Digest(at[p]))
        BY <3>1, <1>3, <1>4, <1>5 DEF Undisturbed
      <4>2. CASE j = at[p]
        BY <1>1, <1>3, <1>4, <1>5, <4>1, <4>2 DEF Calm, Alone, InStep, Along, Numbered
      <4>3. CASE j # at[p]
        BY <1>1, <1>3, <1>4, <1>5, <4>1, <4>3 DEF Calm
      <4> QED  BY <4>2, <4>3
    <3> QED  BY <3>1 DEF Undisturbed
  <2>4. InStep'
    <3>1. ASSUME NEW q \in Procs, pc'[q] # "idle", Quiet(at[q])'
          PROVE  Along(q)'
      <4>1. pc[q] # "idle" /\ Quiet(at[q]) /\ Along(q)
            /\ (at[q] = at[p] \/ Digest(at[q]) # Digest(at[p]))
        BY <1>1, <3>1, <1>3, <1>4, <1>5 DEF InStep
      <4>2. CASE q = p
        <5>1. Calm(at[p])
          BY <4>1, <4>2, <1>1, QuietIds DEF Undisturbed
        <5> QED  BY <1>1, <1>3, <1>4, <1>5, <4>1, <4>2, <5>1, <3>1 DEF Along, Opened, Calm
      <4>3. CASE q # p
        BY <1>1, <1>3, <1>4, <1>5, <4>1, <4>3 DEF Along, Alone
      <4> QED  BY <4>2, <4>3
    <3> QED  BY <3>1 DEF InStep
  <2>5. RefusedLeavesNothing'
    BY <1>1, <1>3, <1>4, <1>5 DEF RefusedLeavesNothing, LeavesNothing, Edits, Standing
  <2>6. Landed'
    BY <1>1, <1>3, <1>4, <1>5 DEF Landed
  <2> QED  BY <2>1, <2>2, <2>3, <2>4, <2>5, <2>6
<1> QED  BY <1>steady, <1>12, <1>13, <1>14, <1>15, <1>16, <1>17, <1>18, <1>19 DEF Inv

LEMMA ReportKeeps ==
  ASSUME Inv, NEW p \in Procs, Report(p) \/ ReportFail(p)
  PROVE  Inv'
<1>1. TypeOK /\ Shapes /\ Planned /\ Numbered /\ Told /\ Standing /\ Staged
      /\ Opened /\ Steadied
  BY Shaped DEF Inv
<1>2. ~Shared => /\ Alone /\ Written /\ Undisturbed /\ InStep
                 /\ RefusedLeavesNothing /\ Landed
  BY DEF Inv
<1>3. /\ pc[p] = "committed" /\ pc'[p] = "idle"
      /\ outcome'[p] \in {"applied", "late"} /\ built'[p] = None
      /\ at'[p] \in {0, at[p]} /\ already'[p] \in {FALSE, already[p]}
      /\ (\A q \in Procs : q # p => pc'[q] = pc[q] /\ outcome'[q] = outcome[q]
              /\ built'[q] = built[q] /\ shown'[q] = shown[q] /\ at'[q] = at[q]
                      /\ already'[q] = already[q])
      /\ UNCHANGED <<view, undo, open, text, revision, made, plan, saved, journal,
                     done, stands, steady, moved, torn, stale, applies, others>>
  <2>1. PICK how \in {"applied", "late"} : End(p, how)
    BY DEF Report, ReportFail
  <2>2. /\ pc[p] = "committed"
        /\ UNCHANGED <<view, undo, open, text, revision, made, plan, saved, journal,
                       done, stands, steady, moved, torn, stale, applies, others>>
    BY DEF Report, ReportFail, Fault, register, previews, store, history, bounds
  <2>3. pc'[p] = "idle" /\ outcome'[p] = how /\ built'[p] = None
    BY <1>1, <2>1 DEF Shapes, End, Goto
  <2>4. at'[p] \in {0, at[p]} /\ already'[p] \in {FALSE, already[p]}
    BY <1>1, <2>1 DEF Shapes, End
  <2>5. \A q \in Procs : q # p => /\ pc'[q] = pc[q] /\ outcome'[q] = outcome[q]
                                  /\ built'[q] = built[q] /\ shown'[q] = shown[q]
                                  /\ at'[q] = at[q] /\ already'[q] = already[q]
    BY <1>1, <2>1 DEF Shapes, End, Goto
  <2> QED  BY <2>1, <2>2, <2>3, <2>4, <2>5
<1>4. \A j : Digest(j)' = Digest(j)
  BY <1>3 DEF Digest
<1>5. \A j : Quiet(j)' <=> Quiet(j)
  BY <1>3 DEF Quiet
<1>6. Aimed(p)
  BY <1>1, <1>3, Aims
<1>7. pc' \in [Procs -> Steps]
  BY <1>1, <1>3 DEF TypeOK, Steps, Report, ReportFail, Fault, End, Goto
<1>8. at' \in [Procs -> 0 .. made']
  BY <1>1, <1>3 DEF TypeOK, Report, ReportFail, Fault, End, Goto
<1>9. built' \in [Procs -> Gens \cup {None}] /\ shown' \in [Procs -> Texts]
  BY <1>1, <1>3, <1>6 DEF TypeOK, Texts, Report, ReportFail, Fault, End, Goto, Aimed
<1>10. already' \in [Procs -> BOOLEAN]
  BY <1>1, <1>3 DEF TypeOK, Report, ReportFail, Fault, End, Goto
<1>11. outcome' \in [Procs -> Outcomes]
  BY <1>1, <1>3 DEF TypeOK, Outcomes, Report, ReportFail, Fault, End, Goto
<1>f. faults' \in 0 .. MaxFaults
  BY <1>1, BoundsAssumption DEF TypeOK, Report, ReportFail, Fault, bounds
<1>12. TypeOK'
  BY <1>1, <1>3, <1>4, <1>5, <1>7, <1>8, <1>9, <1>10, <1>11, <1>f
  DEF TypeOK, Register!TypeOK,
     Register!GenOrNone, Register!Kinds
<1>13. Planned'
  BY <1>1, <1>3, <1>4, <1>5 DEF Planned
<1>14. Numbered'
  BY <1>1, <1>3, <1>4, <1>5 DEF Numbered
<1>15. Told'
  BY <1>1, <1>3, <1>4, <1>5 DEF Told
<1>16. Standing'
  BY <1>1, <1>3, <1>4, <1>5 DEF Standing
<1>17. Staged'
  BY <1>1, <1>3, <1>4, <1>5 DEF Staged, Edits
<1>18. Opened'
  BY <1>1, <1>3, <1>4, <1>5 DEF Opened
<1>steady. Steadied'
  BY <1>1, <1>3, <1>4, <1>5
     DEF Steadied, Edits, Numbered
<1>19. ASSUME ~Shared
      PROVE  /\ Alone' /\ Written' /\ Undisturbed' /\ InStep'
             /\ RefusedLeavesNothing' /\ Landed'
  <2> Alone /\ Written /\ Undisturbed /\ InStep /\ RefusedLeavesNothing /\ Landed
    BY <1>2, <1>19
  <2>1. Alone'
    BY <1>1, <1>3, <1>4, <1>5 DEF Alone
  <2>2. Written'
    BY <1>1, <1>3, <1>4, <1>5 DEF Written
  <2>3. Undisturbed'
    BY <1>1, <1>3, <1>4, <1>5 DEF Undisturbed, Calm
  <2>4. InStep'
    BY <1>1, <1>3, <1>4, <1>5 DEF InStep, Along
  <2>5. RefusedLeavesNothing'
    BY <1>1, <1>3, <1>4, <1>5 DEF RefusedLeavesNothing, LeavesNothing, Edits
  <2>6. Landed'
    BY <1>1, <1>3, <1>4, <1>5 DEF Landed
  <2> QED  BY <2>1, <2>2, <2>3, <2>4, <2>5, <2>6
<1> QED  BY <1>steady, <1>12, <1>13, <1>14, <1>15, <1>16, <1>17, <1>18, <1>19 DEF Inv

-----------------------------------------------------------------------------
(* Errors, kills and everyone else.                                       *)

LEMMA FailKeeps ==
  ASSUME Inv, NEW p \in Procs, Fail(p)
  PROVE  Inv'
<1>1. TypeOK /\ Shapes /\ Planned /\ Numbered /\ Told /\ Standing /\ Staged
      /\ Opened /\ Steadied
  BY Shaped DEF Inv
<1>2. ~Shared => /\ Alone /\ Written /\ Undisturbed /\ InStep
                 /\ RefusedLeavesNothing /\ Landed
  BY DEF Inv
<1>3. /\ pc[p] \in {"loaded", "checked", "based", "built", "running"} /\ pc'[p] = "idle"
      /\ outcome'[p] = "failed" /\ built'[p] = None
      /\ open'[p].op = "none"
      /\ journal' \subseteq journal /\ (\A i \in journal : i = at[p] \/ i \in journal')
      /\ (\A q \in Procs : q # p => pc'[q] = pc[q] /\ outcome'[q] = outcome[q]
              /\ built'[q] = built[q] /\ shown'[q] = shown[q] /\ open'[q] = open[q])
      /\ UNCHANGED <<view, undo, text, revision, made, plan, saved, done, at, already,
                     stands, steady, moved, torn, stale, applies, others>>
  BY <1>1 DEF Shapes, Fail, Fault, End, Goto, Register!Abandon, Register!Closed,
     register, previews, store, local, history, bounds
<1>4. \A j : Digest(j)' = Digest(j)
  BY <1>3 DEF Digest
<1>5. \A j : Quiet(j)' <=> Quiet(j)
  BY <1>3 DEF Quiet
<1>6. Aimed(p)
  BY <1>1, <1>3, Aims
<1>7. open' \in [Procs -> [op : {"apply", "rollback", "none"}, seen : Gens \cup {None}]]
  BY <1>1, <1>3 DEF TypeOK, Register!TypeOK, Register!GenOrNone, Register!Kinds, Fail,
     Fault, End, Goto, Register!Abandon, Register!Closed
<1>8. journal' \subseteq saved'
  BY <1>1, <1>3, <1>6 DEF TypeOK, Numbered, Fail, Fault, End, Goto, Aimed
<1>9. pc' \in [Procs -> Steps]
  BY <1>1, <1>3 DEF TypeOK, Steps, Fail, Fault, End, Goto
<1>10. built' \in [Procs -> Gens \cup {None}] /\ shown' \in [Procs -> Texts]
  BY <1>1, <1>3, <1>6 DEF TypeOK, Texts, Fail, Fault, End, Goto, Aimed
<1>11. outcome' \in [Procs -> Outcomes]
  BY <1>1, <1>3 DEF TypeOK, Outcomes, Fail, Fault, End, Goto
<1>12. faults' \in 0 .. MaxFaults
  BY <1>1, BoundsAssumption DEF TypeOK, Fail, Fault, End, Goto, Register!Abandon,
     Register!Closed
<1>13. TypeOK'
  BY <1>1, <1>3, <1>4, <1>5, <1>7, <1>8, <1>9, <1>10, <1>11, <1>12 DEF TypeOK,
     Register!TypeOK, Register!GenOrNone, Register!Kinds
<1>14. Planned'
  BY <1>1, <1>3, <1>4, <1>5 DEF Planned
<1>15. Numbered'
  BY <1>1, <1>3, <1>4, <1>5 DEF Numbered
<1>16. Told'
  BY <1>1, <1>3, <1>4, <1>5 DEF Told
<1>17. Standing'
  BY <1>1, <1>3, <1>4, <1>5 DEF Standing
<1>18. Staged'
  BY <1>1, <1>3, <1>4, <1>5 DEF Staged, Edits
<1>19. Opened'
  BY <1>1, <1>3, <1>4, <1>5 DEF Opened
<1>steady. Steadied'
  BY <1>1, <1>3, <1>4, <1>5
     DEF Steadied, Edits, Numbered
<1>20. ASSUME ~Shared
      PROVE  /\ Alone' /\ Written' /\ Undisturbed' /\ InStep'
             /\ RefusedLeavesNothing' /\ Landed'
  <2> Alone /\ Written /\ Undisturbed /\ InStep /\ RefusedLeavesNothing /\ Landed
    BY <1>2, <1>20
  <2>1. Alone'
    BY <1>1, <1>3, <1>4, <1>5 DEF Alone
  <2>2. Written'
    BY <1>1, <1>3, <1>4, <1>5 DEF Written, Alone
  <2>3. Undisturbed'
    BY <1>1, <1>3, <1>4, <1>5 DEF Undisturbed, Calm
  <2>4. InStep'
    BY <1>1, <1>3, <1>4, <1>5 DEF InStep, Along
  <2>5. RefusedLeavesNothing'
    BY <1>1, <1>3, <1>4, <1>5 DEF RefusedLeavesNothing, LeavesNothing, Edits, Standing
  <2>6. Landed'
    BY <1>1, <1>3, <1>4, <1>5 DEF Landed
  <2> QED  BY <2>1, <2>2, <2>3, <2>4, <2>5, <2>6
<1> QED  BY <1>steady, <1>13, <1>14, <1>15, <1>16, <1>17, <1>18, <1>19, <1>20 DEF Inv

LEMMA KillKeeps ==
  ASSUME Inv, NEW p \in Procs, Kill(p)
  PROVE  Inv'
<1>1. TypeOK /\ Shapes /\ Planned /\ Numbered /\ Told /\ Standing /\ Staged
      /\ Opened /\ Steadied
  BY Shaped DEF Inv
<1>2. ~Shared => /\ Alone /\ Written /\ Undisturbed /\ InStep
                 /\ RefusedLeavesNothing /\ Landed
  BY DEF Inv
<1>3. /\ pc[p] # "idle" /\ pc'[p] = "idle" /\ outcome'[p] = "killed" /\ built'[p] = None
      /\ at'[p] = 0 /\ already'[p] = FALSE
      /\ open'[p].op = "none"
      /\ undo' \in {undo, view}
      /\ torn' = IF pc[p] \in {"edited", "restored"} THEN torn \cup {at[p]} ELSE torn
      /\ (\A q \in Procs : q # p => pc'[q] = pc[q] /\ outcome'[q] = outcome[q]
              /\ built'[q] = built[q] /\ shown'[q] = shown[q] /\ open'[q] = open[q]
                      /\ at'[q] = at[q]
              /\ already'[q] = already[q])
      /\ UNCHANGED <<view, text, revision, made, plan, saved, journal, done, stands,
                     steady, moved, stale, applies, others>>
  BY <1>1 DEF Shapes, Kill, Fault, Register!Cut, End, Goto, Register!Abandon,
     Register!Closed, register, previews, store, local, history, bounds
<1>4. \A j : Digest(j)' = Digest(j)
  BY <1>3 DEF Digest
<1>5. \A j : Quiet(j)' => Quiet(j) /\ (pc[p] \in {"edited", "restored"} => j # at[p])
  BY <1>1, <1>3 DEF Quiet
<1>6. Aimed(p)
  BY <1>1, <1>3, Aims
<1>7. undo' \in Gens \cup {None}
  BY <1>1, <1>3 DEF TypeOK, Register!TypeOK, Register!GenOrNone, Kill, Fault,
     Register!Cut, End, Goto, Register!Abandon, Register!Closed
<1>8. open' \in [Procs -> [op : {"apply", "rollback", "none"}, seen : Gens \cup {None}]]
  BY <1>1, <1>3 DEF TypeOK, Register!TypeOK, Register!GenOrNone, Register!Kinds, Kill,
     Fault, Register!Cut, End, Goto, Register!Abandon, Register!Closed
<1>9. pc' \in [Procs -> Steps]
  BY <1>1, <1>3 DEF TypeOK, Steps, Kill, Fault, End, Goto
<1>10. at' \in [Procs -> 0 .. made']
  BY <1>1, <1>3 DEF TypeOK, Kill, Fault, End, Goto
<1>11. built' \in [Procs -> Gens \cup {None}] /\ shown' \in [Procs -> Texts]
  BY <1>1, <1>3, <1>6 DEF TypeOK, Texts, Kill, Fault, End, Goto, Aimed
<1>12. already' \in [Procs -> BOOLEAN]
  BY <1>1, <1>3 DEF TypeOK, Kill, Fault, End, Goto
<1>13. outcome' \in [Procs -> Outcomes]
  BY <1>1, <1>3 DEF TypeOK, Outcomes, Kill, Fault, End, Goto
<1>14. torn' \subseteq saved'
  BY <1>1, <1>3, <1>6 DEF TypeOK, Numbered, Kill, Fault, End, Goto, Aimed
<1>15. faults' \in 0 .. MaxFaults
  BY <1>1, BoundsAssumption DEF TypeOK, Kill, Fault, Register!Cut, End, Goto,
     Register!Abandon, Register!Closed
<1>16. TypeOK'
  BY <1>1, <1>3, <1>4, <1>5, <1>7, <1>8, <1>9, <1>10, <1>11, <1>12, <1>13, <1>14,
     <1>15 DEF TypeOK, Register!TypeOK, Register!GenOrNone, Register!Kinds
<1>17. Planned'
  BY <1>1, <1>3, <1>4, <1>5 DEF Planned
<1>18. Numbered'
  BY <1>1, <1>3, <1>4, <1>5 DEF Numbered
<1>19. Told'
  BY <1>1, <1>3, <1>4, <1>5 DEF Told
<1>20. Standing'
  BY <1>1, <1>3, <1>4, <1>5 DEF Standing
<1>21. Staged'
  BY <1>1, <1>3, <1>4, <1>5 DEF Staged, Edits
<1>22. Opened'
  BY <1>1, <1>3, <1>4, <1>5 DEF Opened
<1>steady. Steadied'
  BY <1>1, <1>3, <1>4, <1>5
     DEF Steadied, Edits, Numbered
<1>23. ASSUME ~Shared
      PROVE  /\ Alone' /\ Written' /\ Undisturbed' /\ InStep'
             /\ RefusedLeavesNothing' /\ Landed'
  <2> Alone /\ Written /\ Undisturbed /\ InStep /\ RefusedLeavesNothing /\ Landed
    BY <1>2, <1>23
  <2>1. Alone'
    BY <1>1, <1>3, <1>4, <1>5 DEF Alone
  <2>2. Written'
    BY <1>1, <1>3, <1>4, <1>5 DEF Written
  <2>3. Undisturbed'
    BY <1>1, <1>3, <1>4, <1>5 DEF Undisturbed, Calm
  <2>4. InStep'
    BY <1>1, <1>3, <1>4, <1>5 DEF InStep, Along
  <2>5. RefusedLeavesNothing'
    BY <1>1, <1>3, <1>4, <1>5 DEF RefusedLeavesNothing, LeavesNothing, Edits
  <2>6. Landed'
    BY <1>1, <1>3, <1>4, <1>5 DEF Landed
  <2> QED  BY <2>1, <2>2, <2>3, <2>4, <2>5, <2>6
<1> QED  BY <1>steady, <1>16, <1>17, <1>18, <1>19, <1>20, <1>21, <1>22, <1>23 DEF Inv

LEMMA UserEditKeeps ==
  ASSUME Inv, NEW t \in Texts, UserEdit(t)
  PROVE  Inv'
<1>1. TypeOK /\ Shapes /\ Planned /\ Numbered /\ Told /\ Standing /\ Staged
      /\ Opened /\ Steadied
  BY Shaped DEF Inv
<1>2. ~Shared => /\ Alone /\ Written /\ Undisturbed /\ InStep
                 /\ RefusedLeavesNothing /\ Landed
  BY DEF Inv
<1>3. text' = t /\ moved' = moved \cup (1 .. made \ {0})
  BY <1>1 DEF Shapes, UserEdit, Other, Declare, Moved, register, previews, store, local,
     history, bounds
<1>4. (\A q \in Procs : ~stands'[q])
      /\ steady' = {q \in steady : pc[q] \in {"edited", "ran", "committed"}}
  BY <1>1 DEF Shapes, UserEdit, Other, Declare, Moved, register, previews, store, local,
     history, bounds
<1>5. UNCHANGED <<view, undo, open, revision, made, plan, saved, journal, done, pc,
                  at, shown, built, already, outcome, torn, stale, applies, faults>>
  BY <1>1 DEF Shapes, UserEdit, Other, Declare, Moved, register, previews, store, local,
     history, bounds
<1>6. \A j : Digest(j)' = Digest(j)
  BY <1>3, <1>4, <1>5 DEF Digest
<1>7. \A j : ~Quiet(j)'
  BY <1>1, <1>3, <1>4, <1>5 DEF Quiet, TypeOK
<1>8. text' \in Texts
  BY <1>1, <1>3, <1>4, <1>5 DEF TypeOK, Texts, UserEdit, Other, Declare, Moved
<1>9. stands' \in [Procs -> BOOLEAN]
  BY Declares DEF UserEdit
<1>10. moved' \subseteq 1 .. made'
  BY <1>1, <1>3, <1>4, <1>5 DEF TypeOK, UserEdit, Other, Declare, Moved
<1>11. others' \in 0 .. MaxOthers
  BY <1>1, BoundsAssumption DEF TypeOK, UserEdit, Other, Declare, Moved
<1>12. TypeOK'
  BY <1>1, <1>3, <1>4, <1>5, <1>6, <1>7, <1>8, <1>9, <1>10, <1>11 DEF TypeOK,
     Register!TypeOK, Register!GenOrNone, Register!Kinds
<1>13. Planned' /\ Numbered' /\ Told' /\ Staged' /\ Opened'
  BY <1>1, <1>3, <1>4, <1>5, <1>6, <1>7 DEF Planned, Numbered, Told, Staged,
     Edits, Opened
<1>14. Standing'
  BY <1>1, <1>3, <1>4, <1>5, <1>6, <1>7 DEF Standing
<1>steady. Steadied'
  BY <1>1, <1>3, <1>4, <1>5, <1>6, <1>7
     DEF Steadied, Edits, Numbered
<1>15. ASSUME ~Shared
      PROVE  /\ Alone' /\ Written' /\ Undisturbed' /\ InStep'
             /\ RefusedLeavesNothing' /\ Landed'
  <2> Alone /\ Written /\ Undisturbed /\ InStep /\ RefusedLeavesNothing /\ Landed
    BY <1>2, <1>15
  <2>1. Alone'
    BY <1>1, <1>3, <1>4, <1>5, <1>6, <1>7 DEF Alone
  <2>2. Written'
    BY <1>1, <1>3, <1>4, <1>5, <1>6, <1>7 DEF Written
  <2>3. Undisturbed'
    BY <1>1, <1>3, <1>4, <1>5, <1>6, <1>7 DEF Undisturbed, Calm
  <2>4. InStep'
    BY <1>1, <1>3, <1>4, <1>5, <1>6, <1>7 DEF InStep, Along
  <2>5. RefusedLeavesNothing'
    BY <1>1, <1>3, <1>4, <1>5, <1>6, <1>7 DEF RefusedLeavesNothing, LeavesNothing, Edits
  <2>6. Landed'
    BY <1>1, <1>3, <1>4, <1>5, <1>6, <1>7 DEF Landed
  <2> QED  BY <2>1, <2>2, <2>3, <2>4, <2>5, <2>6
<1> QED  BY <1>steady, <1>12, <1>13, <1>14, <1>15 DEF Inv

LEMMA UserUndoKeeps ==
  ASSUME Inv, NEW i \in Ids, UserUndo(i)
  PROVE  Inv'
<1>1. TypeOK /\ Shapes /\ Planned /\ Numbered /\ Told /\ Standing /\ Staged
      /\ Opened /\ Steadied
  BY Shaped DEF Inv
<1>2. ~Shared => /\ Alone /\ Written /\ Undisturbed /\ InStep
                 /\ RefusedLeavesNothing /\ Landed
  BY DEF Inv
<1>3. text' = plan[i].before /\ done' = done \ {Digest(i)} /\ i \in journal
  BY <1>1 DEF Shapes, UserUndo, Undoable, Other, Declare, Moved, register, previews,
     store, local, history, bounds
<1>4. moved' = moved \cup (1 .. made \ {0})
  BY <1>1 DEF Shapes, UserUndo, Undoable, Other, Declare, Moved, register, previews,
     store, local, history, bounds
<1>5. (\A q \in Procs : ~stands'[q])
      /\ steady' = {q \in steady : pc[q] \in {"edited", "ran", "committed"}}
  BY <1>1 DEF Shapes, UserUndo, Undoable, Other, Declare, Moved, register, previews,
     store, local, history, bounds
<1>6. UNCHANGED <<view, undo, open, revision, made, plan, saved, journal, pc, at,
                  shown, built, already, outcome, torn, stale, applies, faults>>
  BY <1>1 DEF Shapes, UserUndo, Undoable, Other, Declare, Moved, register, previews,
     store, local, history, bounds
<1>7. \A j : Digest(j)' = Digest(j)
  BY <1>3, <1>4, <1>5, <1>6 DEF Digest
<1>8. \A j : ~Quiet(j)'
  BY <1>1, <1>3, <1>4, <1>5, <1>6 DEF Quiet, TypeOK
<1>9. text' \in Texts
  BY <1>1, Plain DEF TypeOK, UserUndo, Undoable, Declare
<1>10. done' \subseteq {Digest(j)' : j \in saved'}
  BY <1>1, <1>3, <1>4, <1>5, <1>6, <1>7, <1>8 DEF TypeOK, Numbered, UserUndo, Undoable,
     Other, Declare, Moved
<1>11. stands' \in [Procs -> BOOLEAN]
  BY Declares DEF UserUndo
<1>12. moved' \subseteq 1 .. made'
  BY <1>1, <1>3, <1>4, <1>5, <1>6 DEF TypeOK, UserUndo, Undoable, Other, Declare, Moved
<1>13. others' \in 0 .. MaxOthers
  BY <1>1, BoundsAssumption DEF TypeOK, UserUndo, Undoable, Other, Declare, Moved
<1>14. TypeOK'
  BY <1>1, <1>3, <1>4, <1>5, <1>6, <1>7, <1>8, <1>9, <1>10, <1>11, <1>12, <1>13
     DEF TypeOK, Register!TypeOK, Register!GenOrNone, Register!Kinds
<1>15. Planned' /\ Numbered' /\ Told' /\ Staged' /\ Opened'
  BY <1>1, <1>3, <1>4, <1>5, <1>6, <1>7, <1>8 DEF Planned, Numbered, Told, Staged,
     Edits, Opened
<1>16. Standing'
  BY <1>1, <1>3, <1>4, <1>5, <1>6, <1>7, <1>8 DEF Standing
<1>steady. Steadied'
  BY <1>1, <1>3, <1>4, <1>5, <1>6, <1>7, <1>8
     DEF Steadied, Edits, Numbered
<1>17. ASSUME ~Shared
      PROVE  /\ Alone' /\ Written' /\ Undisturbed' /\ InStep'
             /\ RefusedLeavesNothing' /\ Landed'
  <2> Alone /\ Written /\ Undisturbed /\ InStep /\ RefusedLeavesNothing /\ Landed
    BY <1>2, <1>17
  <2>1. Alone'
    BY <1>1, <1>3, <1>4, <1>5, <1>6, <1>7, <1>8 DEF Alone
  <2>2. Written'
    BY <1>1, <1>3, <1>4, <1>5, <1>6, <1>7, <1>8 DEF Written
  <2>3. Undisturbed'
    BY <1>1, <1>3, <1>4, <1>5, <1>6, <1>7, <1>8 DEF Undisturbed, Calm
  <2>4. InStep'
    BY <1>1, <1>3, <1>4, <1>5, <1>6, <1>7, <1>8 DEF InStep, Along
  <2>5. RefusedLeavesNothing'
    BY <1>1, <1>3, <1>4, <1>5, <1>6, <1>7, <1>8 DEF RefusedLeavesNothing, LeavesNothing,
       Edits
  <2>6. Landed'
    BY <1>1, <1>3, <1>4, <1>5, <1>6, <1>7, <1>8 DEF Landed
  <2> QED  BY <2>1, <2>2, <2>3, <2>4, <2>5, <2>6
<1> QED  BY <1>steady, <1>14, <1>15, <1>16, <1>17 DEF Inv

LEMMA SourceMoveKeeps ==
  ASSUME Inv, SourceMove
  PROVE  Inv'
<1>1. TypeOK /\ Shapes /\ Planned /\ Numbered /\ Told /\ Standing /\ Staged
      /\ Opened /\ Steadied
  BY Shaped DEF Inv
<1>2. ~Shared => /\ Alone /\ Written /\ Undisturbed /\ InStep
                 /\ RefusedLeavesNothing /\ Landed
  BY DEF Inv
<1>3. revision' = revision + 1 /\ revision \in Nat /\ revision < MaxRevision
  BY <1>1, BoundsAssumption DEF TypeOK, SourceMove
<1>4. moved' = moved \cup (1 .. made \ {0})
  BY <1>1 DEF Shapes, SourceMove, Moved, register, previews, store, local, history, bounds
<1>5. UNCHANGED <<view, undo, open, text, made, plan, saved, journal, done, pc, at,
                  shown, built, already, outcome, stands, steady, torn, stale,
                  applies, others, faults>>
  BY <1>1 DEF Shapes, SourceMove, Moved, register, previews, store, local, history, bounds
<1>6. \A j : Digest(j)' = Digest(j)
  BY <1>3, <1>4, <1>5 DEF Digest
<1>7. \A j : ~Quiet(j)'
  BY <1>1, <1>3, <1>4, <1>5 DEF Quiet, TypeOK
<1>8. revision' \in 0 .. MaxRevision
  BY <1>1, BoundsAssumption DEF TypeOK, SourceMove, Moved
<1>9. moved' \subseteq 1 .. made'
  BY <1>1, <1>3, <1>4, <1>5 DEF TypeOK, SourceMove, Moved
<1>10. TypeOK'
  BY <1>1, <1>3, <1>4, <1>5, <1>6, <1>7, <1>8, <1>9 DEF TypeOK, Register!TypeOK,
     Register!GenOrNone, Register!Kinds
<1>11. Numbered' /\ Told' /\ Standing' /\ Opened'
  BY <1>1, <1>3, <1>4, <1>5, <1>6, <1>7 DEF Numbered, Told, Standing, Opened
<1>12. Planned'
  <2>1. \A i \in 1 .. made : plan[i].from \in Nat
    BY <1>1, Plain, BoundsAssumption
  <2> QED  BY <1>1, <1>3, <1>4, <1>5, <1>6, <1>7, <2>1 DEF Planned
<1>13. Staged'
  <2>1. ASSUME NEW p \in Procs, built[p] \in Gens
        PROVE  built[p].from \in Nat
    BY <2>1, BoundsAssumption DEF Gens
  <2> QED  BY <1>1, <1>3, <1>4, <1>5, <1>6, <1>7, <2>1 DEF Staged, Edits
<1>steady. Steadied'
  BY <1>1, <1>3, <1>4, <1>5, <1>6, <1>7
     DEF Steadied, Edits, Numbered
<1>14. ASSUME ~Shared
      PROVE  /\ Alone' /\ Written' /\ Undisturbed' /\ InStep'
             /\ RefusedLeavesNothing' /\ Landed'
  <2> Alone /\ Written /\ Undisturbed /\ InStep /\ RefusedLeavesNothing /\ Landed
    BY <1>2, <1>14
  <2>1. Alone' /\ Written' /\ RefusedLeavesNothing'
    BY <1>1, <1>3, <1>4, <1>5, <1>6, <1>7 DEF Alone, Written, RefusedLeavesNothing,
       LeavesNothing, Edits
  <2>2. Undisturbed'
    BY <1>1, <1>3, <1>4, <1>5, <1>6, <1>7 DEF Undisturbed, Calm
  <2>3. InStep'
    BY <1>1, <1>3, <1>4, <1>5, <1>6, <1>7 DEF InStep, Along
  <2>4. Landed'
    BY <1>1, <1>3, <1>4, <1>5, <1>6, <1>7 DEF Landed
  <2> QED  BY <2>1, <2>2, <2>3, <2>4
<1> QED  BY <1>steady, <1>10, <1>11, <1>12, <1>13, <1>14 DEF Inv

LEMMA ViewMoveKeeps ==
  ASSUME Inv, ViewMove
  PROVE  Inv'
<1>1. TypeOK /\ Shapes /\ Planned /\ Numbered /\ Told /\ Standing /\ Staged
      /\ Opened /\ Steadied
  BY Shaped DEF Inv
<1>2. ~Shared => /\ Alone /\ Written /\ Undisturbed /\ InStep
                 /\ RefusedLeavesNothing /\ Landed
  BY DEF Inv
<1>3. /\ moved' = moved \cup (1 .. made \ {0})
      /\ \/ view' = [declares |-> text, from |-> revision] /\ undo' \in {undo, view}
         \/ view' = undo /\ undo' = view
      /\ UNCHANGED <<open, text, revision, made, plan, saved, journal, done, pc, at,
                     shown, built, already, outcome, stands, steady, torn, stale,
                     applies, faults>>
  BY <1>1 DEF Shapes, ViewMove, Other, Moved, register, previews, store, local, history,
     bounds
<1>4. \A j : Digest(j)' = Digest(j)
  BY <1>3 DEF Digest
<1>5. \A j : ~Quiet(j)'
  BY <1>1, <1>3 DEF Quiet, TypeOK
<1>6. view' \in Gens \cup {None}
  <2>1. [declares |-> text, from |-> revision] \in Gens
    BY <1>1 DEF TypeOK, Gens
  <2> QED  BY <1>1, <2>1, <1>3, <1>4, <1>5 DEF TypeOK, Register!TypeOK, Register!GenOrNone
<1>7. undo' \in Gens \cup {None}
  BY <1>1, <1>3 DEF TypeOK, Register!TypeOK, Register!GenOrNone, ViewMove, Other, Moved
<1>8. moved' \subseteq 1 .. made'
  BY <1>1, <1>3 DEF TypeOK, ViewMove, Other, Moved
<1>9. others' \in 0 .. MaxOthers
  BY <1>1, BoundsAssumption DEF TypeOK, ViewMove, Other, Moved
<1>10. TypeOK'
  BY <1>1, <1>3, <1>4, <1>5, <1>6, <1>7, <1>8, <1>9 DEF TypeOK, Register!TypeOK,
     Register!GenOrNone, Register!Kinds
<1>11. Planned' /\ Numbered' /\ Told' /\ Standing' /\ Staged' /\ Opened'
  BY <1>1, <1>3, <1>4, <1>5 DEF Planned, Numbered, Told, Standing,
     Staged, Edits, Opened
<1>steady. Steadied'
  BY <1>1, <1>3, <1>4, <1>5
     DEF Steadied, Edits, Numbered
<1>12. ASSUME ~Shared
      PROVE  /\ Alone' /\ Written' /\ Undisturbed' /\ InStep'
             /\ RefusedLeavesNothing' /\ Landed'
  <2> Alone /\ Written /\ Undisturbed /\ InStep /\ RefusedLeavesNothing /\ Landed
    BY <1>2, <1>12
  <2>1. Alone' /\ Written' /\ RefusedLeavesNothing'
    BY <1>1, <1>3, <1>4, <1>5 DEF Alone, Written, RefusedLeavesNothing, LeavesNothing, Edits
  <2>2. Undisturbed'
    BY <1>1, <1>3, <1>4, <1>5 DEF Undisturbed, Calm
  <2>3. InStep'
    BY <1>1, <1>3, <1>4, <1>5 DEF InStep, Along
  <2>4. Landed'
    BY <1>1, <1>3, <1>4, <1>5 DEF Landed
  <2> QED  BY <2>1, <2>2, <2>3, <2>4
<1> QED  BY <1>steady, <1>10, <1>11, <1>12 DEF Inv

-----------------------------------------------------------------------------
(* Every step keeps the invariant.                                         *)

LEMMA InitInv == Init => Inv
<1> SUFFICES ASSUME Init PROVE Inv
  OBVIOUS
<1>1. made = 0 /\ 1 .. made = {}
  BY DEF Init
<1>2. \A i : ~Quiet(i)
  BY <1>1 DEF Quiet
<1>3. TypeOK
  <2>1. NoPlan \in Plans /\ {} \in Texts /\ 0 \in 0 .. MaxRevision
    BY BoundsAssumption DEF NoPlan, Plans, Texts
  <2> QED  BY <2>1, <1>1, BoundsAssumption
           DEF Init, TypeOK, Steps, Outcomes, Register!Init, Register!TypeOK,
              Register!GenOrNone,
               Register!Kinds, Register!Closed
<1>4. Planned /\ Numbered /\ Told /\ Standing /\ Staged /\ Steadied
  BY <1>1 DEF Init, Planned, Numbered, Told, Standing, Staged, Steadied
<1>5. Opened
  BY DEF Init, Register!Init, Register!Closed, Opened
<1>6. Alone /\ Written /\ RefusedLeavesNothing
  BY DEF Init, Alone, Written, RefusedLeavesNothing
<1>7. Undisturbed /\ InStep /\ Landed
  BY <1>2 DEF Undisturbed, InStep, Landed
<1> QED  BY <1>3, <1>4, <1>5, <1>6, <1>7 DEF Inv

LEMMA StutterKeeps ==
  ASSUME Inv, UNCHANGED vars
  PROVE  Inv'
<1>1. UNCHANGED <<view, undo, open, text, revision, made, plan, saved, journal, done,
                  pc, at, shown, built, already, outcome, stands, steady, moved, torn,
                  stale, applies, others, faults>>
  BY DEF vars, register, store, history, previews, local, bounds
<1>2. (\A i : Digest(i)' = Digest(i)) /\ (\A i : Quiet(i)' <=> Quiet(i))
  BY <1>1 DEF Digest, Quiet
<1>3. TypeOK'
  BY <1>1, <1>2 DEF Inv, TypeOK, Register!TypeOK, Register!GenOrNone, Register!Kinds
<1>4. (Planned /\ Numbered /\ Told /\ Standing /\ Staged /\ Opened /\ Steadied)'
  BY <1>1 DEF Inv, Planned, Numbered, Told, Standing, Staged, Edits, Opened, Steadied
<1>5. ASSUME ~Shared
      PROVE  (Alone /\ Written /\ RefusedLeavesNothing)' /\ (Undisturbed /\ InStep
                                                                 /\ Landed)'
  <2>1. (Alone /\ Written /\ RefusedLeavesNothing)'
    BY <1>1, <1>5 DEF Inv, Alone, Written, RefusedLeavesNothing, LeavesNothing, Edits
  <2>2. Undisturbed'
    BY <1>1, <1>2, <1>5 DEF Inv, Undisturbed, Calm
  <2>3. InStep' /\ Landed'
    BY <1>1, <1>2, <1>5 DEF Inv, InStep, Along, Landed
  <2> QED  BY <2>1, <2>2, <2>3
<1> QED  BY <1>3, <1>4, <1>5 DEF Inv

LEMMA ApplyKeeps ==
  ASSUME Inv, NEW p \in Procs, Apply(p)
  PROVE  Inv'
<1>1. CASE (\E i \in Ids : Refresh(p, i) \/ StaleSources(p, i)) \/ Check(p)
          \/ StalePreview(p)
  BY <1>1, RefreshKeeps, StaleSourcesKeeps, CheckKeeps, StalePreviewKeeps
<1>2. CASE ReadBase(p) \/ BaseMoved(p) \/ Reuse(p) \/ Build(p)
  BY <1>2, ReadBaseKeeps, BaseMovedKeeps, ReuseKeeps, BuildKeeps
<1>3. CASE RunSatisfied(p) \/ RunDrifted(p) \/ RunStart(p) \/ RunRefused(p)
  BY <1>3, RunSatisfiedKeeps, RunDriftedKeeps, RunStartKeeps, RunRefusedKeeps
<1>4. CASE Edit(p)
  BY <1>4, EditNothingKeeps, EditWritesKeeps
<1>5. CASE Mark(p)
  BY <1>5, MarkKeeps
<1>6. CASE MarkFail(p)
  BY <1>6, MarkFailUnwrittenKeeps, MarkFailUndoneKeeps
<1>7. CASE Commit(p)
  BY <1>7, CommitKeeps
<1>8. CASE CommitRefused(p)
  BY <1>8, CommitRefusedKeptKeeps, CommitRefusedUndoneKeeps
<1>9. CASE CommitFail(p)
  BY <1>9, CommitFailKeptKeeps, CommitFailUndoneKeeps
<1>10. CASE Restore(p) \/ RestoreRefused(p) \/ Unmark(p) \/ Report(p) \/ ReportFail(p)
  BY <1>10, RestoreKeeps, RestoreRefusedKeeps, UnmarkKeeps, ReportKeeps
<1>11. CASE Fail(p) \/ Kill(p)
  BY <1>11, FailKeeps, KillKeeps
<1> QED  BY <1>1, <1>2, <1>3, <1>4, <1>5, <1>6, <1>7, <1>8, <1>9, <1>10, <1>11 DEF Apply

LEMMA NextKeeps ==
  ASSUME Inv, [Next]_vars
  PROVE  Inv'
<1>1. CASE \E items \in Texts \ {{}} : Preview(items)
  BY <1>1, PreviewKeeps
<1>2. CASE \E p \in Procs : Apply(p)
  BY <1>2, ApplyKeeps
<1>3. CASE (\E t \in Texts : UserEdit(t)) \/ (\E i \in Ids : UserUndo(i))
  BY <1>3, UserEditKeeps, UserUndoKeeps
<1>4. CASE SourceMove \/ ViewMove
  BY <1>4, SourceMoveKeeps, ViewMoveKeeps
<1>5. CASE UNCHANGED vars
  BY <1>5, StutterKeeps
<1> QED  BY <1>1, <1>2, <1>3, <1>4, <1>5 DEF Next

-----------------------------------------------------------------------------
(* The theorems. *)

(* Whatever the processes, the user and the sources do in whatever order,  *)
(* the invariant holds.                                                    *)
THEOREM CompositionInvariant == Spec => []Inv
<1>1. Init => Inv
  BY InitInv
<1>2. Inv /\ [Next]_vars => Inv'
  BY NextKeeps
<1> QED  BY <1>1, <1>2, PTL DEF Spec

(* The variables keep their types: what is journaled was retained, what is *)
(* marked is the plan of a retained preview, and an application holds only *)
(* a preview that was made.                                                *)
THEOREM CompositionTyped == Spec => []TypeOK
<1>1. Inv => TypeOK
  BY DEF Inv
<1> QED  BY <1>1, CompositionInvariant, PTL

(* Two applications of one saved preview excepted, one that was refused or *)
(* failed before its commit (app/repertoire.rs, apply_repertoire) leaves   *)
(* no declaration of its own behind.                                       *)
THEOREM NothingLeft ==
  ASSUME ~Shared
  PROVE  Spec => []RefusedLeavesNothing
<1>1. Inv => RefusedLeavesNothing
  BY DEF Inv
<1> QED  BY <1>1, CompositionInvariant, PTL

(* With the same exception, a preview is refused only after someone else   *)
(* moved what it was computed from, after a kill inside its procedure, or  *)
(* when its plan was already marked as satisfied as it was made.           *)
THEOREM ReplayIsRefusedForCause ==
  ASSUME ~Shared
  PROVE  Spec => []ReplayLands
<1>1. Inv => ReplayLands
  BY DEF Inv, Landed, Numbered, Quiet, ReplayLands
<1> QED  BY <1>1, CompositionInvariant, PTL

(* What one process does changes nothing of where another is.             *)
LEMMA OtherApplies ==
  ASSUME NEW p \in Procs, NEW q \in Procs, Apply(q), q # p, pc \in [Procs -> Steps]
  PROVE  pc'[p] = pc[p]
<1>1. CASE (\E i \in Ids : Refresh(q, i) \/ StaleSources(q, i)) \/ Check(q)
          \/ StalePreview(q)
  BY <1>1 DEF Refresh, StaleSources, Check, StalePreview, End, Goto
<1>2. CASE ReadBase(q) \/ BaseMoved(q) \/ Reuse(q) \/ Build(q)
  BY <1>2 DEF ReadBase, BaseMoved, Reuse, Build, End, Goto
<1>3. CASE RunSatisfied(q) \/ RunDrifted(q) \/ RunStart(q) \/ RunRefused(q)
  BY <1>3 DEF RunSatisfied, RunDrifted, RunStart, RunRefused, End, Goto
<1>4. CASE Edit(q) \/ Mark(q) \/ MarkFail(q)
  BY <1>4 DEF Edit, Mark, MarkFail, End, Goto
<1>5. CASE Commit(q) \/ CommitRefused(q) \/ CommitFail(q)
  BY <1>5 DEF Commit, CommitRefused, CommitFail, End, Undoing, Goto
<1>6. CASE Restore(q) \/ RestoreRefused(q) \/ Unmark(q) \/ Report(q) \/ ReportFail(q)
  BY <1>6 DEF Restore, RestoreRefused, Unmark, Report, ReportFail, End, Goto
<1>7. CASE Fail(q) \/ Kill(q)
  BY <1>7 DEF Fail, Kill, End, Goto
<1> QED  BY <1>1, <1>2, <1>3, <1>4, <1>5, <1>6, <1>7 DEF Apply

LEMMA ReportStep ==
  ASSUME Inv, Next, NEW p \in Procs, outcome'[p] = "applied", pc'[p] # pc[p]
  PROVE  /\ view'.from = plan[at[p]].from
         /\ Edits(at[p]) \/ p \in steady => view'.declares = plan[at[p]].after
         /\ stands[p] => text' = plan[at[p]].after
<1>1. Shapes /\ Told /\ Standing /\ Staged /\ Steadied
  BY Shaped DEF Inv
<1>2. ~(\E items \in Texts \ {{}} : Preview(items)) /\ ~(\E t \in Texts : UserEdit(t))
      /\ ~(\E i \in Ids : UserUndo(i)) /\ ~SourceMove /\ ~ViewMove
  BY DEF Preview, UserEdit, UserUndo, SourceMove, ViewMove
<1>3. PICK q \in Procs : Apply(q)
  BY <1>2 DEF Next
<1>4. q = p
  BY <1>1, <1>3, OtherApplies DEF Shapes
<1>5. ASSUME ~Report(p)
      PROVE  outcome'[p] # "applied"
  <2>1. CASE \E i \in Ids : Refresh(p, i) \/ StaleSources(p, i)
    BY <2>1, <1>1 DEF Refresh, StaleSources, Begin, Shapes
  <2>2. CASE Check(p) \/ ReadBase(p) \/ Reuse(p) \/ Build(p) \/ RunSatisfied(p)
             \/ RunStart(p) \/ Edit(p) \/ Mark(p) \/ Commit(p) \/ Restore(p)
    <3>1. outcome' = outcome /\ pc[p] \notin {"idle", "restored"}
      BY <2>2 DEF Check, ReadBase, Reuse, Build, RunSatisfied, Satisfied, RunStart, Edit,
         Mark, Commit, Restore, local
    <3> QED  BY <3>1, <1>1 DEF Told
  <2>3. CASE StalePreview(p) \/ BaseMoved(p) \/ RunDrifted(p) \/ RunRefused(p)
             \/ MarkFail(p) \/ ReportFail(p) \/ Fail(p) \/ Kill(p)
    BY <2>3, <1>1 DEF StalePreview, BaseMoved, RunDrifted, RunRefused, MarkFail,
       ReportFail, Fail, Kill, End, Shapes
  <2>4. CASE CommitRefused(p) \/ CommitFail(p)
    BY <2>4, <1>1 DEF CommitRefused, CommitFail, End, Undoing, Shapes
  <2>5. CASE RestoreRefused(p) \/ Unmark(p)
    <3>1. outcome'[p] = outcome[p] /\ pc[p] \in {"undoing", "restored"}
      BY <2>5, <1>1 DEF RestoreRefused, Unmark, End, Shapes
    <3> QED  BY <3>1, <1>1 DEF Told
  <2> QED  BY <1>3, <1>4, <1>5, <2>1, <2>2, <2>3, <2>4, <2>5 DEF Apply
<1>6. pc[p] = "committed" /\ view = built[p] /\ view' = view /\ text' = text
  BY <1>5, <1>1 DEF Report, End, Shapes, register
<1>7. /\ built[p].from = plan[at[p]].from
      /\ Edits(at[p]) \/ p \in steady => built[p].declares = plan[at[p]].after
  BY <1>1, <1>6 DEF Staged, Steadied
<1>8. stands[p] => text = plan[at[p]].after
  BY <1>1, <1>6 DEF Inv, Standing, Numbered
<1> QED  BY <1>6, <1>7, <1>8

(* An application that reports success (app/repertoire.rs, the read back   *)
(* after the commit) leaves in force the generation that was reviewed, and *)
(* the declarations it made unless someone changed those since.  Where it  *)
(* edited nothing, the generation is the one reviewed unless someone       *)
(* changed the declarations between its refresh and its run.               *)
THEOREM ReportIsTrue == Spec => ReportHolds
<1>1. Inv /\ [Next]_vars =>
        [\A p \in Procs : outcome'[p] = "applied" /\ pc'[p] # pc[p] =>
           LET i == at[p] IN
           /\ view'.from = plan[i].from
           /\ Edits(i) \/ p \in steady => view'.declares = plan[i].after
           /\ stands[p] => text' = plan[i].after]_vars
  BY ReportStep
<1> QED  BY <1>1, CompositionInvariant, PTL DEF Spec, ReportHolds
=============================================================================
