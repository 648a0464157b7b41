----------------------------- MODULE Resolver -----------------------------
(***************************************************************************)
(* The resolution of one context (aikit-core resolve/mod.rs): the layers   *)
(* are folded, the managed policy forces what it requires, what is on is   *)
(* expanded depth first along its requirements, and what was reached is    *)
(* kept if nothing stands in its way.                                      *)
(*                                                                         *)
(* The request and what the catalogue, the policy and the trust oracle     *)
(* answer about it are chosen at the start and stay.  A layer is a patch,  *)
(* already in the order of precedence, with what its profiles turn on and  *)
(* off and with a rule as the set of capabilities that it matches.         *)
(* Capabilities have no order here: roots and requirements are taken in    *)
(* any, where the code goes by id and by declaration.                      *)
(***************************************************************************)
EXTENDS Integers, Sequences, FiniteSets, SequencesExt

CONSTANTS Capsule,
          Request,  \* [layers, require]: the layers, and what the policy requires
          Catalogue \* [known, needs, refused, clash]

Patch == [on : SUBSET Capsule, off : SUBSET Capsule]
Need  == {"no", "must", "may"}

ASSUME RequestAssumption ==
    Request \subseteq [layers : Seq(Patch), require : SUBSET Capsule]
\* known: what is in a registry; needs: its requirements, and which are optional;
\* refused: what the gates of availability() refuse; clash: conflicts, and pairs that
\* export one command.
ASSUME CatalogueAssumption ==
    Catalogue \subseteq [known : SUBSET Capsule, needs : [Capsule -> [Capsule -> Need]],
                         refused : SUBSET Capsule, clash : SUBSET (SUBSET Capsule)]

VARIABLES
    asked, catalogue, \* the request, and the answers to it
    phase, folded,    \* the place, and the layers folded
    declared,         \* the last word on a capability
    colour, path,     \* of the visit: the colours, and the capabilities being visited
    todo,             \* requirements a visited capability has yet to look at
    edges,            \* dependencies
    order,            \* capabilities in the order their visits ended
    checked,          \* how many of them the availability gate has seen
    active, unavailable,
    problems          \* fatal ones

input == <<asked, catalogue>>
visit == <<colour, path, todo, edges, order>>
gate  == <<checked, active, unavailable>>
resolverVars == <<input, phase, folded, declared, visit, gate, problems>>

ResolverInit ==
    /\ asked \in Request /\ catalogue \in Catalogue
    /\ phase = "fold" /\ folded = 0 /\ declared = [c \in Capsule |-> "silent"]
    /\ colour = [c \in Capsule |-> "white"] /\ path = <<>> /\ order = <<>>
    /\ todo = [c \in Capsule |-> {}] /\ edges = [c \in Capsule |-> {}]
    /\ checked = 0 /\ active = {} /\ unavailable = {} /\ problems = {}

Known == catalogue.known
Fails(why) == problems' = problems \cup {why}

-----------------------------------------------------------------------------
(* What is declared. *)

\* A bug: an enable outweighs a disable of its own layer.
SaidEnableLast(p, c) ==
    IF c \in p.on THEN "on" ELSE IF c \in p.off THEN "off" ELSE declared[c]
\* apply_patch: of one layer's words on a capability, a deny or disable comes last.
Said(p, c) == IF c \in p.off THEN "off" ELSE IF c \in p.on THEN "on" ELSE declared[c]

Fold ==
    /\ phase = "fold" /\ folded < Len(asked.layers) /\ folded' = folded + 1
    /\ declared' = [c \in Capsule |-> Said(asked.layers[folded + 1], c)]
    /\ UNCHANGED <<input, phase, visit, gate, problems>>

\* The policy has the last word, and what is on must exist.
ForcePolicy ==
    /\ phase = "fold" /\ folded = Len(asked.layers) /\ phase' = "expand"
    /\ declared' = [c \in Capsule |-> IF c \in asked.require THEN "on" ELSE declared[c]]
    /\ IF \E c \in Capsule \ Known : declared'[c] = "on" THEN Fails("unknown")
                                                         ELSE UNCHANGED problems
    /\ UNCHANGED <<input, folded, visit, gate>>

-----------------------------------------------------------------------------
(* expand and visit. *)

Roots == {c \in Known : declared[c] = "on"}
Top   == Last(path)

Enter(c) ==
    /\ colour' = [colour EXCEPT ![c] = "grey"] /\ path' = Append(path, c)
    /\ todo' = [todo EXCEPT ![c] = {d \in Capsule : catalogue.needs[c][d] # "no"}]

Root(c) ==
    /\ phase = "expand" /\ path = <<>> /\ c \in Roots /\ colour[c] = "white" /\ Enter(c)
    /\ UNCHANGED <<input, phase, folded, declared, edges, order, gate, problems>>

\* A requirement that is turned off, or that no registry has, is an error, or
\* skipped when it is optional.
Skip(d) ==
    /\ phase = "expand" /\ path # <<>> /\ d \in todo[Top]
    /\ declared[d] = "off" \/ d \notin Known
    /\ todo' = [todo EXCEPT ![Top] = @ \ {d}]
    /\ IF catalogue.needs[Top][d] = "must"
       THEN Fails(IF declared[d] = "off" THEN "disabled" ELSE "missing")
       ELSE UNCHANGED problems
    /\ UNCHANGED <<input, phase, folded, declared, colour, path, edges, order, gate>>

\* Another is visited, once; meeting one whose visit has not ended is a cycle.  The
\* code notes the edge on its way back, which nothing in between reads.
Look(d) ==
    /\ phase = "expand" /\ path # <<>> /\ d \in todo[Top]
    /\ declared[d] # "off" /\ d \in Known
    /\ edges' = [edges EXCEPT ![Top] = @ \cup {d}]
    /\ IF colour[d] = "white"
       THEN /\ colour' = [colour EXCEPT ![d] = "grey"] /\ path' = Append(path, d)
            /\ todo' = [todo EXCEPT ![Top] = @ \ {d},
                                    ![d] = {e \in Capsule : catalogue.needs[d][e] # "no"}]
            /\ UNCHANGED problems
       ELSE /\ todo' = [todo EXCEPT ![Top] = @ \ {d}] /\ UNCHANGED <<colour, path>>
            /\ IF colour[d] = "grey" THEN Fails("cycle") ELSE UNCHANGED problems
    /\ UNCHANGED <<input, phase, folded, declared, order, gate>>

\* A bug: a capability goes into the order before the last of its requirements.
LeaveEarly ==
    /\ phase = "expand" /\ path # <<>> /\ Cardinality(todo[Top]) <= 1
    /\ colour' = [colour EXCEPT ![Top] = "black"] /\ path' = Front(path)
    /\ todo' = [todo EXCEPT ![Top] = {}]
    /\ edges' = [edges EXCEPT ![Top] = @ \cup (todo[Top] \cap Known)]
    /\ order' = Append(order, Top)
    /\ UNCHANGED <<input, phase, folded, declared, gate, problems>>

Leave ==
    /\ phase = "expand" /\ path # <<>> /\ todo[Top] = {}
    /\ colour' = [colour EXCEPT ![Top] = "black"] /\ path' = Front(path)
    /\ order' = Append(order, Top)
    /\ UNCHANGED <<input, phase, folded, declared, todo, edges, gate, problems>>

Expanded ==
    /\ phase = "expand" /\ path = <<>> /\ phase' = "check"
    /\ \A c \in Roots : colour[c] # "white"
    /\ UNCHANGED <<input, folded, declared, visit, gate, problems>>

-----------------------------------------------------------------------------
(* availability and the conflicts. *)

\* A bug: a withheld requirement withholds nothing else.
WithheldAlone(c) == c \in catalogue.refused
\* Its own gates, and the cascade: a dependency found unavailable before.
Withheld(c) == c \in catalogue.refused \/ edges[c] \cap unavailable # {}

Check ==
    /\ phase = "check" /\ checked < Len(order) /\ checked' = checked + 1
    /\ LET c == order[checked + 1]
       IN  IF Withheld(c) THEN unavailable' = unavailable \cup {c} /\ UNCHANGED active
                          ELSE active' = active \cup {c} /\ UNCHANGED unavailable
    /\ UNCHANGED <<input, phase, folded, declared, visit, problems>>

Finish ==
    /\ phase = "check" /\ checked = Len(order) /\ phase' = "done"
    /\ IF \E pair \in catalogue.clash : pair \subseteq active THEN Fails("conflict")
                                                              ELSE UNCHANGED problems
    /\ UNCHANGED <<input, folded, declared, visit, gate>>

ResolverNext ==
    \/ Fold \/ ForcePolicy \/ Leave \/ Expanded \/ Check \/ Finish
    \/ \E c \in Capsule : Root(c) \/ Skip(c) \/ Look(c)

ResolverSpec == ResolverInit /\ [][ResolverNext]_resolverVars

-----------------------------------------------------------------------------
(* What a resolution is, without an order of steps. *)

\* The last layer that speaks of a capability decides, under the policy.
Speaks(i, c) == c \in asked.layers[i].on \cup asked.layers[i].off
Word(c) ==
    IF c \in asked.require THEN "on"
    ELSE IF \A i \in DOMAIN asked.layers : ~Speaks(i, c) THEN "silent"
    ELSE LET i == CHOOSE i \in DOMAIN asked.layers :
                    Speaks(i, c) /\ \A j \in DOMAIN asked.layers : Speaks(j, c) => j <= i
         IN  IF c \in asked.layers[i].off THEN "off" ELSE "on"

Usable(c)   == c \in Known /\ Word(c) # "off"
Wanted      == {c \in Known : Word(c) = "on"}
Follows(c)  == {d \in Capsule : catalogue.needs[c][d] # "no" /\ Usable(d)}
Closed(S)   == \A c \in S : Follows(c) \subseteq S
Selected    == {c \in Capsule : \A S \in SUBSET Capsule : Wanted \subseteq S /\ Closed(S) => c \in S}
Effective   == UNION {S \in SUBSET (Selected \ catalogue.refused) : Closed(S)}

Cyclic == \E S \in SUBSET Selected : S # {} /\ \A c \in S : Follows(c) \cap S # {}
Refusals ==
    {why \in {"unknown", "disabled", "missing", "cycle", "conflict"} :
        CASE why = "unknown"  -> \E c \in Capsule \ Known : Word(c) = "on"
          [] why = "disabled" -> \E c \in Selected, d \in Capsule :
                                    catalogue.needs[c][d] = "must" /\ Word(d) = "off"
          [] why = "missing"  -> \E c \in Selected, d \in Capsule \ Known :
                                    catalogue.needs[c][d] = "must" /\ Word(d) # "off"
          [] why = "cycle"    -> Cyclic
          [] why = "conflict" -> \E pair \in catalogue.clash : pair \subseteq Effective}

-----------------------------------------------------------------------------
(* Properties. *)

\* A resolution fails for the reasons the definition gives and for no other, and
\* one that does not fail has the view of the definition: in whatever order things
\* are visited, what is on, not withheld and not missing any of its requirements.
ResolvesAsDefined ==
    phase = "done" =>
        /\ problems \ {"conflict"} = Refusals \ {"conflict"}
        /\ problems \subseteq {"conflict"} => active = Effective /\ problems = Refusals

\* The gate looks a dependency up, so it must have come by before, unless a cycle
\* was reported.
DependenciesFirst ==
    "cycle" \notin problems =>
        \A i \in DOMAIN order : \A d \in edges[order[i]] : \E j \in 1 .. i - 1 : order[j] = d

\* "An optional requirement is expanded when available and skipped otherwise"
\* (aikit-core capsule.rs:409), so it withholds nothing.  But one that is refused
\* is a dependency that is not active, to the gate.
OptionalSkipped ==
    phase = "done" /\ problems = {} =>
        \A c \in unavailable \ catalogue.refused :
            \E d \in edges[c] \cap unavailable : catalogue.needs[c][d] = "must"
=============================================================================
