---------------------------- MODULE MCProcedures ----------------------------
(* Procedures over three paths: `a` and `c` free at first, `b` taken.      *)
EXTENDS Procedures, TLC

CONSTANTS a, b, c, old, new, own

Put(x, text) == [op |-> "put", path |-> x, text |-> text]
Move(x, y) == [op |-> "move", path |-> x, to |-> y]

FreeAndTaken == [x \in {a, b, c} |-> IF x = b THEN old ELSE Absent]

(* As adoption plans them: a link, then a move; a move, then a link where  *)
(* it was, which shares no path with the other's link.                     *)
LinksAndMoves == {<<Put(a, new), Move(b, c)>>,
                  <<Move(b, c), Put(b, new)>>}

AlsoA == {{a}}

AnyOrder == Permutations(Procs) \cup Permutations(Ids)
=============================================================================
