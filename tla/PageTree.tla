------------------------------ MODULE PageTree ------------------------------
(***************************************************************************)
(* push_down_inherited() of assembler.rs: a page climbs its /Parent chain  *)
(* to collect the inheritable attributes it lacks, because the chain is    *)
(* dropped when the page is put under the flat page tree of the output.    *)
(*                                                                         *)
(* A document is a record with `objects`, a set of object numbers, `attrs` *)
(* with the inheritable keys every object has, and `parent`, the /Parent   *)
(* of the objects that have one.  A value is named by the object it is     *)
(* taken from.                                                             *)
(***************************************************************************)
EXTENDS Naturals, FiniteSets

CONSTANT Keys   \* INHERITABLE_PAGE_KEYS

(* Before the loop: what the page itself lacks.                            *)
AtPage(shard, page) ==
    [current  |-> page,
     owner    |-> [k \in Keys \intersect shard.attrs[page] |-> page],
     seen     |-> {page},
     state    |-> "climbing"]

Missing(climb) == Keys \ DOMAIN climb.owner

(* Mutant of Collected: an ancestor overrides the ones below it.           *)
CollectedFromFarthest(shard, climb, p) ==
    [k \in DOMAIN climb.owner \cup shard.attrs[p] |->
        IF k \in shard.attrs[p] THEN p ELSE climb.owner[k]]

(* The attributes after a step to ancestor p: those found there.           *)
Collected(shard, climb, p) ==
    [k \in DOMAIN climb.owner \cup (Missing(climb) \intersect shard.attrs[p]) |->
        IF k \in DOMAIN climb.owner THEN climb.owner[k] ELSE p]

(* One turn of the while loop.                                             *)
ClimbTurn(shard, climb) ==
    LET p == shard.parent[climb.current]
    IN  IF climb.state # "climbing" \/ Missing(climb) = {} THEN climb
        ELSE IF climb.current \notin DOMAIN shard.parent THEN [climb EXCEPT !.state = "top"]
        ELSE IF p \in climb.seen \/ p \notin shard.objects
        THEN [climb EXCEPT !.state = "malformed"]
        ELSE [climb EXCEPT !.current = p,
                           !.owner = Collected(shard, climb, p),
                           !.seen = @ \cup {p}]

(* The loop ends within as many turns as there are objects to visit.       *)
Climbed(shard, page) ==
    LET turns == Cardinality(shard.objects) + 1
        turn[n \in 0..turns] ==
            IF n = 0 THEN AtPage(shard, page) ELSE ClimbTurn(shard, turn[n - 1])
    IN  turn[turns]

PushDownFails(shard) ==
    \E i \in DOMAIN shard.pages :
        Climbed(shard, shard.pages[i]).state = "malformed"

-----------------------------------------------------------------------------
(* What the page tree gives a page for key k: its own value, or what its   *)
(* parent has; 0 stands for none, as above the root or above an object     *)
(* whose parent is not in the document.                                    *)
Inherited(shard, page, k) ==
    LET value[o \in shard.objects] ==
            IF k \in shard.attrs[o] THEN o
            ELSE IF o \in DOMAIN shard.parent /\ shard.parent[o] \in shard.objects
            THEN value[shard.parent[o]] ELSE 0
    IN  value[page]
=============================================================================
