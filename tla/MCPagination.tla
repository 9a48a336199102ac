---------------------------- MODULE MCPagination ----------------------------
(* TLC instances of Pagination.                                            *)
EXTENDS Pagination

CONSTANTS body, toc, unknown, a, b, MaxPages

At(name, n) == [name |-> name, at |-> n]
First(name) == [name |-> name]

(* Sections of one to three pages; the second pass answers as the first.   *)
Section(kind, pages, anchors) ==
    [kind |-> kind, pages |-> pages, answers |-> {pages}, anchors |-> anchors]
Estimated(section, n) == section @@ ("estimate" :> n)

Good ==
    {Section(body, 1, <<>>), Section(body, 2, <<At(a, 1)>>),
     Estimated(Section(toc, 1, <<First(b)>>), 2),
     Estimated(Section(body, 2, <<First(b), At(a, 0)>>), 0),
     Estimated(Section(body, 1, <<First(a)>>), 4)}

(* A kind without a template, a count of 0, an anchor beyond its section,  *)
(* and templates whose second answer is invalid or too large.              *)
Bad ==
    {Section(unknown, 1, <<>>), Section(body, 0, <<>>), Section(body, 1, <<At(a, 1)>>),
     [Section(body, 1, <<First(a)>>) EXCEPT !.answers = {0, 1, 2}]}

(* The bound on the pages of a plan keeps the instance small.              *)
PagesIn(p) == FoldLeft(LAMBDA n, s : n + s.pages, 0, p)

SteadyPlans ==
    {p \in BoundedSeq(Good, 3) : PagesIn(p) <= MaxPages}
        \cup {<<g, s>> : g \in {x \in Good : x.pages = 1}, s \in Bad}

(* Templates that answer differently in the second pass.                   *)
Unsteady(n, m, name) ==
    [Section(body, n, <<First(name)>>) EXCEPT !.answers = {n, m}]

UnsteadyPlans ==
    {<<Unsteady(1, 2, a), Unsteady(2, 1, b)>>, <<Unsteady(2, 1, b), Unsteady(1, 2, a)>>}
=============================================================================
