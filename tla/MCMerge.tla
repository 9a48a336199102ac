------------------------------- MODULE MCMerge ------------------------------
(* TLC instances of Merge, and of the Assembler it drives.                 *)
EXTENDS Merge

CONSTANTS mediaBox, resources, MaxEntries

(* Two pages that inherit from their tree, one name, and an object stream. *)
Inheriting ==
    [objects |-> {3, 5, 6, 9}, structural |-> {5}, pages |-> <<9, 3>>,
     parent |-> (3 :> 6 @@ 9 :> 6),
     attrs |-> (3 :> {mediaBox} @@ 5 :> {} @@ 6 :> {mediaBox, resources} @@ 9 :> {}),
     dests |-> <<[name |-> 2, page |-> 3]>>, namesBroken |-> FALSE]

(* A page two levels below the root of its tree, and two names in no order.*)
Nested ==
    [objects |-> {2, 4, 7}, structural |-> {}, pages |-> <<4>>,
     parent |-> (4 :> 7 @@ 7 :> 2),
     attrs |-> (2 :> {mediaBox, resources} @@ 4 :> {} @@ 7 :> {resources}),
     dests |-> <<[name |-> 3, page |-> 4], [name |-> 1, page |-> 4]>>,
     namesBroken |-> FALSE]

(* A parent chain that runs into a cycle below what the page lacks.        *)
Cyclic ==
    [objects |-> {1, 2}, structural |-> {}, pages |-> <<1>>,
     parent |-> (1 :> 2 @@ 2 :> 1), attrs |-> (1 :> {mediaBox} @@ 2 :> {}),
     dests |-> <<>>, namesBroken |-> FALSE]

(* A cycle that is never reached, because the page has all it needs.       *)
SelfContained ==
    [objects |-> {1}, structural |-> {}, pages |-> <<1>>,
     parent |-> (1 :> 1), attrs |-> (1 :> {mediaBox, resources}),
     dests |-> <<[name |-> 1, page |-> 1]>>, namesBroken |-> FALSE]

NoPages ==
    [objects |-> {1}, structural |-> {}, pages |-> <<>>,
     parent |-> <<>>, attrs |-> (1 :> {}), dests |-> <<>>, namesBroken |-> FALSE]

BrokenNames == [SelfContained EXCEPT !.namesBroken = TRUE]

ShardSet == {Inheriting, Nested, Cyclic, SelfContained, NoPages, BrokenNames}

(* Every list of levels, with one entry beyond the first page.             *)
OutlineSet ==
    {[i \in DOMAIN levels |-> [level |-> levels[i], page |-> IF i = 2 THEN p ELSE 0]] :
        levels \in BoundedSeq(0..2, MaxEntries), p \in {0, 2}}

Input(type, doc) == [type |-> type, doc |-> doc]

(* No outline, three levels of it with a branch, and outlines that are     *)
(* refused: by merge() itself or, beyond the last page, by finalize().     *)
Bookmark(title, page, children) ==
    [title |-> title, page |-> page, typed |-> TRUE, children |-> children]
Array(length) == <<>> :> [children |-> length]

Branch(k) ==
    (<<k>> :> Bookmark("branch", 0, 2)) @@ (<<k, 1>> :> Bookmark("twig", 1, 1))
    @@ (<<k, 1, 1>> :> Bookmark("leaf", 0, 0)) @@ (<<k, 2>> :> Bookmark("leaf", 0, 0))

OutlineTrees ==
    {Array(0),
     Array(2) @@ (<<1>> :> Bookmark("leaf", 0, 0)) @@ Branch(2),
     Array(2) @@ Branch(1) @@ (<<2>> :> Bookmark("end", 1, 0)),
     Array(1) @@ (<<1>> :> Bookmark("leaf", 2, 0)),
     Array(1) @@ (<<1>> :> Bookmark("leaf", -1, 0)),
     Array(1) @@ (<<1>> :> [Bookmark("leaf", 0, 0) EXCEPT !.typed = FALSE])}

InputLists ==
    {<<Input("path", Inheriting), Input("bytes", Nested)>>,
     <<Input("bytes", SelfContained), Input("path", Inheriting)>>,
     <<Input("file URL", Nested), Input("path", NoPages)>>,
     <<Input("bytes", Inheriting)>>, <<>>, <<Input("no bytes", Nested)>>}

DirectCall == [host |-> "direct", inputs |-> <<>>, outline |-> Array(0)]

CallSet ==
    {DirectCall} \cup
    [host : {"merge"}, inputs : InputLists, outline : OutlineTrees]
=============================================================================
