---------------------------- MODULE MCExtraction ----------------------------
(* TLC instances of Extraction.                                            *)
EXTENDS Extraction, SequencesExt

CONSTANTS x, y, MaxRanges

(* A source of three pages is replaced by one of two that inflates more,   *)
(* by something that is no PDF, and by one of four.                        *)
FourVersions ==
    <<[pages |-> 3, inflated |-> 1], [pages |-> 2, inflated |-> 2],
      [pages |-> 0, inflated |-> 0], [pages |-> 4, inflated |-> 1]>>

(* U32 is 8 here: 9 and -7 are 1 in three bits, and -1 is 7.               *)
Whole(n) == [whole |-> n, exact |-> TRUE]
WithFraction(n) == [whole |-> n, exact |-> FALSE]

Pages(start, end, output) ==
    [start |-> Whole(start), end |-> Whole(end), output |-> output, typed |-> TRUE]

SmallRanges == {Pages(1, 1, x), Pages(1, 2, y), Pages(2, 3, x), Pages(2, 1, y)}

OddRanges ==
    {Pages(9, 10, x), Pages(-7, 1, y), Pages(-1, -1, x),
     [Pages(1, 2, x) EXCEPT !.start = WithFraction(1)],
     [Pages(1, 2, y) EXCEPT !.typed = FALSE]}

RangeCalls ==
    {[fn |-> "extractRanges", input |-> type, ranges |-> ranges] :
        type \in {"path", "empty"},
        ranges \in BoundedSeq(SmallRanges, MaxRanges)
                      \cup BoundedSeq(SmallRanges \cup OddRanges, 2)}

Bags == {NoOptions, [NoOptions EXCEPT !.typed = FALSE]}
            \cup {[typed |-> TRUE, limit |-> n, limited |-> TRUE] : n \in {0, 1}}

Arrays == {[kind |-> "array", indices |-> s, typed |-> TRUE] : s \in {<<>>, <<0>>, <<2, 0>>, <<1, 1>>, <<-1>>}}
Spans == {[kind |-> "range", start |-> i, end |-> j, typed |-> TRUE] :
             i \in {0, 1}, j \in {1, 2, 3}}
Untyped == {[kind |-> "array", indices |-> <<0>>, typed |-> FALSE],
            [kind |-> "range", start |-> 0, end |-> 1, typed |-> FALSE]}
Selections == Arrays \cup Spans \cup Untyped \cup {[kind |-> "absent", typed |-> FALSE]}

ExtractCalls ==
    {[fn |-> "extract", input |-> type, outputType |-> "path", output |-> x,
      options |-> bag, annotations |-> "drop", pages |-> pages] :
        type \in {"path", "bytes", "no bytes"}, bag \in Bags, pages \in Selections}
    \cup
    {[fn |-> "extract", input |-> "file URL", outputType |-> type, output |-> x,
      options |-> NoOptions, annotations |-> word, pages |-> [kind |-> "array", indices |-> <<0>>, typed |-> TRUE]] :
        type \in {"file URL", "other URL"}, word \in {"drop", "keep"}}

CountCalls ==
    {[fn |-> "getPageCount", input |-> type, options |-> bag] :
        type \in {"path", "bytes", "other"}, bag \in Bags}

AllCalls == RangeCalls \cup ExtractCalls \cup CountCalls
=============================================================================
