----------------------------- MODULE MCGenerate -----------------------------
(* TLC instances of Generate.                                              *)
EXTENDS Generate

CONSTANTS first, second

At(name, page) == [name |-> name, page |-> page]

(* The second shard may repeat the anchor of the first, or lack its own.   *)
TwoShards ==
    <<{[pages |-> 1, anchors |-> {}], [pages |-> 2, anchors |-> {At("toc", 1)}]},
      {[pages |-> 1, anchors |-> {At("end", 0)}], [pages |-> 1, anchors |-> {At("toc", 0)}]}>>
=============================================================================
