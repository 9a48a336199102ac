------------------------------- MODULE Outline ------------------------------
(***************************************************************************)
(* The bookmark tree that finalize() writes (outline.rs).  The input is a  *)
(* preorder list of entries with nesting levels; one pass with a stack of  *)
(* open ancestors and the last sibling of every level resolves the links.  *)
(* Entries are numbered from 1, and None stands for an absent link.        *)
(***************************************************************************)
EXTENDS Naturals, SequencesExt

None == 0

(* A deeper entry has a direct parent above it.                            *)
LevelsValid(entries) ==
    \A i \in DOMAIN entries :
        entries[i].level <= IF i = 1 THEN 0 ELSE entries[i - 1].level + 1

(* Entries from `start` on that lie below an entry of that level.          *)
DescendantCount(entries, start, level) ==
    Max({n \in 0..(Len(entries) + 1 - start) :
            \A j \in start..(start + n - 1) : entries[j].level > level})

(* Mutant of Resized: levels below an entry that has ended are kept.       *)
ResizedKeepingDeeper(siblings, level) ==
    [l \in (0..level) \cup DOMAIN siblings |->
        IF l \in DOMAIN siblings THEN siblings[l] ELSE None]

(* The last sibling per level, cut or grown to the levels up to `level`.   *)
Resized(siblings, level) ==
    [l \in 0..level |-> IF l \in DOMAIN siblings THEN siblings[l] ELSE None]

(* One turn of the loop: entry i closes the ancestors it does not lie      *)
(* under, links itself behind its sibling, and becomes an ancestor.        *)
OpenEntry(entries, acc, i) ==
    LET level       == entries[i].level
        ancestors   == SubSeq(acc.ancestors, 1, level)
        siblings    == Resized(acc.siblings, level)
        before      == siblings[level]
        descendants == DescendantCount(entries, i + 1, level)
        children    == {j \in (i + 1)..(i + descendants) :
                            entries[j].level = level + 1}
        item == [parent |-> IF ancestors = <<>> THEN None ELSE Last(ancestors),
                 prev   |-> before,
                 next   |-> None,
                 first  |-> IF descendants = 0 THEN None ELSE i + 1,
                 last   |-> IF descendants = 0 THEN None ELSE Max(children),
                 count  |-> descendants]
    IN  [ancestors |-> Append(ancestors, i),
         siblings  |-> [siblings EXCEPT ![level] = i],
         items     |-> Append([j \in DOMAIN acc.items |->
                                  IF j = before THEN [acc.items[j] EXCEPT !.next = i]
                                  ELSE acc.items[j]],
                              item)]

(* The links of every entry, and of the root of the tree.                  *)
Items(entries) ==
    LET start == [ancestors |-> <<>>, siblings |-> <<>>, items |-> <<>>]
        Open(acc, i) == OpenEntry(entries, acc, i)
    IN  FoldLeftDomain(Open, start, entries).items

Root(entries) ==
    LET top == {i \in DOMAIN entries : entries[i].level = 0}
    IN  [first |-> Min(top), last |-> Max(top), count |-> Len(entries)]

-----------------------------------------------------------------------------
(* The tree a preorder list describes, without the pass.                   *)
ParentOf(entries, i) ==
    Max({None} \cup {j \in 1..(i - 1) : entries[j].level < entries[i].level})

ChildrenOf(entries, p) == {i \in DOMAIN entries : ParentOf(entries, i) = p}

(* The first and the last of some entries, None when there are none.       *)
FirstOf(S) == IF S = {} THEN None ELSE Min(S)
LastOf(S) == IF S = {} THEN None ELSE Max(S)

(* items are the links of that tree, every item open: it counts everything *)
(* below it.                                                               *)
LinksTree(entries, items) ==
    /\ DOMAIN items = DOMAIN entries
    /\ \A i \in DOMAIN entries :
          LET parent   == ParentOf(entries, i)
              siblings == ChildrenOf(entries, parent)
              children == ChildrenOf(entries, i)
              Visible(c) == 1 + items[c].count
          IN  /\ items[i].parent = parent
              /\ items[i].prev = LastOf({j \in siblings : j < i})
              /\ items[i].next = FirstOf({j \in siblings : j > i})
              /\ items[i].first = FirstOf(children)
              /\ items[i].last = LastOf(children)
              /\ items[i].count = MapThenSumSet(Visible, children)
=============================================================================
