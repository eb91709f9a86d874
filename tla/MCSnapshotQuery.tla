--------------------------- MODULE MCSnapshotQuery ---------------------------
(* Three files.  External and default queries: every chain of them, those  *)
(* that come back to one of their files included, every allocation and     *)
(* every start.  Internal queries: up to three snapshots with any names    *)
(* and tables, on an image alone, on a backing file, or on one that is its *)
(* own backing file.                                                       *)
EXTENDS SnapshotQuery

CONSTANTS Mid, Base, A, B

MCFiles == {Top, Mid, Base}
MCNames == {A, B}

\* The backing files from Top down; a name that was there before closes a cycle.
Chains == {<<Top, NoFile>>, <<Top, Top>>, <<Top, Mid, NoFile>>, <<Top, Mid, Mid>>,
           <<Top, Mid, Top>>, <<Top, Mid, Base, NoFile>>, <<Top, Mid, Base, Base>>,
           <<Top, Mid, Base, Mid>>, <<Top, Mid, Base, Top>>}
BackingOf(ch) ==
    [f \in MCFiles |->
        IF \E k \in 1..(Len(ch) - 1) : ch[k] = f
        THEN ch[(CHOOSE k \in 1..(Len(ch) - 1) : ch[k] = f) + 1] ELSE NoFile]

InUse == {[c \in Clusters |-> IF c \in S THEN 1 ELSE 0] : S \in SUBSET Clusters \ {{}}}
            \cup {<<>>}

Outside ==
    {w \in [backing : {BackingOf(ch) : ch \in Chains}, active : [MCFiles -> InUse],
            snaps : {<<>>}, type : {"default", "external"},
            start : {Mid, Base, Star}, startSp : {Blank}, endSp : {Blank}] :
        /\ w.type = "default" => w.start = Star
        /\ w.type = "external" => w.backing[Top] # Top
        \* Files that are not in the chain hold nothing.
        /\ w.backing[Top] # Mid => w.active[Mid] = <<>>
        /\ (\A f \in {Top, Mid} : w.backing[f] # Base) => w.active[Base] = <<>>}

\* The places in the image are numbered as they come up.
SnapTables == [Clusters -> 0..2] \cup {<<>>}
Snaps == UNION {[1..n -> [name : MCNames, table : SnapTables]] : n \in 0..3}
Numbered(s) ==
    \A k \in DOMAIN s : \A c \in Clusters :
        Offset(s[k].table, c) = 2 => \E j \in 1..(k - 1) : Offset(s[j].table, c) = 1

Inside ==
    [backing : {BackingOf(ch) : ch \in {<<Top, NoFile>>, <<Top, Mid, NoFile>>, <<Top, Top>>}},
     active : {[f \in MCFiles |-> IF f = Mid THEN [c \in Clusters |-> 1] ELSE <<>>]},
     snaps : {s \in Snaps : Numbered(s)},
     type : {"internal"}, start : {Blank}, startSp : MCNames \cup {Star}, endSp : {A}]

MCWorlds == Outside \cup {w \in Inside : w.startSp # w.endSp}

\* Of these, the internal queries on a chain that ends.
MCPlainWorlds == {w \in Inside : w.startSp # w.endSp /\ w.backing[Top] # Top}
=============================================================================
