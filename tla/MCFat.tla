------------------------------- MODULE MCFat --------------------------------
(* Disks for module Fat: a root directory of several clusters with short   *)
(* and long names, a subdirectory, deleted entries and a volume label, in  *)
(* every order.                                                            *)
EXTENDS Fat

\* Directory entries: a file or directory with an 8.3 name, a piece of a long name.
Ent(kind, short, long, cluster, size) ==
  [kind |-> kind, short |-> short, long |-> long, cluster |-> cluster, size |-> size]
Piece(seq, last, chars) == [kind |-> "piece", seq |-> seq, last |-> last, chars |-> chars]

FileA == <<Ent("file", <<1>>, <<>>, 3, 3)>>
FileB == <<Piece(2, TRUE, <<3, 0>>), Piece(1, FALSE, <<1, 2>>), Ent("file", <<9>>, <<1, 2, 3>>, 4, 1)>>
DirD == <<Piece(1, TRUE, <<2, 2>>), Ent("dir", <<8>>, <<2, 2>>, 5, 0)>>
Orphan == <<Piece(1, TRUE, <<3, 0>>), Ent("deleted", <<7>>, <<>>, 0, 0)>>
Label == <<Ent("volume", <<6>>, <<>>, 0, 0)>>
TheEnd == Ent("end", <<0>>, <<>>, 0, 0)

\* A root directory of clusters with three entries.
Clusters(es) == [i \in 1 .. 4 |-> SubSeq(es, 3 * (i - 1) + 1, IF 3 * i < Len(es) THEN 3 * i ELSE Len(es))]
ImageOf(perm) ==
  LET root == Clusters(Append(FlattenSeq(perm), TheEnd))
      at == [c \in 2 .. 10 |-> CASE c = 2 -> 1 [] c = 7 -> 2 [] c = 8 -> 3 [] c = 9 -> 4 [] OTHER -> 0]
  IN  [fat |-> [c \in 2 .. 10 |-> CASE c = 2 -> 7 [] c = 7 -> 8 [] c = 8 -> 9 [] c = 3 -> 10 [] OTHER -> EOC],
       dir |-> [c \in 2 .. 10 |-> IF at[c] # 0 THEN root[at[c]]
                                  ELSE IF c = 5 THEN <<Ent("dot", <<46>>, <<>>, 5, 0), Ent("dot", <<46, 46>>, <<>>, 0, 0)>>
                                                      \o FileA \o <<TheEnd>>
                                  ELSE <<TheEnd>>],
       data |-> [c \in 2 .. 10 |-> <<c, c + 20>>]]
Blank == [fat |-> [c \in {2} |-> EOC], dir |-> [c \in {2} |-> <<TheEnd>>], data |-> [c \in {2} |-> <<2, 22>>]]
MCImages == {Blank} \cup {ImageOf(perm) : perm \in SetToSeqs({FileA, FileB, DirD, Orphan, Label})
                                              \cup SetToSeqs({FileA, FileB, DirD, Label})}
MCPaths == {<<>>, << <<1>> >>, << <<1, 2, 3>> >>, << <<9>> >>, << <<3>> >>, << <<2, 2>>, <<1>> >>, << <<1>>, <<1>> >>, << <<2, 2>> >>}
=============================================================================
