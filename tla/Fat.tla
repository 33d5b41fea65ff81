--------------------------------- MODULE Fat ---------------------------------
(***************************************************************************)
(* Files: kernel/filesystem/fat32.c, file.c and the choice of the disk in  *)
(* filesystem.c.  The disk does not change.  A directory is a chain of     *)
(* clusters of entries; a file with a long name has, before its own entry, *)
(* entries with pieces of the name, the last piece first.  Names are       *)
(* sequences of letters; case and the padding of short names are left out. *)
(* read starts at the first cluster at every call: there is no position.   *)
(***************************************************************************)
EXTENDS Integers, Sequences, FiniteSets, SequencesExt

CONSTANTS
  Images,          \* the disks
  Paths,           \* what programs open: sequences of names
  PIECE,           \* 13, letters in an entry of a long name
  CLUSTER,         \* bytes in a cluster
  MAX_OPEN_FILES,  \* 16, also FAT32_MAX_OPEN_FILES
  MaxCount         \* bound: bytes asked for

EOC == -1          \* 0x0FFFFFF8 and above
ROOT == 2          \* root_cluster of the disks
NoFile == [ok |-> FALSE, cluster |-> 0, size |-> 0, is_dir |-> FALSE]
PoolSlot == 1 .. MAX_OPEN_FILES

VARIABLES
  img,             \* the disk: fat, dir and data, by cluster
  fs,              \* "none", "mounted", "sector0" or "failed"
  handles,         \* file.c's pool: handle -> its fat32_file, 0 if free
  files            \* fat32.c's pool: fat32_file -> [used, file]

fatVars == <<img, fs, handles, files>>

FatInit ==
  /\ img \in Images /\ fs = "none"
  /\ handles = [h \in PoolSlot |-> 0]
  /\ files = [f \in PoolSlot |-> [used |-> FALSE, file |-> NoFile]]

-----------------------------------------------------------------------------
(* The walk over clusters and entries.                                     *)

\* The clusters from c on, by next_cluster.
Chain(c) ==
  LET N == Cardinality(DOMAIN img.fat)
      ch[k \in 0 .. N] == IF k = 0 THEN <<c>>
                          ELSE LET l == ch[k - 1] IN IF img.fat[Last(l)] = EOC THEN l
                                                     ELSE Append(l, img.fat[Last(l)])
  IN  ch[N]

Entries(c) == LET ch == Chain(c) IN FlattenSeq([i \in 1 .. Len(ch) |-> img.dir[ch[i]]])

\* A piece goes to its place in the buffer, the last one with a zero after it.
parse_lfn_name(buf, e) ==
  [i \in DOMAIN buf |-> IF i \in (e.seq - 1) * PIECE + 1 .. e.seq * PIECE THEN e.chars[i - (e.seq - 1) * PIECE]
                        ELSE IF e.last /\ i = e.seq * PIECE + 1 THEN 0 ELSE buf[i]]

\* Mutant: the pieces of a long name that was passed over are kept.
after_entry_keep(acc) == acc

\* No long name is pending after an entry that is no piece of one.
after_entry(acc) == [acc EXCEPT !.lfn = FALSE]

\* path_matches: the letters of the component, of which the name may have more.
path_matches(name, buf) == \A i \in 1 .. Len(name) : i \in DOMAIN buf /\ buf[i] = name[i]

\* One entry of the search for a component of a path.
search(name, acc, e) ==
  CASE acc.done -> acc
    [] ~acc.done /\ e.kind = "end" -> [acc EXCEPT !.done = TRUE]
    [] ~acc.done /\ e.kind = "piece" -> [acc EXCEPT !.buf = parse_lfn_name(@, e), !.lfn = TRUE]
    [] ~acc.done /\ e.kind \in {"deleted", "volume"} -> after_entry(acc)
    [] OTHER -> IF (acc.lfn /\ path_matches(name, acc.buf)) \/ e.short = name
                THEN [acc EXCEPT !.done = TRUE, !.hit = <<e>>] ELSE after_entry(acc)

Start == [done |-> FALSE, lfn |-> FALSE, hit |-> <<>>, buf |-> [i \in 1 .. 3 * PIECE + 1 |-> 0]]

FileOf(e) == [ok |-> TRUE, cluster |-> e.cluster, size |-> e.size, is_dir |-> e.kind = "dir"]
RootDir == [ok |-> TRUE, cluster |-> ROOT, size |-> 0, is_dir |-> TRUE]

\* open: component by component.  What a component names is taken for a directory
\* when another follows.
open(path) ==
  LET at[k \in 0 .. Len(path)] ==
        IF k = 0 THEN RootDir
        ELSE LET d == at[k - 1]
                 r == FoldLeft(LAMBDA acc, e : search(path[k], acc, e), Start, Entries(d.cluster))
             IN  IF ~d.ok \/ r.hit = <<>> THEN NoFile ELSE FileOf(r.hit[1])
  IN  at[Len(path)]

to_copy(remaining) == IF remaining < CLUSTER THEN remaining ELSE CLUSTER

\* read: whole clusters, the last one cut.
read(cluster, count) ==
  FoldLeft(LAMBDA got, c : IF Len(got) < count
                           THEN got \o SubSeq(img.data[c], 1, to_copy(count - Len(got))) ELSE got,
           <<>>, Chain(cluster))

\* fat32_readdir: long name if there is one; at most max entries.
list(max, acc, e) ==
  CASE acc.done -> acc
    [] ~acc.done /\ e.kind = "end" -> [acc EXCEPT !.done = TRUE]
    [] ~acc.done /\ e.kind \in {"deleted", "dot"} -> acc
    [] ~acc.done /\ e.kind = "piece" -> [acc EXCEPT !.buf = parse_lfn_name(@, e), !.lfn = TRUE]
    [] OTHER -> LET upTo == CHOOSE i \in 0 .. Len(acc.buf) - 1 :
                              acc.buf[i + 1] = 0 /\ \A j \in 1 .. i : acc.buf[j] # 0
                    name == IF acc.lfn THEN SubSeq(acc.buf, 1, upTo) ELSE e.short
                IN  [acc EXCEPT !.hit = Append(@, name), !.lfn = FALSE,
                                !.buf = Start.buf, !.done = Len(acc.hit) + 1 = max]
readdir(path, max) ==
  LET d == open(path)
  IN  IF d.ok /\ d.is_dir
      THEN FoldLeft(LAMBDA acc, e : list(max, acc, e), Start, Entries(d.cluster)).hit ELSE <<>>

-----------------------------------------------------------------------------
(* Operations.                                                             *)

\* fs_init: whether the drive answers and the partition table can be read.  From
\* an ATA drive whose table cannot be read sector 0 is taken for the volume.
fs_init(boot, drive, table) ==
  /\ fs = "none"
  /\ fs' = IF boot # "other" /\ drive /\ table THEN "mounted"
           ELSE IF drive /\ boot = "IDE" THEN "sector0" ELSE "failed"
  /\ UNCHANGED <<img, handles, files>>

FreeHandles == {h \in PoolSlot : handles[h] = 0}
FreeFiles == {f \in PoolSlot : ~files[f].used}
LowestOf(S) == CHOOSE x \in S : \A y \in S : x <= y

\* The place in the pool is given back when there is no such file.
taken(file) == file.ok

\* file_open, fat32_open: a place in each pool.
file_open(path) ==
  LET f == LowestOf(FreeFiles)
      file == open(path)
  IN  /\ fs = "mounted" /\ FreeHandles # {} /\ FreeFiles # {}
      /\ files' = [files EXCEPT ![f] = [used |-> taken(file), file |-> file]]
      /\ handles' = IF file.ok THEN [handles EXCEPT ![LowestOf(FreeHandles)] = f] ELSE handles
      /\ UNCHANGED <<img, fs>>

\* A program closes a file once.
file_close(h) ==
  /\ handles[h] # 0
  /\ files' = [files EXCEPT ![handles[h]].used = FALSE]
  /\ handles' = [handles EXCEPT ![h] = 0]
  /\ UNCHANGED <<img, fs>>

FatNext ==
  \/ \E boot \in {"IDE", "USB", "other"}, drive, table \in BOOLEAN : fs_init(boot, drive, table)
  \/ \E path \in Paths : file_open(path)
  \/ \E h \in PoolSlot : file_close(h)

FatSpec == FatInit /\ [][FatNext]_fatVars

-----------------------------------------------------------------------------
(* Properties.                                                             *)

\* Reference: an entry with the name it has to a user.
Named(c) ==
  LET es == Entries(c)
      end == SelectInSeq(es, LAMBDA e : e.kind = "end")
      live == IF end = 0 THEN es ELSE SubSeq(es, 1, end - 1)
  IN  {live[i] : i \in {j \in 1 .. Len(live) : live[j].kind \in {"file", "dir"}}}

Lookup(path) ==
  LET at[k \in 0 .. Len(path)] ==
        IF k = 0 THEN RootDir
        ELSE LET d == at[k - 1]
                 E == {e \in Named(d.cluster) : path[k] \in {e.short, e.long}}
             IN  IF ~d.ok \/ E = {} THEN NoFile ELSE FileOf(CHOOSE e \in E : TRUE)
  IN  at[Len(path)]

\* No long name on the way goes on after the component that is looked for.
NoLonger(path) ==
  \A k \in 1 .. Len(path), c \in DOMAIN img.dir : \A e \in Named(c) :
    ~(Len(e.long) > Len(path[k]) /\ SubSeq(e.long, 1, Len(path[k])) = path[k])

LeftBehind(c) == \E i \in 1 .. Len(Entries(c)) - 1 :
                   Entries(c)[i].kind = "piece" /\ Entries(c)[i + 1].kind = "deleted"

(* The two pools stay in step through opens that fail for want of a file:  *)
(* every fat32 file in use belongs to one open handle, so closing a handle *)
(* closes no other's file and a failed open uses nothing up.               *)
HandlesOwnFiles ==
  /\ \A f \in PoolSlot : files[f].used => \E h \in PoolSlot : handles[h] = f
  /\ \A h, g \in PoolSlot : handles[h] # 0 =>
       files[handles[h]].used /\ (handles[g] = handles[h] => g = h)

(* Opening a path finds the file that has it, in whatever order short and  *)
(* long names, deleted entries and volume labels lie in the directory and  *)
(* wherever its clusters end; pieces of a long name are never taken for    *)
(* another file's.  (Not when the component is only the beginning of       *)
(* another long name: path_matches takes that for equal.)  Reading it      *)
(* returns the bytes of its chain, as many as asked for or as there are,   *)
(* and a listing has every name once (unless a long name's pieces were     *)
(* left behind by a deleted entry: fat32_readdir gives the next entry that *)
(* name).  (A matter of the disk only: looked at when it has been mounted  *)
(* and no file is open.)  And the two pools stay in step.                  *)
FilesRight ==
  HandlesOwnFiles /\ (fs = "mounted" /\ FreeHandles = PoolSlot => \A path \in {p \in Paths : NoLonger(p)} :
    LET f == open(path)
        all == FlattenSeq([i \in 1 .. Len(Chain(f.cluster)) |-> img.data[Chain(f.cluster)[i]]])
        names == readdir(path, MaxCount)
    IN  /\ f = Lookup(path)
        /\ f.ok /\ ~f.is_dir => \A count \in 0 .. MaxCount :
             read(f.cluster, count) = SubSeq(all, 1, IF count < Len(all) THEN count ELSE Len(all))
        /\ f.ok /\ f.is_dir /\ ~LeftBehind(f.cluster) => \A e \in Named(f.cluster) :
             Cardinality({i \in 1 .. Len(names) :
                            names[i] = IF e.long = <<>> THEN e.short ELSE e.long}) = 1)
=============================================================================
