------------------------------- MODULE Shell --------------------------------
(***************************************************************************)
(* The shell, user/apps/shell/main.c: a line is edited, split into words   *)
(* and run, as a command of its own or as a program that it waits for.     *)
(*                                                                         *)
(* A symbol stands for one or a few characters: "a" for a letter, "cd" and *)
(* ".." for two of them.  The strings of main.c are sequences of symbols   *)
(* and keep their separators.  What the commands print is left out.        *)
(*                                                                         *)
(* The array args lives through the loop of main: a line without words     *)
(* leaves its first word as it was, and run looks at it all the same.      *)
(***************************************************************************)
EXTENDS Integers, Sequences, FiniteSets
LOCAL INSTANCE SequencesExt

CONSTANTS
  MAX_CMD,          \* 256
  MAX_ARGS,         \* 8
  MAX_ARG_LENGTH,   \* 64
  MAX_PARTS,        \* 64
  MAX_PART_LENGTH,  \* 64
  DIR_SIZE,         \* 256: current_dir and new_dir
  Programs,         \* paths that SYS_EXEC finds
  Lines             \* the keys of the lines that are typed

ASSUME ShellAssumption ==
  /\ {MAX_CMD, MAX_ARGS, MAX_PARTS, DIR_SIZE} \subseteq Nat \ {0}
  /\ MAX_ARG_LENGTH \in Nat \ {0} /\ MAX_PART_LENGTH = MAX_ARG_LENGTH

VARIABLES
  current_dir,
  command,    \* args[0]
  shell,      \* "prompt", "exec" (a child runs), "wait", "exited",
              \* "stuck" (in process_wait), "smashed" (new_dir overflowed)
  child,      \* the child's process has not exited
  moved       \* history: <<from, path>> of the last cd

shellVars == <<current_dir, command, shell, child, moved>>

Unset == <<"?">>

\* args is not initialized: its first byte may be 0 or not.
ShellInit ==
  /\ current_dir = <<"/">> /\ command \in {<<>>, Unset}
  /\ shell = "prompt" /\ child = FALSE /\ moved = <<>>

-----------------------------------------------------------------------------
\* The words of s between separators; empty ones are skipped.
Split(s, sep) ==
  SelectSeq(FoldLeft(LAMBDA words, c : IF c = sep THEN Append(words, <<>>)
                                       ELSE [words EXCEPT ![Len(words)] = Append(@, c)],
                     << <<>> >>, s),
            LAMBDA w : w # <<>>)

\* The loop of main that reads the keys of a line.
edit(keys) ==
  FoldLeft(LAMBDA buf, k : IF k = "backspace" THEN SubSeq(buf, 1, Len(buf) - 1)
                           ELSE IF Len(buf) < MAX_CMD - 1 THEN Append(buf, k) ELSE buf,
           <<>>, keys)

Cut(s, n) == SubSeq(s, 1, IF Len(s) < n THEN Len(s) ELSE n)

parse_command(cmd) ==
  LET words == Cut(Split(cmd, " "), MAX_ARGS)
  IN  [i \in 1 .. Len(words) |-> Cut(words[i], MAX_ARG_LENGTH - 1)]

push_part_root(parts, w) == IF w = <<"..">> THEN <<>> ELSE Append(parts, w)

\* A full array refuses ".." as well.
push_part(parts, w) ==
  IF Len(w) >= MAX_PART_LENGTH \/ Len(parts) >= MAX_PARTS THEN parts
  ELSE IF w = <<".">> THEN parts
  ELSE IF w = <<"..">> THEN SubSeq(parts, 1, Len(parts) - 1)
  ELSE Append(parts, w)

parse_into_parts(parts, path) ==
  FoldLeft(LAMBDA acc, w : push_part(acc, w), parts, Split(path, "/"))

Joined(parts) ==
  IF parts = <<>> THEN <<"/">>
  ELSE FoldLeft(LAMBDA acc, w : acc \o <<"/">> \o w, <<>>, parts)

new_dir(path) ==
  Joined(parse_into_parts(IF Head(path) # "/" THEN parse_into_parts(<<>>, current_dir)
                          ELSE <<>>, path))

-----------------------------------------------------------------------------
\* new_dir and current_dir hold DIR_SIZE bytes; nothing checks the length, and
\* what a longer path leaves of the directory and of the shell is unknown.
cmd_cd(args) ==
  /\ IF Len(args) < 2 THEN UNCHANGED <<current_dir, shell, moved>>
     ELSE /\ moved' = <<current_dir, args[2]>>
          /\ IF Len(new_dir(args[2])) >= DIR_SIZE THEN shell' = "smashed" /\ current_dir' = Unset
             ELSE current_dir' = new_dir(args[2]) /\ UNCHANGED shell
  /\ UNCHANGED child

\* sys_exec_argv of the path and of the path with .elf.
runs(word) ==
  LET path == IF Head(word) = "/" THEN word ELSE <<"/", "programs", "/">> \o word
  IN  path \in Programs \/ Append(path, ".elf") \in Programs

run(args, first) ==
  \/ first = <<>> /\ UNCHANGED <<current_dir, shell, child, moved>>
  \/ first = <<"exit">> /\ shell' = "exited" /\ UNCHANGED <<current_dir, child, moved>>
  \/ first = <<"cd">> /\ cmd_cd(args)
  \/ /\ first \notin {<<>>, <<"exit">>, <<"cd">>}
     /\ IF runs(first) THEN shell' = "exec" /\ child' = TRUE ELSE UNCHANGED <<shell, child>>
     /\ UNCHANGED <<current_dir, moved>>

\* main, from one prompt to the next.
Enter ==
  /\ shell = "prompt"
  /\ \E keys \in Lines : \E args \in {parse_command(edit(keys))} :
       LET first == IF args = <<>> THEN command ELSE args[1]
       IN  command' = first /\ run(args, first)

\* sys_wait at the end of run: process_wait blocks, also when the child has
\* exited by now, and then for good.
sys_wait ==
  /\ shell = "exec" /\ shell' = IF child THEN "wait" ELSE "stuck"
  /\ UNCHANGED <<current_dir, command, child, moved>>

\* The child exits and process_exit wakes the one that waits.
ChildExits ==
  /\ child /\ child' = FALSE /\ shell' = IF shell = "wait" THEN "prompt" ELSE shell
  /\ UNCHANGED <<current_dir, command, moved>>

ShellNext == Enter \/ sys_wait \/ ChildExits

-----------------------------------------------------------------------------
(* Properties.                                                             *)

\* A walk along the components of C: a name stays unless more ".." than
\* names follow it up to some point.
Count(C, S, i, j) == Cardinality({k \in i .. j : C[k] \in S})
Walk(C) ==
  LET Dots == {<<"..">>}
      Names == {C[k] : k \in 1 .. Len(C)} \ {<<"..">>, <<".">>}
      Stays(i) == C[i] \in Names /\ \A j \in i + 1 .. Len(C) :
                    Count(C, Dots, i + 1, j) <= Count(C, Names, i + 1, j)
      kept == SelectSeq([i \in 1 .. Len(C) |-> i], Stays)
  IN  [n \in 1 .. Len(kept) |-> C[kept[n]]]

(* cd leads where a walk along the path leads, from the root or from the   *)
(* directory before, whatever slashes, "." and ".." it has, and the        *)
(* directory kept is the plain path of that place, which the next cd       *)
(* starts from: as long as there are fewer than MAX_PARTS names (with that *)
(* many push_part ignores the rest, ".." too) and that path fits in        *)
(* new_dir, which is not checked (main.c:116-126).                         *)
DirRight ==
  moved # <<>> =>
    LET C == (IF Head(moved[2]) = "/" THEN <<>> ELSE Split(moved[1], "/")) \o Split(moved[2], "/")
        dir == Joined(Walk(C))
    IN  Len(C) < MAX_PARTS /\ Len(dir) < DIR_SIZE => current_dir = dir /\ shell # "smashed"
=============================================================================
