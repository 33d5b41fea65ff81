----------------------------- MODULE MCDesktop ------------------------------
(* Model checking of the compositor with its clients, of the user          *)
(* interface library and of the shell: a behaviour runs one of them and    *)
(* leaves the others as they begin.                                        *)
EXTENDS Dafne, MCUi, Shell

VARIABLE part  \* the module that runs

\* The shell's programs: one found as it is typed, one with .elf added.
MCPrograms == {<<"/", "programs", "/", "a">>, <<"/", "b", ".elf">>}

\* Lines with too few, too many and too long words, erased keys and paths of
\* every kind.
MCPaths == {<<"a">>, <<"b", "b">>, <<"..">>, <<".">>, <<"/">>, <<"/", "a">>, <<"a", "/", "..">>,
            <<"..", "/", "b">>, <<".", "/", "/", "a">>, <<"..", "/", "..">>, <<"/", "..", "/", "b">>,
            <<"a", "/", "b", "/", "..">>, <<"b", "b", "b", "b">>}
MCLines == {<<"cd", " ">> \o to : to \in MCPaths}
           \cup {<<>>, <<" ">>, <<"cd">>, <<"a">>, <<"/", "b">>, <<"b">>, <<"exit">>, <<" ", "cd", " ", " ", "a">>,
                 <<"backspace", "exit", "backspace", "cd", " ", "a", "backspace", "..">>, <<"cd", " ", "a", " ", "b", " ", "..">>}

AppSymmetry == Permutations(App)

-----------------------------------------------------------------------------
(* The compositor is looked at from three sides.  A program takes events   *)
(* other than paint events at once, which changes nothing that anyone else *)
(* sees, and spots of the mouse that come to the same are tried once.      *)
(* What happens when the list of windows is broken is not followed.        *)

Prompt(a) == app[a].at = "waiting" /\ down[a] # <<>> /\ Head(down[a]).type # "PAINT"
Tells(y, spot, left) ==
  \/ spot = "bar"
  \/ spot = "icon" /\ left
  \/ spot \in {"minimize", "close"} /\ \E w \in Slot : wins[w].exists /\ y \in TitleCells(w)

DesktopNext ==
  \/ \E a \in App : dafne_wait_event(a) /\ (Prompt(a) \/ ~\E b \in App : Prompt(b))
  \/ /\ loop = "desktop" => ~\E a \in App : Prompt(a)
     /\ \/ \E a \in App : dafne_connect(a) \/ dafne_window_present(a) \/ dafne_window_destroy(a) \/ Exit(a)
        \/ \E tick \in {0, 1} : compositor_update_desktop(tick)
        \/ handle_incoming
        \/ handle_present \/ handle_create \/ handle_destroy \/ handle_lost
        \/ \E y \in Cell, spot \in Spot, left \in BOOLEAN : Tells(y, spot, left) /\ handle_mouse(y, spot, left)
        \/ \E key \in BOOLEAN : handle_key(key)
        \/ compositor_run

Started == {a \in App : app[a].at # "start"}
Sides == {"windows", "pictures", "inputs"}

\* Windows of all programs, that are there before the first one exits and show
\* the same picture all the time; two programs with many pictures, that may
\* destroy their windows, and little input; two with few pictures and more input.
Side ==
  CASE part = "windows" ->
         /\ desktop'.time = 0
         /\ Started = App \/ \A a \in App : app'[a].at \in {"start", "waiting"}
         /\ \A a \in App : app'[a].drawn = 0 /\ app'[a].at # "closing"
    [] part = "pictures" -> Cardinality(Started') <= 2 /\ used' <= 1
    [] part = "inputs" ->
         /\ Cardinality(Started') <= 2
         /\ \A a \in App : app'[a].at # "closing" /\ app'[a].drawn <= 1

-----------------------------------------------------------------------------
MCInit ==
  /\ part \in Sides \cup {"ui", "shell"}
  /\ IF part # "shell" THEN command = <<>> ELSE TRUE
  /\ DafneInit /\ ShellInit
  /\ IF part = "ui" THEN UiInit
     ELSE tree = Monitor /\ ui = [focus |-> Nobody] /\ g_bufs = <<0, 0>> /\ shown = <<>> /\ rendered = 0 /\ events = 0

MCNext ==
  /\ UNCHANGED part
  /\ \/ part \in Sides /\ ~torn /\ DesktopNext /\ Side /\ UNCHANGED <<uiVars, shellVars>>
     \/ part = "ui" /\ UiNext /\ (events' < MaxEvents \/ tree = FieldOnly) /\ UNCHANGED <<dafneVars, shellVars>>
     \/ part = "shell" /\ ShellNext /\ UNCHANGED <<dafneVars, uiVars>>

MCSpec == MCInit /\ [][MCNext]_<<part, dafneVars, uiVars, shellVars>>
=============================================================================
