-------------------------------- MODULE MCUi --------------------------------
(* Trees for module Ui: the navigator's and the performance monitor's,     *)
(* with fewer rows and buttons.                                            *)
EXTENDS Ui

LOCAL Plain(kind, kids) ==
  [kind |-> kind, kids |-> kids, gap |-> 0, cols |-> 1, sizing |-> <<>>, widths |-> <<>>, align |-> "stretch",
   expand |-> FALSE, bg |-> FALSE, len |-> 0, click |-> FALSE, colours |-> FALSE, size |-> [w |-> 0, h |-> 0]]
LOCAL Leaf(kind, len) == [Plain(kind, <<>>) EXCEPT !.len = len]
LOCAL Grid(kids, sizing, click) ==
  [Plain("grid", kids) EXCEPT !.cols = Len(sizing), !.sizing = sizing, !.click = click]
LOCAL Root(kids, w, h, perf, points, list, texts) ==
  [Plain("root", kids) EXCEPT !.bg = TRUE] @@ [w |-> w, h |-> h, perf |-> perf, points |-> points, list |-> list, texts |-> texts]

Navigator ==
     "root" :> Root(<<"vstack">>, 4, 5, 2, {<<0, 0>>, <<2, 2>>, <<3, 2>>, <<1, 4>>}, "g_grid",
                    <<"g_path_lbl", "img1", "name1", "img2", "name2">>)
  @@ "vstack" :> [Plain("vstack", <<"toolbar", "path_bar", "scroll">>) EXCEPT !.gap = 1]
  @@ "toolbar" :> [Plain("hstack", <<"btn0", "btn1">>) EXCEPT !.align = "center"]
  @@ "btn0" :> Leaf("button", 1) @@ "btn1" :> Leaf("button", 2)
  @@ "path_bar" :> Grid(<<"g_path_lbl", "field", "up">>, <<"expand", "expand", "fit">>, FALSE)
  @@ "g_path_lbl" :> [Leaf("label", 1) EXCEPT !.bg = TRUE]
  @@ "field" :> Leaf("field", 0) @@ "up" :> [Leaf("button", 1) EXCEPT !.click = TRUE]
  @@ "scroll" :> [Plain("scroll", <<"g_grid">>) EXCEPT !.expand = TRUE]
  @@ "g_grid" :> [Grid(<<"head1", "head2", "img1", "name1", "img2", "name2">>, <<"fit", "expand">>, TRUE)
                    EXCEPT !.bg = TRUE, !.colours = TRUE]
  @@ "head1" :> Leaf("label", 0) @@ "head2" :> Leaf("label", 1)
  @@ "img1" :> Leaf("img", 1) @@ "name1" :> Leaf("label", 0)
  @@ "img2" :> Leaf("img", 1) @@ "name2" :> Leaf("label", 0)

Monitor ==
     "root" :> Root(<<"tabs">>, 4, 4, 0, {<<0, 0>>, <<2, 0>>, <<1, 1>>, <<2, 2>>, <<1, 3>>}, "s_grid",
                    <<"pid1", "pid2", "pid3">>)
  @@ "tabs" :> Plain("tabs", <<"list_tab", "perf_tab">>)
  @@ "list_tab" :> [Plain("tab", <<"vstack1">>) EXCEPT !.len = 1]
  @@ "perf_tab" :> [Plain("tab", <<"vstack2">>) EXCEPT !.len = 2]
  @@ "vstack1" :> Plain("vstack", <<"toolbar", "scroll">>)
  @@ "toolbar" :> [Plain("hstack", <<"refresh">>) EXCEPT !.align = "center"]
  @@ "refresh" :> [Leaf("button", 2) EXCEPT !.click = TRUE]
  @@ "scroll" :> [Plain("scroll", <<"s_grid">>) EXCEPT !.expand = TRUE]
  @@ "s_grid" :> [Grid(<<"head1", "head2", "pid1", "kill1", "pid2", "kill2", "pid3", "kill3">>,
                       <<"fit", "fit">>, FALSE) EXCEPT !.bg = TRUE, !.colours = TRUE]
  @@ "head1" :> Leaf("label", 1) @@ "head2" :> Leaf("label", 1)
  @@ "pid1" :> Leaf("label", 0) @@ "kill1" :> Leaf("button", 1)
  @@ "pid2" :> Leaf("label", 0) @@ "kill2" :> Leaf("button", 1)
  @@ "pid3" :> Leaf("label", 0) @@ "kill3" :> Leaf("button", 1)
  @@ "vstack2" :> [Plain("vstack", <<"memory", "pie">>) EXCEPT !.gap = 1]
  @@ "memory" :> Leaf("label", 3) @@ "pie" :> Leaf("pie", 1)

\* The navigator with the mouse on the field and on a button only, for longer runs.
FieldOnly == [Navigator EXCEPT !["root"].points = {<<1, 2>>, <<2, 0>>}]

MCTrees == {Navigator, Monitor, FieldOnly}
=============================================================================
