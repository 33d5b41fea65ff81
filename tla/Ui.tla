--------------------------------- MODULE Ui ---------------------------------
(***************************************************************************)
(* The retained user interface library (user/lib/window/ui): a program     *)
(* builds a tree of nodes once, hands the events of its window to          *)
(* ui_update and draws with ui_render into one of the two buffers of the   *)
(* window.  Only what was marked dirty is redrawn, and each buffer has its *)
(* own list of dirty rectangles.                                           *)
(*                                                                         *)
(* A pixel of the model is one glyph; paddings are left out.  A text is    *)
(* its length, so that different texts have different widths; the text of  *)
(* an image is 1 when there is a bitmap, the text of a pie chart its       *)
(* slices.  What a pixel shows is <<node, part, value>>.                   *)
(***************************************************************************)
EXTENDS Integers, Sequences, SequencesExt, FiniteSetsExt, TLC

CONSTANTS
  Trees,                  \* the trees that programs build: node -> attributes
  MAX_DIRTY_RECTS,        \* 32
  TEXT_FIELD_MAX_LENGTH,  \* 128
  SCROLL_SPEED,           \* 4
  Texts,                  \* texts that a program sets
  MaxEvents,              \* bound: events handed to ui_update
  MaxTime                 \* bound: seconds that pass

Handle == {1, 2}  \* the buffers of the window
Nobody == ""

VARIABLES
  tree,      \* the program's tree
  ui,        \* the fields of the nodes that change, and the library's globals:
             \*   at: node -> calculated_rect, hover: the hovered node, mouse: mouse_x and mouse_y of it,
             \*   focus: g_focused, text, row: hovered_row of a grid, scroll: scroll_y, index: of tabs,
             \*   dirty: buffer index -> [rects, full], prev: prev_buttons, time: g_ui_current_time, last: last_time
  g_bufs,    \* buffer index -> handle, 0: none
  shown,     \* handle -> what is painted in that buffer
  rendered,  \* history: the buffer that the last step rendered, 0: none
  events     \* bound: events so far

uiVars == <<tree, ui, g_bufs, shown, rendered, events>>

Kind(n) == tree[n].kind
Kids(n) == tree[n].kids
Width == tree["root"].w
Height == tree["root"].h
Pixel == (0 .. Width - 1) \X (0 .. Height - 1)

Rect(x, y, w, h) == [x |-> x, y |-> y, w |-> w, h |-> h]
NoRect == Rect(0, 0, 0, 0)
In(p, r) == p[1] \in r.x .. r.x + r.w - 1 /\ p[2] \in r.y .. r.y + r.h - 1

\* rect_intersect
Intersection(a, b) ==
  LET x1 == Max({a.x, b.x}) y1 == Max({a.y, b.y})
      x2 == Min({a.x + a.w, b.x + b.w}) y2 == Min({a.y + a.h, b.y + b.h})
  IN IF x2 <= x1 \/ y2 <= y1 THEN NoRect ELSE Rect(x1, y1, x2 - x1, y2 - y1)

\* gfx_set_clip: a rectangle that begins left of or above the surface keeps its size, and one beyond it too
Clamp(v, hi) == Min({Max({v, 0}), hi})
gfx_set_clip(r) ==
  Rect(Clamp(r.x, Width), Clamp(r.y, Height),
       IF r.x > Width THEN r.w ELSE Min({r.w, Width - r.x}),
       IF r.y > Height THEN r.h ELSE Min({r.h, Height - r.y}))

----------------------------------------------------------------------------
(* Measuring: what a node asks for. *)

Total(s) == FoldSeq(LAMBDA a, b : a + b, 0, s)
Greatest(s) == Max({0} \cup Range(s))
Before(s, i, gap) == Total([j \in 1 .. i - 1 |-> s[j] + gap])
\* the children in a row: sizes and the gaps between them, the last one taken off again
Stacked(s, gap) == LET t == Before(s, Len(s) + 1, gap) IN IF t > 0 THEN t - gap ELSE t

\* column c, from 0, of the values of the children of a grid, and row r
Column(s, cols, c) == [k \in 1 .. (Len(s) - c + cols - 1) \div cols |-> s[(k - 1) * cols + c + 1]]
Line(s, cols, r) == SubSeq(s, r * cols + 1, Min({(r + 1) * cols, Len(s)}))
Rows(n) == (Len(Kids(n)) + tree[n].cols - 1) \div tree[n].cols

RECURSIVE Preferred(_, _)
Preferred(s, n) ==
  LET p == [i \in DOMAIN Kids(n) |-> Preferred(s, Kids(n)[i])]
      w == [i \in DOMAIN p |-> p[i].w]
      h == [i \in DOMAIN p |-> p[i].h]
      cols == tree[n].cols
      gap == tree[n].gap
      own == CASE Kind(n) \in {"label", "button", "field"} -> [w |-> s.text[n], h |-> 1]
               [] Kind(n) = "img" -> [w |-> s.text[n], h |-> s.text[n]]
               [] Kind(n) = "pie" -> [w |-> 2, h |-> 2]
               [] Kind(n) = "vstack" -> [w |-> Greatest(w), h |-> Stacked(h, gap)]
               [] Kind(n) = "hstack" -> [w |-> Stacked(w, gap), h |-> Greatest(h)]
               [] Kind(n) = "grid" ->
                    [w |-> Stacked([c \in 1 .. cols |-> Greatest(Column(w, cols, c - 1))], gap),
                     h |-> Stacked([r \in 1 .. Rows(n) |-> Greatest(Line(h, cols, r - 1))], gap)]
               [] OTHER -> [w |-> 0, h |-> 0]
  IN [w |-> IF tree[n].size.w # 0 THEN tree[n].size.w ELSE own.w,
      h |-> IF tree[n].size.h # 0 THEN tree[n].size.h ELSE own.h]

----------------------------------------------------------------------------
(* Layout: the rectangle of every node. *)

\* the children along a stack's axis: what is left is divided among the expanding ones; the gap between
\* the ones that expand and the others is not counted
Along(n, size, wanted) ==
  LET grows(i) == tree[Kids(n)[i]].expand
      rigid == SelectSeq([i \in DOMAIN Kids(n) |-> i], LAMBDA i : ~grows(i))
      many == Len(Kids(n)) - Len(rigid)
      fixed == Stacked([k \in DOMAIN rigid |-> wanted[rigid[k]]], tree[n].gap)
  IN [i \in DOMAIN Kids(n) |->
        IF grows(i) THEN (size - fixed - tree[n].gap * (many - 1)) \div many ELSE wanted[i]]

\* and across it: where a child begins and how long it is
Across(n, at, size, wanted) ==
  CASE tree[n].align = "start" -> <<at, wanted>>
    [] tree[n].align = "end" -> <<at + size - wanted, wanted>>
    [] tree[n].align = "center" -> <<at + (size - wanted) \div 2, wanted>>
    [] OTHER -> <<at, size>>

ColumnWidths(n, width, wanted) ==
  LET cols == tree[n].cols
      sizing == tree[n].sizing
      fit == [c \in 1 .. cols |-> CASE sizing[c] = "fit" -> Greatest(Column(wanted, cols, c - 1))
                                    [] sizing[c] = "expand" -> 0
                                    [] OTHER -> tree[n].widths[c]]
      fill == {c \in 1 .. cols : sizing[c] = "expand"}
      left == Max({0, width - (cols - 1) * tree[n].gap - Total(fit)})
  IN [c \in 1 .. cols |->
        IF c \notin fill THEN fit[c]
        ELSE (left \div Cardinality(fill)) + (IF c = Max(fill) THEN left % Cardinality(fill) ELSE 0)]

\* the rectangles of the children of n when n has rectangle r; size is what measure_node found
ChildRects(s, size, n, r) ==
  LET kids == Kids(n)
      w == [i \in DOMAIN kids |-> size[kids[i]].w]
      h == [i \in DOMAIN kids |-> size[kids[i]].h]
      gap == tree[n].gap
      cols == tree[n].cols
  IN CASE Kind(n) = "vstack" ->
            LET hs == Along(n, r.h, h)
            IN [i \in DOMAIN kids |-> LET x == Across(n, r.x, r.w, w[i])
                                      IN Rect(x[1], r.y + Before(hs, i, gap), x[2], hs[i])]
       [] Kind(n) = "hstack" ->
            LET ws == Along(n, r.w, w)
            IN [i \in DOMAIN kids |-> LET y == Across(n, r.y, r.h, h[i])
                                      IN Rect(r.x + Before(ws, i, gap), y[1], ws[i], y[2])]
       [] Kind(n) = "grid" ->
            LET ws == ColumnWidths(n, r.w, w)
                hs == [k \in 1 .. Rows(n) |-> Greatest(Line(h, cols, k - 1))]
            IN [i \in DOMAIN kids |->
                  LET c == ((i - 1) % cols) + 1
                      k == ((i - 1) \div cols) + 1
                  IN Rect(r.x + Before(ws, c, gap), r.y + Before(hs, k, gap), ws[c], hs[k])]
       [] Kind(n) = "scroll" -> [i \in DOMAIN kids |-> Rect(r.x, r.y - s.scroll[n], r.w - 1, h[i])]
       [] Kind(n) = "tabs" -> [i \in DOMAIN kids |-> Rect(r.x, r.y + 1, r.w, r.h - 1)]
       [] OTHER -> [i \in DOMAIN kids |-> r]

\* <<node, rectangle>> for n and what is below it
RECURSIVE Layout(_, _, _, _)
Layout(s, size, n, r) ==
  {<<n, r>>} \cup UNION {UNION {Layout(s, size, Kids(n)[i], rects[i]) : i \in DOMAIN rects} :
                           rects \in {ChildRects(s, size, n, r)}}

----------------------------------------------------------------------------
(* Drawing. *)

Look(n, part, value) == <<n, part, value>>
TextAt(s, n) == <<Rect(s.at[n].x, s.at[n].y, s.text[n], 1), Look(n, "text", s.text[n])>>
Flag(b) == IF b THEN 1 ELSE 0
TitleLeft(n, i) == Total([j \in 1 .. i - 1 |-> tree[Kids(n)[j]].len])

\* draw_grid: the colour of a row; 0: none, as in a grid for which none are set
RowColour(s, n, k) ==
  IF ~tree[n].colours THEN 0 ELSE IF k = s.row[n] THEN 3 ELSE IF k = 0 THEN 1 ELSE IF k % 2 = 0 THEN 2 ELSE 0
RowRect(s, n, k) ==
  LET kid == s.at[Kids(n)[k * tree[n].cols + 1]] IN Rect(s.at[n].x, kid.y, s.at[n].w, kid.h)

\* what a node paints, in order: <<rectangle, look>>
Strokes(s, n) ==
  LET r == s.at[n]
      own == CASE Kind(n) = "label" -> <<TextAt(s, n)>>
               [] Kind(n) = "button" -> << <<r, Look(n, "face", Flag(s.hover = n))>>, TextAt(s, n)>>
               [] Kind(n) = "field" ->
                    IF s.focus = n THEN << <<r, Look(n, "focus", s.time % 2)>>, TextAt(s, n)>>
                    ELSE <<TextAt(s, n)>>
               [] Kind(n) = "img" /\ s.text[n] > 0 -> << <<Rect(r.x, r.y, 1, 1), Look(n, "img", 1)>> >>
               [] Kind(n) = "pie" -> << <<r, Look(n, "pie", s.text[n])>> >>
               [] Kind(n) = "grid" ->
                    LET lines == [k \in 1 .. Rows(n) |-> <<RowRect(s, n, k - 1), Look(n, "row", RowColour(s, n, k - 1))>>]
                    IN SelectSeq(lines, LAMBDA l : l[2][3] # 0)
               [] Kind(n) = "scroll" -> << <<Rect(r.x + r.w - 1, r.y, 1, r.h), Look(n, "bar", s.scroll[n])>> >>
               [] Kind(n) = "tabs" ->
                    [i \in DOMAIN Kids(n) |->
                       LET title == Rect(r.x + TitleLeft(n, i), r.y, tree[Kids(n)[i]].len, 1)
                       IN <<title, Look(Kids(n)[i], "title",
                                        IF i = s.index[n] THEN 2 ELSE Flag(s.hover = n /\ In(s.mouse, title)))>>]
               [] OTHER -> <<>>
  IN (IF tree[n].bg THEN << <<r, Look(n, "bg", 0)>> >> ELSE <<>>) \o own

\* draw_node: nodes that do not meet the dirty rectangle are skipped with what is below them, unless all is
\* dirty; gfx_rect, gfx_str and gfx_img paint inside the clipping rectangle only
RECURSIVE draw_node(_, _, _, _, _)
draw_node(s, n, clip, all, dirty) ==
  IF ~all /\ Intersection(s.at[n], dirty).w = 0 THEN <<>>
  ELSE LET inner == IF Kind(n) = "scroll" THEN gfx_set_clip(Intersection(clip, s.at[n])) ELSE clip
           kids == IF Kind(n) = "tabs" THEN <<Kids(n)[s.index[n]]>> ELSE Kids(n)
           own == Strokes(s, n)
       IN [k \in DOMAIN own |-> <<Intersection(own[k][1], clip), own[k][2]>>]
          \o FlattenSeq([k \in DOMAIN kids |-> draw_node(s, kids[k], inner, all, dirty)])

Screen == Rect(0, 0, Width, Height)
ui_draw(s, i) ==
  IF s.dirty[i].full THEN draw_node(s, "root", Screen, TRUE, NoRect)
  ELSE FlattenSeq([k \in DOMAIN s.dirty[i].rects |->
                     LET r == s.dirty[i].rects[k] IN draw_node(s, "root", gfx_set_clip(r), FALSE, r)])

\* the overlay of ui_set_perf, over whatever is drawn
Overlay == IF tree["root"].perf = 0 THEN <<>> ELSE << <<Rect(0, 0, tree["root"].perf, 1), Look("root", "perf", 0)>> >>

\* what a buffer shows after these strokes: at every pixel the last one over it
Painted(pic, strokes) ==
  [p \in Pixel |-> LET over == {k \in DOMAIN strokes : In(p, strokes[k][1])}
                   IN IF over = {} THEN pic[p] ELSE strokes[Max(over)][2]]

----------------------------------------------------------------------------
(* Marking: every change is due in both buffers. *)

MarkBuffer(d, r) ==
  IF Len(d.rects) >= MAX_DIRTY_RECTS THEN [d EXCEPT !.full = TRUE] ELSE [d EXCEPT !.rects = Append(@, r)]
\* a bug: once one list is full, only that buffer is told
MarkBuffers_first(s, r) ==
  IF Len(s.dirty[1].rects) >= MAX_DIRTY_RECTS THEN [s.dirty EXCEPT ![1].full = TRUE]
  ELSE [i \in 1 .. 2 |-> MarkBuffer(s.dirty[i], r)]
MarkBuffers(s, r) == [i \in 1 .. 2 |-> MarkBuffer(s.dirty[i], r)]
ui_mark_dirty(s, n) == [s EXCEPT !.dirty = MarkBuffers(s, s.at[n])]

\* ui_label_set_text, ui_img_set_img
SetText(s, n, text) == ui_mark_dirty([s EXCEPT !.text[n] = text], n)
\* redraw of the navigator and of the performance monitor: the list, then the texts one by one
redraw(s, text) ==
  FoldLeft(LAMBDA q, n : SetText(q, n, IF Kind(n) = "img" THEN Flag(text > 0) ELSE text),
           ui_mark_dirty(s, tree["root"].list), tree["root"].texts)

----------------------------------------------------------------------------
(* Events. *)

RECURSIVE hit_test(_, _, _)
hit_test(s, n, p) ==
  IF ~In(p, s.at[n]) THEN Nobody
  ELSE LET hits == SelectSeq([i \in DOMAIN Kids(n) |-> hit_test(s, Kids(n)[i], p)], LAMBDA h : h # Nobody)
       IN IF hits # <<>> THEN hits[1]
          ELSE IF Kind(n) \in {"button", "field", "grid", "tabs"} THEN n ELSE Nobody

ParentOf(n) == CHOOSE m \in DOMAIN tree : n \in Range(Kids(m))
RECURSIVE find_scrolling_node(_)
find_scrolling_node(n) ==
  IF Kind(n) = "scroll" THEN n ELSE IF n = "root" THEN Nobody ELSE find_scrolling_node(ParentOf(n))

\* the row of a grid that the mouse is on, among the rows a loop looks at; -1: none
RowUnder(s, n) ==
  LET hit == {k \in 0 .. Rows(n) - 1 : LET r == RowRect(s, n, k)
                                        IN s.mouse[2] \in r.y - s.at[n].y .. r.y - s.at[n].y + r.h - 1}
  IN IF hit = {} THEN -1 ELSE Min(hit)

\* _on_click of the node, then the program's on_click
OnClick(s, n, text) ==
  CASE Kind(n) = "tabs" ->
         LET under == {i \in DOMAIN Kids(n) : s.mouse[1] < TitleLeft(n, i + 1)}
         IN IF s.mouse[2] = 0 /\ under # {} THEN ui_mark_dirty([s EXCEPT !.index[n] = Min(under)], n) ELSE s
    [] Kind(n) = "grid" /\ tree[n].click /\ RowUnder(s, n) = 1 -> redraw(s, text)  \* a directory, in the first row
    [] Kind(n) = "button" /\ tree[n].click -> redraw(s, text)
    [] OTHER -> s

\* on_scroll of a scroll container
Scrolled(s, n, delta) ==
  LET most == Max({0, s.at[Kids(n)[1]].h - s.at[n].h})
  IN ui_mark_dirty([s EXCEPT !.scroll[n] = Clamp(s.scroll[n] + delta * SCROLL_SPEED, most)], n)

reset_hover(s, n) ==
  IF s.hover \in {Nobody, n} THEN s ELSE ui_mark_dirty([s EXCEPT !.hover = Nobody], s.hover)

Mouse_(s, p, down, delta, text) ==
  LET n == hit_test(s, "root", p)
      s1 == [reset_hover(s, n) EXCEPT !.prev = down]
      s2 == ui_mark_dirty([s1 EXCEPT !.hover = n, !.mouse = <<p[1] - s.at[n].x, p[2] - s.at[n].y>>], n)
      s3 == IF down /\ ~s.prev THEN OnClick([s2 EXCEPT !.focus = n], n, text) ELSE s2
      bar == find_scrolling_node(n)
  IN IF n = Nobody THEN s1
     ELSE IF delta # 0 /\ bar # Nobody THEN Scrolled(s3, bar, delta) ELSE s3

\* text_field_on_key; len counts the terminating zero
Key(s, backspace) ==
  LET n == s.focus
      len == s.text[n] + 1
  IN IF n = Nobody THEN s
     ELSE IF Kind(n) # "field" THEN s
     ELSE IF backspace THEN IF len > 1 THEN SetText(s, n, len - 2) ELSE s
     ELSE IF len >= TEXT_FIELD_MAX_LENGTH THEN s
     ELSE SetText(s, n, len)

ui_update ==
  /\ events < MaxEvents /\ events' = events + 1
  /\ \/ \E p \in tree["root"].points, down \in BOOLEAN, text \in Texts : ui' = Mouse_(ui, p, down, 0, text)
     \/ \E p \in tree["root"].points, delta \in {-3, 3} : ui' = Mouse_(ui, p, FALSE, delta, 0)
     \/ \E backspace \in BOOLEAN : ui' = Key(ui, backspace)
  /\ rendered' = 0
  /\ UNCHANGED <<tree, g_bufs, shown>>

----------------------------------------------------------------------------
(* Rendering. *)

\* grid_update, text_field_update
Updated(s, n) ==
  CASE Kind(n) = "grid" /\ s.hover = n ->
         LET k == RowUnder(s, n)
         IN IF k \in {-1, s.row[n]} THEN s ELSE ui_mark_dirty([s EXCEPT !.row[n] = k], n)
    [] Kind(n) = "grid" /\ s.hover # n ->
         IF s.row[n] = -1 THEN s ELSE ui_mark_dirty([s EXCEPT !.row[n] = -1], n)
    [] Kind(n) = "field" /\ s.focus = n /\ s.time # s.last -> ui_mark_dirty([s EXCEPT !.last = s.time], n)
    [] OTHER -> s

RECURSIVE update_node(_, _)
update_node(s, n) == FoldLeft(LAMBDA q, kid : update_node(q, kid), Updated(s, n), Kids(n))

get_fb_index(h) == IF h = g_bufs[1] THEN 1 ELSE IF h = g_bufs[2] THEN 2 ELSE IF g_bufs[1] # 0 THEN 2 ELSE 1

\* the clock is read by a field that has the focus only: it stands still otherwise
Clock == IF ui.focus # Nobody /\ Kind(ui.focus) = "field" THEN {ui.time, ui.time + 1} ELSE {ui.time}

ui_render(h) ==
  \E t \in Clock :
  \E s1 \in {update_node([ui EXCEPT !.time = t], "root")} :
  \E size \in {[n \in DOMAIN tree |-> Preferred(s1, n)]} :
  \E placed \in {Layout(s1, size, "root", Screen)} :
  \E s2 \in {[s1 EXCEPT !.at = [n \in DOMAIN tree |-> (CHOOSE l \in placed : l[1] = n)[2]]]} :
  \E strokes \in {ui_draw(s2, get_fb_index(h)) \o Overlay} :
    /\ t <= MaxTime
    /\ g_bufs' = [g_bufs EXCEPT ![get_fb_index(h)] = h]
    /\ shown' = [shown EXCEPT ![h] = Painted(@, strokes)]
    /\ ui' = [s2 EXCEPT !.dirty[get_fb_index(h)] = [rects |-> <<>>, full |-> FALSE]]
    /\ rendered' = h
    /\ UNCHANGED <<tree, events>>

----------------------------------------------------------------------------
\* main of the programs: the tree is built, the list filled, and ui_init is done with the first event
UiInit ==
  /\ tree \in Trees
  /\ \E text \in Texts :
       ui = redraw([at |-> [n \in DOMAIN tree |-> NoRect], hover |-> Nobody, mouse |-> <<0, 0>>, focus |-> Nobody,
                    text |-> [n \in DOMAIN tree |-> tree[n].len], row |-> [n \in DOMAIN tree |-> -1],
                    scroll |-> [n \in DOMAIN tree |-> 0], index |-> [n \in DOMAIN tree |-> 1],
                    dirty |-> [i \in 1 .. 2 |-> [rects |-> <<>>, full |-> TRUE]],
                    prev |-> FALSE, time |-> 0, last |-> 0], text)
  /\ g_bufs = <<0, 0>>
  /\ shown = [h \in Handle |-> [p \in Pixel |-> Look(Nobody, "blank", 0)]]
  /\ rendered = 0 /\ events = 0

UiNext == ui_update \/ \E h \in Handle : ui_render(h)

----------------------------------------------------------------------------
(* Properties. *)

\* A field that loses the focus is not marked, so that its outline stays.
Outlined(look) == look[2] = "focus" /\ look[1] # ui.focus

\* A text that is longer than its node reaches into the nodes beside it, and is
\* cut off or left behind there when one of those is drawn alone or the text set.
Spilt(p, look) == look[2] = "text" /\ ~In(p, ui.at[look[1]])

\* Whatever order events and renderings of the two buffers come in, and
\* however many rectangles were marked in between, a buffer that ui_render
\* has just drawn shows what drawing the whole tree into it would show, with
\* the overlay over it (ui_mark_dirty, ui_draw): all but an outline that a
\* field lost with the focus, and glyphs outside of their node.
BuffersCurrent ==
  rendered # 0 =>
    \A pic \in {Painted(shown[rendered], draw_node(ui, "root", Screen, TRUE, NoRect) \o Overlay)} :
    \A p \in Pixel :
      LET look == shown[rendered][p]
      IN look = pic[p] \/ Outlined(look) \/ Spilt(p, look) \/ Spilt(p, pic[p])
=============================================================================
