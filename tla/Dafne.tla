------------------------------- MODULE Dafne --------------------------------
(***************************************************************************)
(* The compositor (user/apps/dafne), its clients and the protocol between  *)
(* them (user/lib/dafne/dafne.c): windows, the list that orders them, the  *)
(* two buffers of a window, input, and what is redrawn of the screen.      *)
(*                                                                         *)
(* A channel is a queue in each direction (module Channel).  The screen is *)
(* one column of Cell: a window has TITLE cells of title bar above HEIGHT  *)
(* cells of its own, the cursor has one cell and the status bar cell 0.    *)
(* Where the mouse points in the other direction is its spot: a button of  *)
(* the title bar, the rest of a window, or the icon in the bar at the left *)
(* where no window lies; the icon of the n-th window is at cell n.         *)
(* What lies beyond the edge of the screen is clipped (gfx.h).             *)
(* Clients are the navigator's and the performance monitor's main loop:    *)
(* they present once for each paint event.  One that has destroyed its     *)
(* window, as the library lets it and none here does, exits next.          *)
(***************************************************************************)
EXTENDS Integers, Sequences, SequencesExt, FiniteSetsExt

CONSTANTS
  App,               \* programs that open a window
  NoApp,
  WINDOW_MAX_COUNT,  \* windows, and the clients that alloc_client gives out: 10
  Cell,              \* cells of the screen: 0 .. n
  TITLE, HEIGHT,     \* cells of a window
  StartY,            \* where a window is opened: 100
  MaxInputs,         \* bound: mouse and key events and changes of the clock
  MaxPaints          \* bound: pictures a program draws

Slot == 0 .. WINDOW_MAX_COUNT - 1
Null == -1
Spot == {"minimize", "close", "bar", "icon"}

VARIABLES
  app,       \* program -> [at, handle, buf, drawn]; drawn is the number of its last picture
  pending,   \* connections that have not been accepted
  up, down,  \* program -> messages to and from the compositor
  wins,      \* s_window_pool
  clients,   \* s_client_pool: [exists, app, win]
  bufs,      \* program -> its two shared buffers -> what is painted there
  list,      \* [first, last, dragged, off]: s_windows, s_last_window, s_dragged_window
  pointer,   \* [y, icon, left, prev]: g_cursor, g_mouse.buttons, g_prev_cursor
  desktop,   \* [time, dirty]: the status bar and the dirty region of g_desktop
  full,      \* s_full_redraw
  loop,      \* where the main loop is: "desktop", "events", "keys" or "run"; or
             \* it has "crashed" or is "hung" on links that make a ring
  back, screen, \* g_backbuffer, g_screen: cell -> what is drawn there
  used,      \* bound: inputs and changes of the clock so far
  order,     \* history: the windows, the one that was chosen last first
  torn       \* history: a window has been taken out from between two others, or
             \* a slot whose window was destroyed before

progVars == <<app, pending, up, down, bufs>>
dafneVars == <<progVars, wins, clients, list, pointer, desktop, full, loop, back, screen, used, order, torn>>

NoWindow == [exists |-> FALSE, client |-> Null, moved |-> FALSE, hidden |-> FALSE, hover |-> "none",
             presented |-> FALSE, front |-> 0, y |-> 0, title_dirty |-> FALSE, dirty |-> FALSE,
             prev |-> Null, next |-> Null, owner |-> NoApp]
NoClient == [exists |-> FALSE, app |-> NoApp, win |-> Null]

DafneInit ==
  /\ app = [a \in App |-> [at |-> "start", handle |-> Null, buf |-> 0, drawn |-> 0]]
  /\ pending = <<>>
  /\ up = [a \in App |-> <<>>] /\ down = [a \in App |-> <<>>]
  /\ bufs = [a \in App |-> <<0, 0>>]
  /\ wins = [w \in Slot |-> NoWindow] /\ clients = [c \in Slot |-> NoClient]
  /\ list = [first |-> Null, last |-> Null, dragged |-> Null, off |-> 0]
  /\ pointer = [y |-> 0, icon |-> FALSE, left |-> FALSE, prev |-> 0]
  /\ desktop = [time |-> 0, dirty |-> Cell] /\ full = FALSE
  /\ loop = "desktop"
  /\ back = [c \in Cell |-> <<"blank">>] /\ screen = [c \in Cell |-> <<"blank">>]
  /\ used = 0
  /\ order = <<>> /\ torn = FALSE

-----------------------------------------------------------------------------
(* The programs.  Their steps are between two rounds of the compositor's   *)
(* loop: a message that is sent in the middle of one is read as if it had  *)
(* been sent before or after the round, and the compositor does not touch  *)
(* what a program paints (BuffersApart).                                   *)

Between == loop = "desktop"

dafneOnly == <<wins, clients, list, pointer, desktop, full, loop, back, screen, used, order, torn>>

\* dafne_connect and dafne_window_create
dafne_connect(a) ==
  /\ Between /\ app[a].at = "start" /\ app' = [app EXCEPT ![a].at = "waiting"]
  /\ pending' = Append(pending, a)
  /\ up' = [up EXCEPT ![a] = <<[type |-> "CREATE", handle |-> Null]>>]
  /\ UNCHANGED <<down, bufs, dafneOnly>>

\* dafne_wait_event
dafne_wait_event(a) ==
  LET ev == Head(down[a])
  IN  /\ Between /\ app[a].at = "waiting" /\ down[a] # <<>>
      /\ down' = [down EXCEPT ![a] = Tail(@)]
      /\ app' = CASE ev.type = "CREATE" -> [app EXCEPT ![a].handle = ev.handle]
                  [] ev.type = "PAINT"  -> [app EXCEPT ![a].at = "painting", ![a].buf = ev.handle]
                  [] ev.type = "CLOSE"  -> [app EXCEPT ![a].at = "gone"]
                  [] OTHER              -> app
      /\ UNCHANGED <<pending, up, bufs, dafneOnly>>

\* ui_render into the buffer of the paint event, and dafne_window_present.
dafne_window_present(a) ==
  /\ Between /\ app[a].at = "painting" /\ app[a].drawn < MaxPaints
  /\ app' = [app EXCEPT ![a].at = "waiting", ![a].drawn = @ + 1]
  /\ bufs' = [bufs EXCEPT ![a][app[a].buf + 1] = app[a].drawn + 1]
  /\ up' = [up EXCEPT ![a] = Append(@, [type |-> "PRESENT", handle |-> app[a].handle])]
  /\ UNCHANGED <<pending, down, dafneOnly>>

dafne_window_destroy(a) ==
  /\ Between /\ app[a].at = "waiting" /\ app[a].handle # Null /\ app' = [app EXCEPT ![a].at = "closing"]
  /\ up' = [up EXCEPT ![a] = Append(@, [type |-> "DESTROY", handle |-> app[a].handle])]
  /\ UNCHANGED <<pending, down, bufs, dafneOnly>>

\* The program exits or is killed, which closes its end of the channel.  To the
\* compositor one that dies while it paints is one that has not yet taken the
\* paint event: half a picture would be in a buffer that is never shown.
Exit(a) ==
  /\ Between /\ app[a].at \in {"waiting", "closing"} /\ app' = [app EXCEPT ![a].at = "gone"]
  /\ UNCHANGED <<pending, up, down, bufs, dafneOnly>>

-----------------------------------------------------------------------------
(* The list of windows, on s = [wins, list].                               *)

\* The windows along the links of ws from the last one of a path on, each once.
RECURSIVE Path(_, _, _)
Path(ws, path, link) ==
  LET w == ws[Last(path)][link]
  IN  IF w = Null \/ w \in Range(path) THEN path ELSE Path(ws, Append(path, w), link)
From(w, link) == IF w = Null THEN <<>> ELSE Path(wins, <<w>>, link)

\* A loop over the links from w on does not end.
Endless(w, link) == w # Null /\ wins[Last(From(w, link))][link] # Null

\* add_window
add_window(s, w) ==
  LET f == s.list.first
      linked == IF f = Null THEN [s EXCEPT !.wins[w].next = Null, !.list.last = w]
                ELSE [s EXCEPT !.wins[f].prev = w, !.wins[w].next = f, !.wins[f].moved = TRUE]
  IN  [linked EXCEPT !.wins[w].prev = Null, !.list.first = w]

\* remove_window: the link back of the next window is taken after it was cleared.
remove_window(s, w) ==
  LET win == s.wins[w]
      heads == [s.list EXCEPT !.last = IF @ = w THEN win.prev ELSE @, !.first = IF @ = w THEN win.next ELSE @]
      w1 == IF win.prev = Null THEN s.wins ELSE [s.wins EXCEPT ![win.prev].next = win.next, ![w].prev = Null]
      w2 == IF win.next = Null THEN w1 ELSE [w1 EXCEPT ![win.next].prev = w1[w].prev, ![w].next = Null]
  IN  [wins |-> w2, list |-> heads]

\* window_focus
window_focus(s, w) ==
  LET f == s.list.first
      win == s.wins[w]
      w0 == [s.wins EXCEPT ![f].moved = TRUE]
      w1 == IF win.prev = Null THEN w0 ELSE [w0 EXCEPT ![win.prev].next = win.next]
      w2 == IF win.next = Null THEN w1 ELSE [w1 EXCEPT ![win.next].prev = win.prev]
  IN  IF w = f THEN s
      ELSE [wins |-> [w2 EXCEPT ![f].prev = w, ![w].prev = Null, ![w].next = f, ![w].moved = TRUE, ![w].hidden = FALSE],
            list |-> [s.list EXCEPT !.first = w, !.last = IF @ = w THEN win.prev ELSE @]]

\* window_show(w, false)
window_hide(s, w) == IF s.wins[w].hidden THEN s ELSE [s EXCEPT !.wins[w].hidden = TRUE, !.wins[w].moved = TRUE, !.wins[w].title_dirty = TRUE]

Chosen(w) == <<w>> \o SelectSeq(order, LAMBDA v : v # w)

\* client_post_event
Posted(q, c, ev) == IF c = Null \/ clients[c].app = NoApp THEN q ELSE [q EXCEPT ![clients[c].app] = Append(@, ev)]

-----------------------------------------------------------------------------
(* The main loop: the desktop, the clients, the input, the screen.         *)

Existing == SetToSortSeq({w \in Slot : wins[w].exists}, <)

\* compositor_update_desktop: the clock; and update_app_bar: the window whose
\* icon the mouse is at is focused as long as the button is down.
compositor_update_desktop(tick) ==
  LET w == Existing[pointer.y]
      s == window_focus([wins |-> wins, list |-> list], w)
      click == pointer.icon /\ pointer.left /\ pointer.y \in DOMAIN Existing
  IN  /\ loop = "desktop" /\ loop' = "events"
      /\ used + tick <= MaxInputs /\ used' = used + tick
      /\ desktop' = IF tick = 0 THEN desktop ELSE [time |-> (desktop.time + 1) % 2, dirty |-> desktop.dirty \cup {0}]
      /\ IF click THEN wins' = s.wins /\ list' = s.list /\ order' = Chosen(w) ELSE UNCHANGED <<wins, list, order>>
      /\ UNCHANGED <<progVars, clients, pointer, full, back, screen, torn>>

FreeOf(pool) == {i \in Slot : ~pool[i].exists}

\* handle_incoming: alloc_client finds a slot for a connection that waits, or the
\* compositor fails.
handle_incoming ==
  /\ loop = "events" /\ pending # <<>>
  /\ pending' = Tail(pending)
  /\ IF FreeOf(clients) = {} THEN loop' = "crashed" /\ UNCHANGED clients
     ELSE clients' = [clients EXCEPT ![Min(FreeOf(clients))] = [exists |-> TRUE, app |-> Head(pending), win |-> Null]]
          /\ UNCHANGED loop
  /\ UNCHANGED <<app, up, down, bufs, wins, list, pointer, desktop, full, back, screen, used, order, torn>>

\* handle_events: the clients in order, each until its channel is empty.  One
\* whose program has closed the channel is lost.
Work == {k \in Slot : clients[k].exists /\ (app[clients[k].app].at = "gone" \/ up[clients[k].app] # <<>>)}
Handled == loop = "events" /\ pending = <<>> /\ Work = {}
served == Min(Work)
sender == clients[served].app
Talking(type) ==
  loop = "events" /\ pending = <<>> /\ Work # {} /\ app[sender].at # "gone" /\ Head(up[sender]).type = type

\* window_swap_buffers
swapped(front) == 1 - front

\* COMP_WINDOW_PRESENT, of any window of the pool.
handle_present ==
  LET h == Head(up[sender]).handle
  IN  /\ Talking("PRESENT")
      /\ up' = [up EXCEPT ![sender] = Tail(@)]
      /\ wins' = [wins EXCEPT ![h].front = swapped(@), ![h].dirty = TRUE, ![h].presented = TRUE]
      /\ UNCHANGED <<app, pending, down, bufs, clients, list, pointer, desktop, full, loop, back, screen, used, order, torn>>

\* COMP_WINDOW_CREATE: no answer without a free window.  What the slot's last
\* window was, hidden or pointed at, the new one is too.
handle_create ==
  LET w == Min(FreeOf(wins))
      new == [wins EXCEPT ![w] = [@ EXCEPT !.exists = TRUE, !.front = 0, !.dirty = FALSE, !.y = StartY, !.title_dirty = TRUE,
                                           !.moved = TRUE, !.client = served, !.presented = TRUE, !.owner = sender]]
      s == add_window([wins |-> new, list |-> list], w)
  IN  /\ Talking("CREATE")
      /\ up' = [up EXCEPT ![sender] = Tail(@)]
      /\ IF FreeOf(wins) = {} THEN UNCHANGED <<wins, list, order, clients, down>>
         ELSE /\ wins' = s.wins /\ list' = s.list /\ order' = Chosen(w)
              /\ clients' = [clients EXCEPT ![served].win = w]
              /\ down' = Posted(down, served, [type |-> "CREATE", handle |-> w])
      /\ UNCHANGED <<app, pending, bufs, pointer, desktop, full, loop, back, screen, used, torn>>

\* The window w is removed and its buffers are freed; more is what else makes
\* the list wrong.
Removed(w, more) ==
  LET s == remove_window([wins |-> wins, list |-> list], w)
  IN  /\ wins' = [s.wins EXCEPT ![w].exists = FALSE] /\ list' = s.list /\ full' = TRUE
      /\ order' = SelectSeq(order, LAMBDA v : v # w)
      /\ torn' = (torn \/ more \/ (wins[w].prev # Null /\ wins[w].next # Null))

\* COMP_WINDOW_DESTROY: the client keeps its pointer to the window.
handle_destroy ==
  LET h == Head(up[sender]).handle
  IN  /\ Talking("DESTROY")
      /\ up' = [up EXCEPT ![sender] = Tail(@)]
      /\ IF wins[h].client # served THEN UNCHANGED <<wins, list, order, full, torn>> ELSE Removed(h, ~wins[h].exists)
      /\ UNCHANGED <<app, pending, down, bufs, clients, pointer, desktop, loop, back, screen, used>>

\* The connection is lost: so is the window the client points to, whoever has it now.
handle_lost ==
  LET w == clients[served].win
  IN  /\ loop = "events" /\ pending = <<>> /\ Work # {} /\ app[sender].at = "gone"
      /\ IF w = Null THEN UNCHANGED <<wins, list, order, full, torn>>
         ELSE Removed(w, ~wins[w].exists \/ wins[w].client # served)
      /\ clients' = [clients EXCEPT ![served] = NoClient]
      /\ UNCHANGED <<progVars, pointer, desktop, loop, back, screen, used>>

-----------------------------------------------------------------------------
(* Input.                                                                  *)

TitleCells(w) == wins[w].y .. wins[w].y + TITLE - 1
ClientCells(w) == wins[w].y + TITLE .. wins[w].y + TITLE + HEIGHT - 1

\* get_window_at_pos
get_window_at_pos(y) ==
  SelectSeq(From(list.first, "next"), LAMBDA w : ~wins[w].hidden /\ y \in TitleCells(w) \cup ClientCells(w))

\* The button of w that is at a place.
hit(w, y, spot) == IF y \in TitleCells(w) /\ spot \in {"minimize", "close"} THEN spot ELSE "none"

Hovered(y, spot) ==
  [w \in Slot |-> IF ~wins[w].exists \/ wins[w].hidden THEN wins[w]
                  ELSE [wins[w] EXCEPT !.hover = hit(w, y, spot), !.title_dirty = @ \/ hit(w, y, spot) # wins[w].hover]]

\* A click on the window at a place: s is the state with the hovers.
Clicked(s, w, y, spot) ==
  LET f == window_focus(s, w)
  IN  CASE hit(w, y, spot) = "minimize" -> window_hide(f, w)
        [] y \in TitleCells(w) /\ spot = "bar" -> [f EXCEPT !.list.dragged = w, !.list.off = y - wins[w].y]
        [] OTHER -> f

\* compositor_handle_input with a mouse event: what is dragged is moved, and no
\* key is read; also when it is no longer a window.
handle_mouse(y, spot, left) ==
  LET down_now == left /\ ~pointer.left
      dragged == IF ~left /\ pointer.left THEN Null ELSE list.dragged
      at == IF spot = "icon" THEN <<>> ELSE get_window_at_pos(y)
      s0 == [wins |-> Hovered(y, spot), list |-> [list EXCEPT !.dragged = dragged]]
      w == at[1]
      s == IF at # <<>> /\ down_now THEN Clicked(s0, w, y, spot) ELSE s0
      inside == y \notin TitleCells(w) /\ s.list.dragged = Null
      event == IF inside THEN "MOUSE" ELSE IF down_now /\ hit(w, y, spot) = "close" THEN "CLOSE" ELSE ""
  IN  /\ Handled /\ used < MaxInputs /\ used' = used + 1
      /\ pointer' = [y |-> y, icon |-> spot = "icon" /\ left, left |-> left, prev |-> pointer.y]
      /\ IF dragged # Null /\ left
         THEN /\ loop' = "run"
              /\ wins' = [wins EXCEPT ![dragged].y = y - list.off, ![dragged].moved = TRUE]
              /\ UNCHANGED <<list, down, order>>
         ELSE /\ loop' = IF at = <<>> /\ Endless(list.first, "next") THEN "hung" ELSE "keys"
              /\ wins' = s.wins /\ list' = s.list
              /\ order' = IF at # <<>> /\ down_now THEN Chosen(w) ELSE order
              /\ down' = IF at # <<>> /\ event # "" THEN Posted(down, wins[w].client, [type |-> event, handle |-> Null]) ELSE down
      /\ UNCHANGED <<app, pending, up, bufs, clients, desktop, full, back, screen, torn>>

\* The rest of it: a key, if there is one, goes to the first window.
handle_key(key) ==
  /\ Handled \/ loop = "keys"
  /\ loop' = "run"
  /\ IF key THEN /\ used < MaxInputs /\ used' = used + 1
                 /\ list.first # Null
                 /\ down' = Posted(down, wins[list.first].client, [type |-> "KEY", handle |-> Null])
     ELSE UNCHANGED <<used, down>>
  /\ UNCHANGED <<app, pending, up, bufs, wins, clients, list, pointer, desktop, full, back, screen, order, torn>>

-----------------------------------------------------------------------------
(* Composition.                                                            *)

\* What is drawn: the desktop, and of a window its title bar, which shows the
\* focus and the button pointed at, and its front buffer.
Desk(y) == IF y = 0 THEN <<"time", desktop.time>> ELSE <<"desktop">>
Title(w, focused) == <<"title", w, focused, wins[w].hover>>
Pixels(w) == <<"window", w, bufs[wins[w].owner][wins[w].front + 1]>>

BackToFront == SelectSeq(From(list.last, "prev"), LAMBDA w : wins[w].exists /\ ~wins[w].hidden)

\* The cells of a title bar that are drawn: all of it if the region touches it.
title_region(w, R) == IF TitleCells(w) \cap R = {} THEN {} ELSE TitleCells(w)

\* composite_windows and full_composite: windows drawn over b inside of a region.
Drawn(b, R) ==
  FoldLeft(LAMBDA x, w : [y \in Cell |-> IF y \in ClientCells(w) \cap R THEN Pixels(w)
                                         ELSE IF y \in title_region(w, R) THEN Title(w, w = list.first) ELSE x[y]],
           b, BackToFront)

draw_cursor(b) == [b EXCEPT ![pointer.y] = <<"cursor">>]

\* Mutant: the last cell of the joined region is left out.
Hull_short(S) == IF S = {} THEN {} ELSE Min(S) .. Max(S) - 1

\* rect_union of the parts of a region.
Hull(S) == IF S = {} THEN {} ELSE Min(S) .. Max(S)

\* The cells of the cursor when it moved.
cursor_cells == IF pointer.y # pointer.prev THEN {pointer.y, pointer.prev} ELSE {}

\* collect_dirty_regions
collect_dirty_regions ==
  LET visible == {w \in Slot : wins[w].exists /\ ~wins[w].hidden}
      damage == desktop.dirty
                \cup UNION {(IF wins[w].title_dirty THEN TitleCells(w) ELSE {})
                            \cup (IF wins[w].dirty THEN ClientCells(w) ELSE {}) : w \in visible}
                \cup cursor_cells
  IN  IF damage = {} THEN {} ELSE Hull(damage \cup {pointer.y})

\* send_paint_events: of the clients that point to a window the first one is told.
Paints == {k \in Slot : /\ clients[k].exists /\ clients[k].win # Null /\ wins[clients[k].win].presented
                        /\ \A j \in 0 .. k - 1 : clients[j].exists => clients[j].win # clients[k].win}
SentPaints ==
  [a \in App |-> IF \E k \in Paints : clients[k].app = a
                 THEN LET k == CHOOSE k \in Paints : clients[k].app = a
                      IN  Append(down[a], [type |-> "PAINT", handle |-> 1 - wins[clients[k].win].front])
                 ELSE down[a]]
Presented(w) == wins[w].presented /\ ~\E k \in Paints : clients[k].win = w

\* compositor_run
compositor_run ==
  LET any_moved == \E w \in Range(From(list.last, "prev")) : wins[w].moved
      all == any_moved \/ full
      R == IF all THEN Cell ELSE collect_dirty_regions
      drawn == draw_cursor(Drawn([y \in Cell |-> IF y \in R THEN Desk(y) ELSE back[y]], R))
      seen == Range(BackToFront)
  IN  /\ loop = "run" /\ loop' = IF Endless(list.last, "prev") THEN "hung" ELSE "desktop"
      /\ IF R = {} THEN UNCHANGED <<back, screen, desktop, wins, down, full>>
         ELSE /\ back' = drawn /\ screen' = [y \in Cell |-> IF y \in R THEN drawn[y] ELSE screen[y]]
              /\ desktop' = [desktop EXCEPT !.dirty = {}]
              /\ full' = FALSE
              /\ down' = SentPaints
              /\ wins' = [w \in Slot |->
                   [wins[w] EXCEPT !.presented = Presented(w),
                                   !.dirty = @ /\ w \notin seen,
                                   !.moved = @ /\ ~(all /\ w \in seen),
                                   !.title_dirty = @ /\ ~(w \in seen /\ TitleCells(w) \cap R # {})]]
      /\ UNCHANGED <<app, pending, up, bufs, clients, list, pointer, used, order, torn>>

DafneNext ==
  \/ \E a \in App : dafne_connect(a) \/ dafne_wait_event(a) \/ dafne_window_present(a) \/ dafne_window_destroy(a) \/ Exit(a)
  \/ \E tick \in {0, 1} : compositor_update_desktop(tick)
  \/ handle_incoming
  \/ handle_present \/ handle_create \/ handle_destroy \/ handle_lost
  \/ \E y \in Cell, spot \in Spot, left \in BOOLEAN : handle_mouse(y, spot, left)
  \/ \E key \in BOOLEAN : handle_key(key)
  \/ compositor_run

DafneSpec == DafneInit /\ [][DafneNext]_dafneVars

-----------------------------------------------------------------------------
(* Properties.                                                             *)

\* What is to be seen at a cell: the cursor, or the first of the windows there
\* in the order in which they were chosen, or the desktop.
Expected(y) ==
  LET at == SelectSeq(order, LAMBDA w : ~wins[w].hidden /\ y \in TitleCells(w) \cup ClientCells(w))
  IN  IF y = pointer.y THEN <<"cursor">>
      ELSE IF at = <<>> THEN Desk(y)
      ELSE IF y \in TitleCells(at[1]) THEN Title(at[1], at[1] = order[1]) ELSE Pixels(at[1])

(* A program never paints the buffer that the compositor reads, and a      *)
(* window shows its own program's pixels only; events go to the program    *)
(* whose window they are for, which knows its own handle.                  *)
BuffersApart ==
  \A a \in App, w \in Slot :
    wins[w].exists /\ wins[w].owner = a /\ app[a].at # "gone" =>
      /\ app[a].at = "painting" => app[a].buf # wins[w].front
      /\ clients[wins[w].client].app = a /\ clients[wins[w].client].win = w
      /\ app[a].handle \in {Null, w}

(* Although the compositor redraws only what it believes has changed, the  *)
(* screen shows after each frame what is there: every window, the one that *)
(* was chosen last in front, with what its program has presented last, the *)
(* focus, the cursor and the clock, also of windows that reach beyond the  *)
(* edge.  No program paints the buffer that the compositor draws from, and *)
(* no loop over the windows goes round for ever.  This is so until a       *)
(* window is taken out from between two others, which breaks the links     *)
(* (compositor.c:251-257), or a program that destroyed its window exits,   *)
(* which removes its slot a second time.                                   *)
ScreenCurrent ==
  ~torn =>
    /\ BuffersApart
    /\ loop # "hung"
    /\ loop = "desktop" /\ screen[0] # <<"blank">> => \A y \in Cell : screen[y] = Expected(y)
=============================================================================
