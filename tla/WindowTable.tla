---------------------------- MODULE WindowTable ----------------------------
(***************************************************************************)
(* The window table of the UI framework (ui/framework.cpp): g_windows in   *)
(* order of creation, g_zorder with their indices from back to front, the  *)
(* focus, the gesture in progress and the ring of UI events.  A table is a *)
(* record and an operation of the framework maps a table to the next one,  *)
(* because one tick of the window manager calls several.                   *)
(*                                                                         *)
(* Left out: geometry (where a window is), redraw flags, and parents: no   *)
(* caller gives one, so CloseWindow's search for children finds none.      *)
(***************************************************************************)
EXTENDS Integers, Sequences, SequencesExt, FiniteSets

CONSTANTS
  MaxWindows,  (* length of g_windows: 16 in the code *)
  EventSlots,  (* length of g_events: 64 in the code  *)
  Title        (* the titles that windows are given   *)

ASSUME TableConstants == MaxWindows \in Nat \ {0} /\ EventSlots \in Nat \ {0}

Role == {"Normal", "Utility", "Dialog", "Dock"}
Flag == {"Resizable", "Minimizable", "Maximizable", "Closable", "Frameless"}
WindowState == {"Normal", "Minimized", "Maximized"}
Gesture == {"none", "drag", "resize"}

\* The default flags of CreateWindow.
Framed == {"Resizable", "Minimizable", "Maximizable", "Closable"}

zRoleRank == [Dock |-> 3, Dialog |-> 2, Utility |-> 1, Normal |-> 0]

(***************************************************************************)
(* ui.events counts the events in the ring; `dropped' remembers that one   *)
(* met a full ring.                                                        *)
(***************************************************************************)
EmptyTable ==
  [windows |-> <<>>, zorder |-> <<>>, nextId |-> 1, focus |-> 0,
   gesture |-> "none", held |-> 0, events |-> 0, dropped |-> FALSE]

\* findIndexById; 0 stands for -1.
findIndexById(ui, id) ==
  LET at == {i \in DOMAIN ui.windows : ui.windows[i].id = id}
  IN  IF at = {} THEN 0 ELSE CHOOSE i \in at : \A j \in at : i <= j

Live(ui, id) == findIndexById(ui, id) # 0

\* A closed window has the state of an open one.
GetWindowState(ui, id) ==
  IF Live(ui, id) THEN ui.windows[findIndexById(ui, id)].state ELSE "Normal"

HasFlag(ui, id, flag) ==
  Live(ui, id) /\ flag \in ui.windows[findIndexById(ui, id)].flags

SetState(ui, id, state) ==
  [ui EXCEPT !.windows[findIndexById(ui, id)].state = state]

pushEvent(ui) ==
  IF ui.events < EventSlots
  THEN [ui EXCEPT !.events = @ + 1]
  ELSE [ui EXCEPT !.dropped = TRUE]

\* At most n calls of PollEvent.
PollEvents(ui, n) == [ui EXCEPT !.events = IF @ > n THEN @ - n ELSE 0]

------------------------------------------------------------------------------
\* Faulty variant: a raised window goes to the very front.
moveToFront(ui, idx) ==
  [ui EXCEPT !.zorder = Append(SelectSeq(@, LAMBDA i : i # idx), idx)]

\* Move forward to the last position before a window of a higher rank.
moveWindowToLayerTop(ui, idx) ==
  LET z      == ui.zorder
      rank(i) == zRoleRank[ui.windows[i].role]
      cur    == CHOOSE k \in DOMAIN z : z[k] = idx
      above  == {k \in DOMAIN z : k > cur /\ rank(z[k]) > rank(idx)}
      target == IF above = {} THEN Len(z) ELSE (CHOOSE k \in above : \A j \in above : k <= j) - 1
  IN  [ui EXCEPT !.zorder =
        [k \in DOMAIN z |-> IF k < cur \/ k > target THEN z[k]
                            ELSE IF k < target THEN z[k + 1] ELSE idx]]

\* CreateWindowEx; the new window's id is NewId of the table before.
NewId(ui) == IF Len(ui.windows) < MaxWindows THEN ui.nextId ELSE 0

CreateWindowEx(ui, title, role, flags) ==
  IF NewId(ui) = 0 THEN ui
  ELSE LET n    == Len(ui.windows) + 1
           win  == [id |-> ui.nextId, title |-> title, role |-> role,
                    flags |-> flags, state |-> "Normal"]
       IN  moveWindowToLayerTop(
             [ui EXCEPT !.windows = Append(@, win), !.zorder = Append(@, n),
                        !.nextId = @ + 1], n)

\* `user' is g_user_focus_interaction.
BringToFront(ui, id, user) ==
  IF ~Live(ui, id) THEN ui
  ELSE LET top == moveWindowToLayerTop(ui, findIndexById(ui, id))
       IN  IF user \/ ui.focus \in {0, id}
           THEN pushEvent([top EXCEPT !.focus = id])
           ELSE top

SetFocusedWindow(ui, id) ==
  IF Live(ui, id) THEN [ui EXCEPT !.focus = id] ELSE ui

\* Faulty variant: the indices behind the removed slot are not adjusted.
CloseWindowNoFix(ui, id) ==
  IF ~Live(ui, id) THEN ui
  ELSE LET idx == findIndexById(ui, id)
       IN  pushEvent([ui EXCEPT
             !.zorder = SelectSeq(@, LAMBDA i : i # idx),
             !.windows = RemoveAt(@, idx),
             !.focus = IF @ = id THEN 0 ELSE @])

\* The gesture is not told that its window is gone.
CloseWindow(ui, id) ==
  IF ~Live(ui, id) THEN ui
  ELSE LET idx  == findIndexById(ui, id)
           zpos == CHOOSE k \in DOMAIN ui.zorder : ui.zorder[k] = idx
           rest == RemoveAt(ui.zorder, zpos)
       IN  pushEvent([ui EXCEPT
             !.zorder = [k \in DOMAIN rest |-> IF rest[k] > idx THEN rest[k] - 1 ELSE rest[k]],
             !.windows = RemoveAt(@, idx),
             !.focus = IF @ = id THEN 0 ELSE @])

MinimizeWindow(ui, id) ==
  IF ~HasFlag(ui, id, "Minimizable") THEN ui
  ELSE pushEvent([SetState(ui, id, "Minimized") EXCEPT !.focus = IF @ = id THEN 0 ELSE @])

ToggleMaximize(ui, id) ==
  IF ~HasFlag(ui, id, "Maximizable") THEN ui
  ELSE pushEvent(SetState(ui, id,
         IF GetWindowState(ui, id) = "Maximized" THEN "Normal" ELSE "Maximized"))

RestoreWindow(ui, id) ==
  IF GetWindowState(ui, id) # "Minimized" THEN ui
  ELSE pushEvent(SetState(ui, id, "Normal"))

------------------------------------------------------------------------------
(***************************************************************************)
(* UpdateInteractions.  What the pointer is on: a window that is shown and *)
(* a region its flags allow (HitTestDetailed).  Which of the windows that  *)
(* overlap there is in front depends on geometry, so any of them may be.   *)
(***************************************************************************)
NoHit == [win |-> 0, region |-> "none"]

Regions(win) ==
  IF "Frameless" \in win.flags THEN {"client"}
  ELSE {"client", "title"}
       \cup {r \in {"close", "min", "max", "resize"} :
              [close |-> "Closable", min |-> "Minimizable",
               max |-> "Maximizable", resize |-> "Resizable"][r] \in win.flags}

Hits(ui) ==
  {NoHit} \cup
  UNION {{[win |-> win.id, region |-> r] : r \in Regions(win)} :
           win \in {w \in Range(ui.windows) : w.state # "Minimized"}}

\* The first tick with the button down.
Press(ui, hit) ==
  IF hit = NoHit THEN ui
  ELSE LET top == BringToFront(ui, hit.win, TRUE)
       IN  CASE hit.region = "close"  -> CloseWindow(top, hit.win)
             [] hit.region = "min"    -> MinimizeWindow(top, hit.win)
             [] hit.region = "max"    -> ToggleMaximize(top, hit.win)
             [] hit.region = "title"  -> [top EXCEPT !.gesture = "drag", !.held = hit.win]
             [] hit.region = "resize" -> [top EXCEPT !.gesture = "resize", !.held = hit.win]
             [] OTHER                 -> top

\* A drag reports a move when the position changes, a resize always reports.
UpdateInteractions(ui, left, hit, moves) ==
  CASE left /\ ui.gesture = "none"   -> Press(ui, hit)
    [] left /\ ui.gesture = "drag"   -> IF moves THEN pushEvent(ui) ELSE ui
    [] left /\ ui.gesture = "resize" -> pushEvent(ui)
    [] OTHER                         -> [ui EXCEPT !.gesture = "none", !.held = 0]

------------------------------------------------------------------------------
WindowRecord ==
  [id : Nat \ {0}, title : Title, role : Role, flags : SUBSET Flag, state : WindowState]

\* A well-formed table: the slots hold windows, the counters stay in range.
TableOK(ui) ==
  /\ Len(ui.windows) <= MaxWindows
  /\ \A i \in DOMAIN ui.windows : ui.windows[i] \in WindowRecord
  /\ ui.nextId \in Nat \ {0} /\ ui.focus \in Nat /\ ui.held \in Nat
  /\ ui.events \in 0 .. EventSlots /\ ui.gesture \in Gesture /\ ui.dropped \in BOOLEAN
  /\ \A i, j \in DOMAIN ui.windows : i < j => ui.windows[i].id < ui.windows[j].id

\* id a is drawn behind id b.
Behind(ui, a, b) ==
  \E k, m \in DOMAIN ui.zorder :
    k < m /\ ui.zorder[k] = findIndexById(ui, a) /\ ui.zorder[m] = findIndexById(ui, b)
=============================================================================
