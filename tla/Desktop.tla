------------------------------ MODULE Desktop ------------------------------
(***************************************************************************)
(* The window manager service (services/window_manager.cpp) on the window  *)
(* table: the login window first, then the desktop's windows, the terminal *)
(* window, the taskbar and the application menu.  Tick runs in the main    *)
(* loop and is one action; the keyboard interrupt that accepts the         *)
(* password is another.  The pointer, and the input events Tick takes from *)
(* the queue, are its inputs.                                              *)
(***************************************************************************)
EXTENDS WindowTable

CONSTANTS
  PostLogin,      (* the windows of CreatePostLoginWindows: title, role, flags,
                     and what becomes of it: plain, raised, focused, hidden    *)
  MaxComponents,  (* length of WindowRegistry::components_: 16 in the code   *)
  MaxIds          (* windows created in a behaviour (bounds the model)       *)

\* None of the desktop's own windows has the terminal's title, and the ring of UI
\* events has room for what the end of the login causes and a tick after it.
ASSUME DesktopConstants ==
  /\ {"Login", "Shell", "Applications"} \subseteq Title
  /\ PostLogin \in Seq([title : Title \ {"Shell"}, role : Role, flags : SUBSET Flag,
                        then : {"plain", "raised", "focused", "hidden"}])
  /\ Len(PostLogin) + 5 <= EventSlots
  /\ MaxComponents \in Nat \ {0} /\ MaxIds \in Nat

VARIABLES
  ui,             (* the window table                                     *)
  s_login_win_id,
  s_login_active,
  s_authenticated, (* LoginScreen: the password was right                 *)
  s_windowId,     (* Terminal: its window, 0 before it is initialised     *)
  s_app_menu_win_id,
  registered,     (* WindowRegistry: ids with their component             *)
  buttons,        (* ids with a taskbar button, as of the last tick       *)
  apps            (* desktop entries were found on the disk               *)

wm == <<s_login_win_id, s_login_active, s_authenticated, s_windowId,
        s_app_menu_win_id, registered, buttons, apps>>
desktopVars == <<ui, wm>>

\* What one tick changes; the phases of Tick map one such record to the next.
Here ==
  [ui |-> ui, login |-> s_login_active, win |-> s_login_win_id, term |-> s_windowId,
   menu |-> s_app_menu_win_id, reg |-> registered, apps |-> apps]

\* RegisterComponent; one entry per id, and none when the registry is full.
RegisterComponent(reg, component, id) ==
  IF id = 0 \/ Cardinality(reg) >= MaxComponents \/ \E e \in reg : e[1] = id
  THEN reg ELSE reg \cup {<<id, component>>}

------------------------------------------------------------------------------
\* Start: the login window is the only one.
DesktopInit ==
  /\ ui = LET made == CreateWindowEx(EmptyTable, "Login", "Dialog", {"Frameless"})
          IN  SetFocusedWindow(BringToFront(made, 1, FALSE), 1)
  /\ s_login_win_id = 1 /\ s_login_active = TRUE
  /\ s_authenticated = FALSE
  /\ s_windowId = 0 /\ s_app_menu_win_id = 0
  /\ registered = {} /\ buttons = {} /\ apps = FALSE

\* The login handler, in the keyboard interrupt: Enter with the right password.
OnKeyDown ==
  /\ s_login_active /\ ~s_authenticated
  /\ s_authenticated' = TRUE
  /\ UNCHANGED <<ui, s_login_win_id, s_login_active, s_windowId, s_app_menu_win_id,
                 registered, buttons, apps>>

\* BringToFront and SetFocusedWindow, which most callers use together.
RaiseAndFocus(u, id) == SetFocusedWindow(BringToFront(u, id, FALSE), id)

\* Faulty variant: the old terminal window stays open.
SpawnTerminalKeep(w, memory) ==
  LET id   == NewId(w.ui)
      made == CreateWindowEx(w.ui, "Shell", "Normal", Framed)
  IN  CASE id = 0                     -> w
        [] id # 0 /\ w.term = 0 /\ ~memory -> [w EXCEPT !.ui = CloseWindow(made, id)]
        [] OTHER -> [w EXCEPT !.term = id, !.ui = RaiseAndFocus(made, id)]

\* SpawnTerminal: the new window replaces the one the terminal had.  The first
\* one allocates the terminal's buffer.
SpawnTerminal(w, memory) ==
  LET id   == NewId(w.ui)
      made == CreateWindowEx(w.ui, "Shell", "Normal", Framed)
  IN  CASE id = 0                     -> w
        [] id # 0 /\ w.term = 0 /\ ~memory -> [w EXCEPT !.ui = CloseWindow(made, id)]
        [] OTHER -> [w EXCEPT !.term = id, !.ui = CloseWindow(RaiseAndFocus(made, id), w.term)]

ShowAppMenuWindow(w) ==
  IF ~w.apps THEN w
  ELSE IF Live(w.ui, w.menu)
  THEN [w EXCEPT !.ui = RaiseAndFocus(RestoreWindow(@, w.menu), w.menu)]
  ELSE LET id == NewId(w.ui)
       IN  IF id = 0 THEN w
           ELSE [w EXCEPT !.ui = CreateWindowEx(@, "Applications", "Dialog", {"Minimizable", "Closable"}),
                          !.menu = id,
                          !.reg = RegisterComponent(@, "Applications", id)]

\* A click on the taskbar button of a window.
TaskbarClick(u, id) ==
  IF GetWindowState(u, id) = "Minimized"
  THEN RaiseAndFocus(RestoreWindow(u, id), id)
  ELSE IF u.focus = id THEN MinimizeWindow(u, id) ELSE RaiseAndFocus(u, id)

------------------------------------------------------------------------------
(***************************************************************************)
(* The phases of Tick.                                                     *)
(***************************************************************************)
\* Somebody has the focus: the login window, else the terminal's.
EnsureFocus(w) ==
  IF w.ui.focus # 0 THEN w
  ELSE [w EXCEPT !.ui = SetFocusedWindow(@, IF w.login THEN w.win ELSE w.term)]

\* What is under the pointer: the taskbar's own buttons, a window's, a window.
Spots ==
  {[win |-> 0, region |-> r] : r \in {"spawn", "menu"}}
  \cup {[win |-> id, region |-> "button"] : id \in buttons}
  \cup (IF ui.gesture = "none" THEN Hits(ui) ELSE {NoHit})

Taskbar == {"spawn", "menu", "button"}

TaskbarHit(w, spot, memory) ==
  CASE spot.region = "spawn"  -> SpawnTerminal(w, memory)
    [] spot.region = "menu"   -> ShowAppMenuWindow(w)
    [] spot.region = "button" -> [w EXCEPT !.ui = TaskbarClick(@, spot.win)]

\* Faulty variant: the taskbar works before the login.
PointerUnblocked(w, left, spot, moves, memory) ==
  IF left /\ spot.region \in Taskbar THEN TaskbarHit(w, spot, memory)
  ELSE [w EXCEPT !.ui = UpdateInteractions(@, left, spot, moves)]

\* The login window blocks the desktop; then the taskbar is first.  There is no
\* edge detection: a button held down acts in every tick.
Pointer(w, left, spot, moves, memory) ==
  CASE w.login -> [w EXCEPT !.ui = RaiseAndFocus(@, w.win)]
    [] ~w.login /\ left /\ spot.region \in Taskbar -> TaskbarHit(w, spot, memory)
    [] OTHER -> [w EXCEPT !.ui = UpdateInteractions(@, left, spot, moves)]

\* An input event reaches the menu's component when its window is hit or focused.
MenuReached(w) ==
  \E e \in w.reg :
    /\ e[2] = "Applications" /\ Live(w.ui, e[1])
    /\ GetWindowState(w.ui, e[1]) # "Minimized" \/ w.ui.focus = e[1]

\* ProcessAppMenuSelection: the menu is minimized and its id forgotten.
ChooseApp(w, picks) ==
  IF picks /\ MenuReached(w) /\ Live(w.ui, w.menu)
  THEN [w EXCEPT !.ui = MinimizeWindow(@, w.menu), !.menu = 0]
  ELSE w

\* One window of CreatePostLoginWindows, with its component.
CreateOne(w, spec) ==
  LET id   == NewId(w.ui)
      made == CreateWindowEx(w.ui, spec.title, spec.role, spec.flags)
  IN  [w EXCEPT !.ui = CASE spec.then = "hidden"  -> MinimizeWindow(made, id)
                         [] spec.then = "raised"  -> BringToFront(made, id, FALSE)
                         [] spec.then = "focused" -> RaiseAndFocus(made, id)
                         [] spec.then = "plain"   -> made,
                !.reg = RegisterComponent(@, spec.title, id)]

CreatePostLoginWindows(w) ==
  LET made[k \in 0 .. Len(PostLogin)] ==
        IF k = 0 THEN w ELSE CreateOne(made[k - 1], PostLogin[k])
  IN  made[Len(PostLogin)]

\* After the frame was drawn.
LoginTransition(w, found, memory) ==
  IF w.login /\ s_authenticated
  THEN LET out == [w EXCEPT !.ui = CloseWindow(@, w.win), !.win = 0, !.login = FALSE, !.apps = found]
       IN  SpawnTerminal(CreatePostLoginWindows(out), memory)
  ELSE w

\* BuildTaskbarButtons leaves out the three desktop widgets.
BuildTaskbarButtons(w) ==
  IF w.login THEN {}
  ELSE {win.id : win \in {v \in Range(w.ui.windows) : v.title \notin {"Mouse", "Clock", "SystemHUD"}}}

\* Faulty variant: one event is consumed per tick.
ConsumeOne(w) == [w EXCEPT !.ui = PollEvents(@, 1)]

\* Four UI events are consumed per tick.
ConsumeEvents(w) == [w EXCEPT !.ui = PollEvents(@, 4)]

\* `moves': a drag changed the position; `picks': an application was chosen;
\* `found': the disk has desktop entries; `memory': the heap has room.
Tick(left, spot, moves, picks, found, memory) ==
  /\ spot.region \in {"spawn", "menu"} => ui.nextId <= MaxIds
  /\ \E focused \in {EnsureFocus(Here)} :
     \E pointed \in {Pointer(focused, left, spot, moves, memory)} :
     \E drained \in {ConsumeEvents(ChooseApp(pointed, picks))} :
     \E w \in {LoginTransition(drained, found, memory)} :
         /\ ui' = w.ui
         /\ s_login_win_id' = w.win /\ s_login_active' = w.login
         /\ s_windowId' = w.term /\ s_app_menu_win_id' = w.menu
         /\ registered' = w.reg /\ apps' = w.apps
         /\ buttons' = BuildTaskbarButtons(w)
  /\ UNCHANGED s_authenticated

\* An input that nothing reads is not enumerated.
InputIf(read) == IF read THEN BOOLEAN ELSE {FALSE}

AnyTick ==
  \E left \in BOOLEAN : \E spot \in IF left THEN Spots ELSE {NoHit},
     moves \in InputIf(left /\ ui.gesture = "drag"), picks \in InputIf(apps),
     found \in InputIf(s_authenticated /\ s_login_active), memory \in InputIf(s_windowId = 0) :
    Tick(left, spot, moves, picks, found, memory)

DesktopNext == OnKeyDown \/ AnyTick

DesktopSpec == DesktopInit /\ [][DesktopNext]_desktopVars

------------------------------------------------------------------------------
\* Type invariant of the window table and of the window manager's own state.
DesktopTypeOK ==
  /\ TableOK(ui)
  /\ s_login_win_id \in Nat /\ s_windowId \in Nat /\ s_app_menu_win_id \in Nat
  /\ s_login_active \in BOOLEAN /\ s_authenticated \in BOOLEAN /\ apps \in BOOLEAN
  /\ registered \subseteq (Nat \X Title) /\ Cardinality(registered) <= MaxComponents
  /\ buttons \subseteq Nat

\* The z-order names every window once, whatever was closed, so RenderAll and
\* HitTest reach all of them and none twice (framework.cpp:507-538).
ZOrderComplete ==
  /\ Len(ui.zorder) = Len(ui.windows)
  /\ Range(ui.zorder) = DOMAIN ui.windows

\* The keyboard focus is with a window that exists, or with none: closing a
\* window, by its button or by a new terminal, never leaves it behind
\* (framework.cpp:535).
FocusLive == ui.focus # 0 => Live(ui, ui.focus)

\* The window table keeps z-order and focus true to its windows, whatever is
\* closed, created or raised while a gesture is under way (CloseWindow,
\* CreateWindowEx and UpdateInteractions of ui/framework.cpp).
WindowTableSound == DesktopTypeOK /\ ZOrderComplete /\ FocusLive

\* Until the password was accepted the login window is the only one and has the
\* focus: nothing of the desktop is created or reached, in whatever order keys,
\* clicks and ticks come (window_manager.cpp:1033-1080, 1258-1287).
LoginBlocksDesktop ==
  s_login_active => /\ Len(ui.windows) = 1 /\ ui.windows[1].id = s_login_win_id
                    /\ ui.focus = s_login_win_id
                    /\ s_windowId = 0

\* The terminal has at most one window, also after its window was closed or a new
\* one could not be created (SpawnTerminal, window_manager.cpp:818-876).
OneTerminalWindow ==
  \A w \in Range(ui.windows) : w.title = "Shell" => w.id = s_windowId

\* The ring of UI events never overflows: a tick consumes at least what the
\* pointer can cause in one (framework.cpp:235-244, window_manager.cpp:1101-1127).
NoEventDropped == ~ui.dropped

\* A window is never raised over a window of a higher role that was in front of
\* it (moveWindowToLayerTop, framework.cpp:47-69), by no click, menu or new window;
\* where a new window itself begins is LayersOrdered's subject.
LayersNeverCrossed ==
  [][\A a, b \in Range(ui.windows) :
       /\ zRoleRank[a.role] < zRoleRank[b.role]
       /\ Behind(ui, a.id, b.id)
       /\ Live(ui', a.id) /\ Live(ui', b.id)
       => Behind(ui', a.id, b.id)]_desktopVars

\* "This keeps higher-ranked windows always above lower-ranked ones"
\* (framework.cpp:57); "Respect role-based layering (dock/dialog/utility above
\* normal windows)" (framework.cpp:311), with a window that CreateWindowEx put at
\* the top already.
LayersOrdered ==
  \A a, b \in Range(ui.windows) :
    zRoleRank[a.role] < zRoleRank[b.role] => Behind(ui, a.id, b.id)
=============================================================================
