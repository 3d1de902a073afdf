------------------------------- MODULE Window -------------------------------
(***************************************************************************)
(* Lab 55: the emulator's window in win.c: the thread that handles its     *)
(* messages, and what the draw device does to it at the same time: the     *)
(* shape of the cursor (drawcursor), the parts of the screen that were     *)
(* drawn (flushmemscreen), its size (fullscreen).  The messages of keys    *)
(* are module Keys, those of the mouse module Pointer.                     *)
(*                                                                         *)
(* A call of SendMessage returns when the thread has handled the message,  *)
(* which it does between two others.  The cursor has one writer.           *)
(***************************************************************************)
EXTENDS Integers, FiniteSets

CONSTANTS Region,                \* parts of the screen
          MaxCursor              \* bound: cursors made

ASSUME WindowAssumption == MaxCursor \in Nat

VARIABLES
    running, wnd,                \* is emu there, and its window?
    hcursor, cursors, shown,     \* cursor wanted, those made, the one shown
    drawer,                      \* drawcursor: where it is, the old cursor
    winthread,                   \* what the window thread handles
    style,                       \* is the window full screen?
    undrawn,                     \* parts of the window that show old contents
    unflushed, invalid,          \* parts drawn, not flushed; to be painted
    made, early                  \* cursors made; history: made too early?

cursorvars == <<hcursor, cursors, shown, drawer, made, early>>
picture == <<style, undrawn, unflushed, invalid>>
windowVars == <<running, wnd, cursorvars, picture, winthread>>

Arrow == 0                       \* the default cursor, for hcursor = NULL
Hidden == -1

WindowInit ==
    /\ running = TRUE /\ wnd = "none"
    /\ hcursor = Arrow /\ cursors = {} /\ shown = Arrow
    /\ drawer = [at |-> "idle", old |-> Arrow]
    /\ winthread = "idle" /\ style = "window"
    /\ undrawn = Region /\ unflushed = {} /\ invalid = {}
    /\ made = 0 /\ early = FALSE

-----------------------------------------------------------------------------
\* winproc makes the window, to be painted from the start, or gives up.
Winproc ==
    /\ running /\ wnd = "none"
    /\ \/ wnd' = "made" /\ invalid' = Region
       \/ wnd' = "failed" /\ UNCHANGED invalid
    /\ UNCHANGED <<running, cursorvars, style, undrawn, unflushed, winthread>>

\* WM_SETCURSOR, from the host or sent by drawcursor: hcursor is looked at, and
\* if it was set looked at again.
Setcursor ==
    /\ running /\ wnd = "made" /\ winthread = "idle"
    /\ winthread' = IF hcursor # Arrow THEN "cursor" ELSE "arrow"
    /\ \/ drawer.at = "sends" /\ drawer' = [drawer EXCEPT !.at = "sent"]
       \/ UNCHANGED drawer
    /\ UNCHANGED <<running, wnd, hcursor, cursors, shown, made, early, picture>>

ShowCursor ==
    /\ running /\ winthread \in {"cursor", "arrow"}
    /\ shown' = IF winthread = "arrow" THEN Arrow
                ELSE IF hcursor = Arrow THEN Hidden ELSE hcursor
    /\ winthread' = "idle"
    /\ UNCHANGED <<running, wnd, hcursor, cursors, drawer, made, early, picture>>

\* WM_PAINT copies the parts to be painted from the screen.
Paint ==
    /\ running /\ wnd = "made" /\ winthread = "idle" /\ invalid # {}
    /\ undrawn' = undrawn \ invalid /\ invalid' = {}
    /\ UNCHANGED <<running, wnd, cursorvars, style, unflushed, winthread>>

\* WM_PALETTECHANGED by another window, WM_QUERYNEWPALETTE: with new colours
\* all is painted again.
PaletteChanged ==
    /\ running /\ wnd = "made" /\ winthread = "idle"
    /\ invalid' = Region
    /\ UNCHANGED <<running, wnd, cursorvars, style, undrawn, unflushed, winthread>>

\* WM_CLOSE destroys the window, and WM_DESTROY ends the emulator.
CloseWnd ==
    /\ running /\ wnd = "made" /\ winthread = "idle"
    /\ running' = FALSE
    /\ UNCHANGED <<wnd, cursorvars, picture, winthread>>

-----------------------------------------------------------------------------
\* drawcursor: the new cursor is wanted, then the window is told to show it.  It
\* fails at once when there is no window.
Tells(old) ==
    /\ drawer' = [at |-> IF wnd = "made" THEN "sends" ELSE "failed", old |-> old]
    /\ early' = (wnd # "made")

DrawcursorDefault ==
    /\ running /\ drawer.at = "idle" /\ hcursor # Arrow
    /\ Tells(hcursor)
    /\ hcursor' = Arrow
    /\ UNCHANGED <<running, wnd, cursors, shown, made, picture, winthread>>

\* The rows of the cursor are made of the two bitmaps of the draw device.  When
\* no cursor can be made, the old one stays.
Drawcursor ==
    /\ running /\ drawer.at = "idle" /\ made < MaxCursor
    /\ made' = made + 1
    /\ cursors' = cursors \cup {made'}
    /\ Tells(hcursor)
    /\ hcursor' = made'
    /\ UNCHANGED <<running, wnd, shown, picture, winthread>>

\* The message is handled when the window thread is idle again; only then is
\* the old cursor destroyed.
\* mutant: the old cursor goes as soon as the message is on its way
Handled_Posted == drawer.at # "idle"
Handled == drawer.at = "failed" \/ (drawer.at = "sent" /\ winthread = "idle")

DestroyCursor ==
    /\ running /\ Handled
    /\ cursors' = cursors \ {drawer.old}
    /\ drawer' = [at |-> "idle", old |-> Arrow]
    /\ UNCHANGED <<running, wnd, hcursor, shown, made, early, picture, winthread>>

-----------------------------------------------------------------------------
\* The draw device draws into the screen, and flushes what it drew.
Draw(r) ==
    /\ running
    /\ undrawn' = undrawn \cup {r} /\ unflushed' = unflushed \cup {r}
    /\ UNCHANGED <<running, wnd, cursorvars, style, invalid, winthread>>

Flushmemscreen(r) ==
    /\ running
    /\ unflushed' = unflushed \ {r}
    /\ invalid' = IF wnd = "made" THEN invalid \cup {r} ELSE invalid
    /\ UNCHANGED <<running, wnd, cursorvars, style, undrawn, winthread>>

\* fullscreen, from /dev/regquery and its neighbours: the window changes its
\* frame and is as large as it can be in either case.
Fullscreen(full) ==
    /\ running /\ wnd = "made"
    /\ style' = IF full THEN "popup" ELSE "window"
    /\ undrawn' = Region /\ invalid' = Region
    /\ UNCHANGED <<running, wnd, cursorvars, unflushed, winthread>>

WindowNext ==
    \/ Winproc \/ Setcursor \/ ShowCursor \/ Paint \/ PaletteChanged \/ CloseWnd
    \/ Drawcursor \/ DrawcursorDefault \/ DestroyCursor
    \/ \E r \in Region : Draw(r) \/ Flushmemscreen(r)
    \/ \E full \in BOOLEAN : Fullscreen(full)

WindowSpec == WindowInit /\ [][WindowNext]_windowVars

-----------------------------------------------------------------------------
\* The window never shows a cursor that was destroyed, although the window
\* thread reads hcursor while it changes, and none is left over.
CursorAlive ==
    /\ shown \in cursors \cup {Arrow, Hidden}
    /\ drawer.at = "idle" => cursors = {hcursor} \ {Arrow}

\* When a call is over and no message is being handled, the cursor wanted is
\* the cursor shown: it was asked for after hcursor was set.  A cursor set
\* before there is a window waits for a move of the mouse.
CursorCurrent ==
    wnd = "made" /\ drawer.at = "idle" /\ winthread = "idle" /\ ~early => shown = hcursor

\* What the window does not show yet was not flushed or is to be painted.
PictureCurrent == wnd = "made" => undrawn \subseteq unflushed \cup invalid

\* What the window promises the draw device.
WindowCurrent == CursorAlive /\ CursorCurrent /\ PictureCurrent

=============================================================================
