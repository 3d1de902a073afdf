------------------------------- MODULE Screen -------------------------------
(***************************************************************************)
(* Lab 45: the screen of win.c, in the version of the file in which the    *)
(* emulator goes on when its window is closed.  attachscreen chooses the   *)
(* format and makes the bitmap, its palette and the thread winproc, which  *)
(* makes the window; the thread ends with the window, and a later          *)
(* attachscreen makes another.                                             *)
(***************************************************************************)
EXTENDS Integers, FiniteSets

CONSTANTS Width,                 \* widths asked for
          HostWidth,             \* widths of the host's screen
          Option,                \* values of displaychan at the start
          MaxAttach              \* bound: calls of attachscreen

ASSUME ScreenAssumption ==
    /\ Width \cup HostWidth \subseteq Nat \ {0} /\ MaxAttach \in Nat
    /\ Option \subseteq {"unset", "grey1", "grey4", "grey8", "cmap8", "rgb15", "rgb24", "xrgb32"}

VARIABLES displaychan, xsize,
          attached,
          bits,                  \* the bitmap: format, depth, bytes in a row
          pal,                   \* what was stored in the palette
          attaching,             \* has attachscreen started the thread?
          reply,                 \* what attachscreen returned
          thread,                \* the window thread
          isunicode, registered,
          calls,                 \* number of calls
          blind                  \* history: which promises ended, and why:
                                 \* "unaligned", "again", "nowindow", "early"

attach == <<displaychan, xsize, attached, bits, pal, attaching, reply, calls>>
winproc == <<thread, isunicode, registered>>
screenVars == <<attach, winproc, blind>>

NoReply == [chan |-> "unset", depth |-> 0, width |-> 0]

ScreenInit ==
    /\ displaychan = "unset" /\ xsize = 0
    /\ attached = FALSE /\ bits = [chan |-> "unset", depth |-> 0, row |-> 0]
    /\ pal = {} /\ attaching = FALSE /\ reply = NoReply
    /\ thread = "none" /\ isunicode = TRUE /\ registered = FALSE
    /\ calls = 0 /\ blind = {}

-----------------------------------------------------------------------------
\* graphicscmap: four reds, greens and blues, each in four shades.  The index
\* goes round within 16 entries.
Largest(s) == CHOOSE m \in s : \A n \in s : n <= m
Shade(c, r, g, b, val) ==
    LET den == Largest({r, g, b}) IN
    IF den = 0 THEN val * 17 ELSE (c * 17 * (4 * den + val)) \div den

\* mutant: the index does not go round
CmapIndex_Flat(r, val, g, b) == 64 * r + 16 * val + (val - r + 4 * g + b)
CmapIndex(r, val, g, b) == 64 * r + 16 * val + ((val - r + 4 * g + b) % 16)

Cmap == {<<CmapIndex(r, val, g, b), Shade(r, r, g, b, val), Shade(g, r, g, b, val),
           Shade(b, r, g, b, val)>> : r, val, g, b \in 0 .. 3}

\* graphicsgmap: shades of grey of d bits, from white to black.
Gmap(d) == {LET grey == 255 - (i \div 2 ^ (8 - d)) * (255 \div (2 ^ d - 1))
            IN  <<255 - i, grey, grey, grey>> : i \in 0 .. 255}

\* autochan: the format for the depth of the host's screen.
Autochan(bpp) == IF bpp < 15 THEN "cmap8" ELSE IF bpp < 24 THEN "rgb15" ELSE "rgb24"

Grey == [grey1 |-> 1, grey4 |-> 4, grey8 |-> 8]
Deep == [rgb15 |-> 16, rgb24 |-> 24, xrgb32 |-> 32]

\* What becomes of the format asked for.
Format(c) ==
    IF c \in DOMAIN Grey THEN [chan |-> "grey8", depth |-> 8]
    ELSE IF c \in DOMAIN Deep THEN [chan |-> c, depth |-> Deep[c]]
    ELSE [chan |-> "cmap8", depth |-> 8]

\* Rows of a bitmap of the host are a multiple of four bytes long.
RowBytes(w, depth) == 4 * ((w * depth + 31) \div 32)

Narrowed(w) == w - (w % 4)
Smaller(a, b) == IF b < a THEN b ELSE a

-----------------------------------------------------------------------------
\* The options of the command line, read before anything else: a format and a width.
Options(c, w) ==
    /\ calls = 0 /\ xsize = 0
    /\ displaychan' = c /\ xsize' = w
    /\ UNCHANGED <<attached, bits, pal, attaching, reply, calls, winproc, blind>>

\* attachscreen, up to the start of the thread, which is not seen to fail.  A
\* failure before that leaves the width and the palette changed.
AttachBegin(host, bpp) ==
    /\ xsize # 0 /\ ~attached /\ ~attaching /\ calls < MaxAttach
    /\ calls' = calls + 1
    /\ xsize' = Smaller(Narrowed(xsize), host)
    /\ LET c == IF displaychan = "unset" THEN Autochan(bpp) ELSE displaychan
           f == Format(c)
       IN  /\ pal' = IF c \in DOMAIN Grey THEN Gmap(Grey[c]) ELSE Cmap
           /\ \/ /\ bits' = [chan |-> f.chan, depth |-> f.depth,
                             row |-> RowBytes(xsize', f.depth)]
                 /\ attaching' = TRUE /\ thread' \in {"none", "started"}
              \/ UNCHANGED <<bits, attaching, thread>>
    /\ reply' = NoReply
    /\ blind' = (blind \ {"again"})
                \cup (IF xsize' % 4 # 0 THEN {"unaligned"} ELSE {})
                \cup (IF attaching' /\ thread' = "none" THEN {"nowindow"} ELSE {})
    /\ UNCHANGED <<displaychan, attached, isunicode, registered>>

Replies(c, depth) ==
    /\ displaychan' = c
    /\ reply' = [chan |-> c, depth |-> depth, width |-> (xsize \div 4) * (depth \div 8)]

AttachEnd ==
    /\ attaching
    /\ attaching' = FALSE /\ attached' = TRUE
    /\ Replies(bits.chan, bits.depth)
    /\ UNCHANGED <<xsize, bits, pal, calls, winproc, blind>>

\* When there is a screen already, c and k were never set: they hold anything,
\* which goes to displaychan too.
AttachAgain ==
    /\ attached /\ calls < MaxAttach
    /\ calls' = calls + 1
    /\ \E c \in Option \cup {"garbage"}, depth \in {0, 32} : Replies(c, depth)
    /\ blind' = blind \cup {"again"}
    /\ UNCHANGED <<xsize, attached, bits, pal, attaching, winproc>>

-----------------------------------------------------------------------------
\* winproc.  The class is registered once in the life of the program: the next
\* thread takes that for a host without Unicode.
Register ==
    /\ thread = "started"
    /\ isunicode' = (isunicode /\ ~registered)
    /\ registered' = TRUE
    /\ thread' = "registered"
    /\ UNCHANGED <<attach, blind>>

\* When the window cannot be made the thread ends, and attached stays as it is.
CreateWindow ==
    /\ thread = "registered"
    /\ \/ thread' = "window" /\ UNCHANGED blind
       \/ thread' = "none" /\ blind' = blind \cup {"nowindow"}
    /\ UNCHANGED <<attach, isunicode, registered>>

\* mutant: the screen is not given up
GivenUp_Not == attached
GivenUp == FALSE

\* WM_CLOSE destroys the window, which ends the loop: the screen is given up.
CloseWindow ==
    /\ thread = "window"
    /\ thread' = "none"
    /\ attached' = GivenUp
    /\ blind' = IF attaching THEN blind \cup {"early"} ELSE blind
    /\ UNCHANGED <<displaychan, xsize, bits, pal, attaching, reply, calls, isunicode, registered>>

ScreenNext ==
    \/ \E c \in Option, w \in Width : Options(c, w)
    \/ \E host \in HostWidth, bpp \in {8, 16, 24} : AttachBegin(host, bpp)
    \/ AttachEnd \/ AttachAgain
    \/ Register \/ CreateWindow \/ CloseWindow

ScreenSpec == ScreenInit /\ [][ScreenNext]_screenVars

-----------------------------------------------------------------------------
\* What attachscreen returns describes the bitmap: its format, and the length of
\* its rows unless a host of odd width made the width no multiple of four.  A
\* call that finds the screen attached returns what it never set.
ReplyFits ==
    reply # NoReply /\ "again" \notin blind =>
       /\ reply.chan = bits.chan /\ reply.depth = bits.depth
       /\ "unaligned" \in blind \/ 4 * reply.width = bits.row

\* One thread at a time shows the bitmap, and a screen said to be attached has it,
\* so that closing the window gives the screen up: until the thread cannot be
\* made, ends because it cannot make its window, or ends with its window before
\* attachscreen has set attached.  From then on the screen is attached for ever,
\* with no thread and no window.
Forsaken == {"nowindow", "early"} \cap blind # {}
AttachedHasThread ==
    /\ thread # "none" => attached \/ attaching
    /\ attached => (thread = "none" <=> Forsaken)
    /\ Forsaken => attached \/ attaching

\* All 256 entries of the palette are stored, once each, in range.
PaletteFilled ==
    pal # {} => /\ Cardinality(pal) = 256 /\ {e[1] : e \in pal} = 0 .. 255
                /\ \A e \in pal : {e[2], e[3], e[4]} \subseteq 0 .. 255

\* What the screen promises the draw device.
ScreenAttached == ReplyFits /\ AttachedHasThread /\ PaletteFilled

=============================================================================
