-------------------------------- MODULE Emu ---------------------------------
(***************************************************************************)
(* The device drivers and tools of the labs, side by side.  They share no  *)
(* state: a behaviour of Emu is one of one of them, driver, and the others *)
(* stay as they are at the start.                                          *)
(***************************************************************************)
EXTENDS Pointer, WmSize, Console, Keys, Snarf, Kprint, Screen, Window, Audio,
        Arch, Handheld, Apm, Vxrun, Movies, Guide

VARIABLE driver

emuVars == <<driver, pointerVars, wmSizeVars, consoleVars, keysVars, snarfVars, kprintVars,
             screenVars, windowVars, audioVars, archVars, handheldVars, apmVars,
             vxVars, moviesVars, guideVars>>

Init ==
    /\ driver \in {"pointer", "wmsize", "console", "keys", "snarf", "kprint", "screen",
                   "window", "audio", "arch", "handheld", "apm", "vxrun", "movies", "guide"}
    /\ PointerInit /\ WmSizeInit /\ ConsoleInit /\ KeysInit /\ SnarfInit /\ KprintInit
    /\ ScreenInit /\ WindowInit /\ AudioInit /\ ArchInit /\ HandheldInit
    /\ ApmInit /\ VxrunInit /\ MoviesInit /\ GuideInit

Next ==
    /\ UNCHANGED driver
    /\ IF driver = "pointer" THEN PointerNext ELSE UNCHANGED pointerVars
    /\ IF driver = "wmsize" THEN WmSizeNext ELSE UNCHANGED wmSizeVars
    /\ IF driver = "console" THEN ConsoleNext ELSE UNCHANGED consoleVars
    /\ IF driver = "keys" THEN KeysNext ELSE UNCHANGED keysVars
    /\ IF driver = "snarf" THEN SnarfNext ELSE UNCHANGED snarfVars
    /\ IF driver = "kprint" THEN KprintNext ELSE UNCHANGED kprintVars
    /\ IF driver = "screen" THEN ScreenNext ELSE UNCHANGED screenVars
    /\ IF driver = "window" THEN WindowNext ELSE UNCHANGED windowVars
    /\ IF driver = "audio" THEN AudioNext ELSE UNCHANGED audioVars
    /\ IF driver = "arch" THEN ArchNext ELSE UNCHANGED archVars
    /\ IF driver = "handheld" THEN HandheldNext ELSE UNCHANGED handheldVars
    /\ IF driver = "apm" THEN ApmNext ELSE UNCHANGED apmVars
    /\ IF driver = "vxrun" THEN VxrunNext ELSE UNCHANGED vxVars
    /\ IF driver = "movies" THEN MoviesNext ELSE UNCHANGED moviesVars
    /\ IF driver = "guide" THEN GuideNext ELSE UNCHANGED guideVars

Spec == Init /\ [][Next]_emuVars

-----------------------------------------------------------------------------
\* The files of devcons.c: readers of /dev/cons get whole lines and all that was
\* typed, /dev/snarf is one text, and /dev/kprint has a queue while it is open.
ConsFiles == LinesDelivered /\ SnarfWhole /\ QueueOwned

\* The window of win.c: what attachscreen replies fits what it made, and the
\* window shows the picture and the cursor it was given last.
ScreenShown == ScreenAttached /\ WindowCurrent

\* The handheld knows whether its screen is lit, where its pen is, and how full
\* its battery.
HandheldServes == HandheldKnows /\ BatteryRead

\* The indexes of the mux television lead to the film and the programme asked for.
IndexesFind == FilmsFound /\ GuideFinds

=============================================================================
