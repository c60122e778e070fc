--------------------------------- MODULE Tray ---------------------------------
(***************************************************************************)
(* The standing list: an icon and its menu, on a thread of their own with  *)
(* a message loop.  The instance's loop and this thread share what is      *)
(* shown and what was chosen, each behind a lock.                          *)
(*                                                                         *)
(* Sources: src/src/present/tray.rs, and present/mod.rs for what a list, a *)
(* trouble and a mood are.                                                 *)
(***************************************************************************)
EXTENDS Present

Ext == INSTANCE SequencesExt

VARIABLES
    shown,      \* Shared::shown
    chosen,     \* Shared::chosen
    posted,     \* a REFRESH is in the message queue
    icon,       \* the mood the icon on the taskbar has the colour of
    menu,       \* the troubles the open menu was built from; none, where it is not open
    restarted,  \* history: the shell has restarted since the icon was last dressed
    stale,      \* history: a trouble has gone from the list the open menu is of
    meant       \* history: the troubles that a line picked may have stood for

trayVars == <<shown, chosen, posted, icon, menu, restarted, stale, meant>>

\* The type invariant of a tray.
TrayTypeOK ==
    /\ shown \in Shown /\ chosen \in Seq({PutDown(t) : t \in Trouble} \cup {Quit}) /\ posted \in BOOLEAN
    /\ icon \in Moods
    /\ menu \in Seq(Trouble) /\ meant \subseteq Trouble
    /\ restarted \in BOOLEAN /\ stale \in BOOLEAN

\* Tray::show_up returns once the icon is there.
TrayInit == /\ shown = Nothing /\ chosen = <<>> /\ posted = FALSE
            /\ icon = "Settled" /\ menu = <<>>
            /\ restarted = FALSE /\ stale = FALSE /\ meant = {}

-----------------------------------------------------------------------------
\* Tray::show, on the loop's thread: what is shown is replaced and the other
\* thread is told to look.
Show(what) == shown' = what /\ posted' = TRUE

\* REFRESH: redress takes what is shown by now, for the colour and the words.
Redress ==
    /\ posted
    /\ posted' = FALSE /\ icon' = shown.mood /\ restarted' = FALSE
    /\ UNCHANGED <<shown, chosen, menu, stale, meant>>

\* TaskbarCreated: the icon is added again as it was first added.
ShellRestarts ==
    /\ icon # "Settled"
    /\ icon' = "Settled" /\ restarted' = TRUE
    /\ UNCHANGED <<shown, chosen, posted, menu, stale, meant>>

\* offer: the menu is built from a copy of what is shown, a line each, and Quit.
\* What is shown may be behind what the troubles are now.
Closed == menu' = <<>> /\ stale' = FALSE
Offer(troubles) ==
    /\ menu = <<>>
    /\ menu' = shown.troubles
    /\ stale' = ~Ext!IsPrefix(shown.troubles, troubles)
    /\ UNCHANGED <<shown, chosen, posted, icon, restarted, meant>>

\* WM_COMMAND: the line picked is a position, looked up in what is shown now.
Pick(i) ==
    /\ i \in DOMAIN menu
    /\ Closed
    /\ chosen' = IF i \in DOMAIN shown.troubles THEN Append(chosen, PutDown(shown.troubles[i]))
               ELSE chosen
    /\ meant' = IF stale THEN Trouble ELSE {menu[i]}
    /\ UNCHANGED <<shown, posted, icon, restarted>>
PickQuit ==
    /\ Closed
    /\ chosen' = Append(chosen, Quit)
    /\ UNCHANGED <<shown, posted, icon, restarted, meant>>
Escape ==
    /\ Closed
    /\ UNCHANGED <<shown, chosen, posted, icon, restarted, meant>>

\* Tray::taken: all there are, and none left.
Taken == chosen' = <<>> /\ meant' = {}
===============================================================================
