------------------------------ MODULE MCPresence ------------------------------
(***************************************************************************)
(* Presence with bounds for TLC.  Each world has what may happen in it and *)
(* how many troubles and presses there are room for, so that two troubles  *)
(* at once are looked at where nothing is pressed.                         *)
(***************************************************************************)
EXTENDS Presence

\* A question and what can go wrong with it, one that another process settles, an
\* icon and its list, and saves that fail and land.
MCWorlds ==
    {[may |-> {"fail", "refuse", "unreachable", "close", "stuck"}, troubles |-> 1, presses |-> 1],
     [may |-> {"command", "unreachable", "stuck"}, troubles |-> 1, presses |-> 1],
     [may |-> {"refuse", "restart", "lost_door"}, troubles |-> 2, presses |-> 0],
     [may |-> {"fail"}, troubles |-> 2, presses |-> 0]}

\* Saves that fail, and nothing else.
MCFailing == {[may |-> {"fail", "refuse"}, troubles |-> 1, presses |-> 1]}
===============================================================================
