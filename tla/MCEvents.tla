------------------------------ MODULE MCEvents ------------------------------
(***************************************************************************)
(* Instances of EventCore.  Each run gives Requests the kinds of events    *)
(* its question is about.                                                  *)
(***************************************************************************)
EXTENDS EventCore

CONSTANTS e1, e2, e3, G

Request(type, level, group, fn) ==
    [type |-> type, tpl |-> level, group |-> group, fn |-> fn]

(* Two levels of signal events, a group of them, a wait event; a request   *)
(* at a level no notification may have, and one without a function.        *)
NotifyRequests ==
    { Request({"SIGNAL"}, CALLBACK, NoGroup, TRUE),
      Request({"SIGNAL"}, NOTIFY, G, TRUE),
      Request({"SIGNAL"}, CALLBACK, G, TRUE),
      Request({"WAIT"}, NOTIFY, NoGroup, TRUE),
      Request({"SIGNAL"}, APPLICATION, NoGroup, TRUE) }

(* Timers that notify, that are polled and that notify the poller; an      *)
(* event that only a signal triggers, and a signal event above the timers. *)
TimerRequests ==
    { Request({"TIMER", "SIGNAL"}, CALLBACK, NoGroup, TRUE),
      Request({"TIMER"}, 0, NoGroup, FALSE),
      Request({"TIMER", "WAIT"}, CALLBACK, NoGroup, TRUE),
      Request({}, 0, NoGroup, FALSE),
      Request({"SIGNAL"}, NOTIFY, NoGroup, TRUE) }

NoWaitLists == {}
PollLists   == {<<e1>>, <<e2, e1>>}
=============================================================================
