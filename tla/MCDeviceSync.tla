----------------------------- MODULE MCDeviceSync -----------------------------
(* DeviceSync with two edits of the user, one that the server refuses, one that is
   made only where the queue may grow too long, and one of somebody else. *)
EXTENDS DeviceSync

TwoAtATime == {{"lost", "foreign"}, {"restart", "foreign"}, {"past", "foreign"},
               {"overlap"}, {"unfit", "foreign"}, {"removed", "foreign"},
               {"long", "foreign"}, {"signedout", "foreign"}}

EachOnce == Mishaps
===============================================================================
