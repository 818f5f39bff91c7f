-------------------------- MODULE MCAlertLifecycle --------------------------
(* One device that goes offline and online and logs an error.               *)
EXTENDS AlertLifecycle

MCEvents == {"offline", "online", "log"}
MCRaised(e) == e
MCCleared(e) == IF e = "offline" THEN {"online"} ELSE IF e = "online" THEN {"offline"} ELSE {}
=============================================================================
