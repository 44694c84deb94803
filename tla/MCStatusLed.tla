----------------------------- MODULE MCStatusLed -----------------------------
(***************************************************************************)
(* Instances of StatusLed for TLC: the statuses that differ most in what   *)
(* the LEDs make of them.                                                  *)
(***************************************************************************)
EXTENDS StatusLed

CONSTANTS main, worker, camera

SomeMessages == {"started", "clear", "camera_setup", "no_card",
                 "update_step", "update_failed", "reboot"}

SomeSays == [t \in {main, worker, camera} |->
               CASE t = main   -> {"clear", "camera_setup", "no_card"}
                 [] t = worker -> {"update_step", "update_failed"}
                 [] t = camera -> {"reboot"}]

SomeSeverity == [m \in SomeMessages |-> IF m = "update_failed" THEN 2 ELSE 0]

SomeAlarming == [m \in SomeMessages |->
                   IF m \in {"update_failed", "no_card"} THEN {"text"} ELSE {}]

SomeMissing == [m \in SomeMessages |-> IF m = "no_card" THEN "wifi" ELSE "nothing"]

SomeKeys == [m \in SomeMessages |->
               CASE m = "started" -> {"sysutils.started"}
                 [] m = "camera_setup" -> {"camera_setup"}
                 [] m = "reboot" -> {"reboot"}
                 [] OTHER -> {}]
=============================================================================
