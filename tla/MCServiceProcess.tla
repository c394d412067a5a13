-------------------------- MODULE MCServiceProcess --------------------------
(***************************************************************************)
(* ServiceProcess with the notifier's three senders of mail.  A release    *)
(* goes to an address no message can be built for and to a good one.       *)
(***************************************************************************)
EXTENDS ServiceProcess

MCCallers == {"events", "release", "ticker"}
MCBatches == [c \in MCCallers |->
    IF c = "release" THEN {<<"bad", "ann">>} ELSE {<<"bob">>}]
MCInvalid == {"bad"}
=============================================================================
