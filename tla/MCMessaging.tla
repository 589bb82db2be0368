---------------------------- MODULE MCMessaging ----------------------------
(* Two message types of the application; one can be registered twice.       *)
EXTENDS Messaging

CONSTANTS chat, move

TwoTypes == {chat, move}
=============================================================================
