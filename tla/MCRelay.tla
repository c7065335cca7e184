------------------------------ MODULE MCRelay ------------------------------
(* Instance of Relay for TLC: one device that connects twice, a proxied     *)
(* action and a command through a session.                                  *)
EXTENDS Relay, TLC

CONSTANT d1

MCSocketOf == [c \in Sockets |-> d1]
MCTargetOf == [r \in Requests |-> d1]
=============================================================================
