---------------------------- MODULE MCRttExchange ----------------------------
(***************************************************************************)
(* RttExchange with eras of 80 nanoseconds and two words to an era: the    *)
(* clock passes the end of an era on its way, and the end of a word within *)
(* one if it is set forward.                                               *)
(***************************************************************************)
EXTENDS RttExchange

MCSteps == {-7, 35}
=============================================================================
