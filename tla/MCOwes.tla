------------------------------- MODULE MCOwes -------------------------------
(* Instances of Owes for TLC.  User 1 of network 1 is in both of its       *)
(* markets, on different pages; every user has nothing at one block and    *)
(* something at the other in some way.                                     *)
EXTENDS Owes

MCEntries == << << <<1, 1>>, <<1, 2>>, <<2, 1>> >>, << <<3, 2>> >> >>
MCDue     == << << <<1, 2, 1>>, <<1>> >>, << <<0, 1, 2>>, <<2>> >> >>
MCAccrued == << << <<1, 0>>, <<0, 1>> >>, << <<0, 3>>, <<0, 0>> >> >>
=============================================================================
