-------------------------- MODULE MCIdTranslation --------------------------
(* A small instance of IdTranslation for TLC. *)
EXTENDS IdTranslation
MCClientGuestId == 1..3
MCServerGuestId == {100, 101}
MCClientHostId  == 1..4
MCServerHostId  == {100}
=============================================================================
