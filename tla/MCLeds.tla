------------------------------- MODULE MCLeds -------------------------------
(* Small instances of PSMoveLeds for TLC.                                   *)
EXTENDS PSMoveLeds

CONSTANTS red, green, rumble, off, on, garbage

MCRed == {red}
MCRumble == {rumble}
MCValues == {off, on}
=============================================================================
