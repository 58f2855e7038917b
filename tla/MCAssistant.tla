----------------------------- MODULE MCAssistant ----------------------------
(* Two builds for TLC: the second has fewer chunks than a lane may hold.    *)
EXTENDS Assistant

TwoBuilds == << <<"x", "x", "y">>, <<"y">> >>

=============================================================================
