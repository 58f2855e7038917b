---------------------------- MODULE MCAdsbShield ----------------------------
EXTENDS AdsbShield

\* Below, within and above the places the script allows, and no number at all.
MCContents == {-1, 2, 9, Junk}
=============================================================================
