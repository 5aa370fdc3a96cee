------------------------------- MODULE MCHoming -------------------------------
EXTENDS Homing
HmPlacesDef == {-5, -3, 0, 2}
HmOnePlace == {-3}
=============================================================================
