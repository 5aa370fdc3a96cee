------------------------------ MODULE MCSettings ------------------------------
EXTENDS Settings
SeLinesDef == {<<1, 2, 0, 0>>, <<3, 0, 0, 0>>}
SeOneLine == {<<1, 2, 0, 0>>}
=============================================================================
