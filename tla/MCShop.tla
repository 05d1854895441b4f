-------------------------------- MODULE MCShop --------------------------------
EXTENDS Shop
=============================================================================
