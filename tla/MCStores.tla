------------------------------ MODULE MCStores ------------------------------
EXTENDS Stores, TLC
CONSTANTS a, b, k
=============================================================================
