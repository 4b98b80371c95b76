---------------------------- MODULE MC_RxQueue ----------------------------
EXTENDS RxQueue
===========================================================================
