--------------------------- MODULE MCMsgPairArray ---------------------------
EXTENDS MsgPairArray
=============================================================================
