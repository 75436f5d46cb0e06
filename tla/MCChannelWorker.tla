--------------------------- MODULE MCChannelWorker ---------------------------
(* Small instance of ChannelWorker: one request that is born expired, a short *)
(* one and a longer one.                                                      *)
EXTENDS ChannelWorker

MCCloseAfter == {-1, 1, 2}
\* Only sensible requests.
MCPositive == {1, 2}
=============================================================================
