------------------------- MODULE MC_HeartbeatHealth -------------------------
(* Instantiates HeartbeatHealth for TLC.                                   *)
EXTENDS HeartbeatHealth

\* A 2xx and a 4xx from the push endpoint while the backend is up; a curl
\* connect error (-CURLE_COULDNT_CONNECT) and a 503 while it is down.
MCUpPushCodes == {200, 404}
MCDownPushCodes == {-7, 503}
MCUpPingCodes == {200}
MCDownPingCodes == {-7, 503}
=============================================================================
