----------------------------- MODULE MCWiFiSta ------------------------------
(* Two networks, either of which the user may have configured.             *)
EXTENDS WiFiSta

=============================================================================
