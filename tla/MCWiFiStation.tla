--------------------------- MODULE MCWiFiStation ---------------------------
(***************************************************************************)
(* An instance of WiFiStation for TLC: one reason of each kind that        *)
(* _eventCallback tells apart.                                             *)
(***************************************************************************)
EXTENDS WiFiStation

MCReasons == {AUTH_EXPIRE, ASSOC_LEAVE, BEACON_TIMEOUT, NO_AP_FOUND, AUTH_FAIL}

=============================================================================
