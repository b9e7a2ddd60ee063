-------------------------------- MODULE Wifi ---------------------------------
(***************************************************************************)
(* The start of the control board: app_main waits until the wifi is        *)
(* connected or was retried often enough, and goes on in both cases        *)
(* (wifi.c, main.c).  The events come from the wifi driver, which ends     *)
(* every attempt to connect with one.                                      *)
(***************************************************************************)
EXTENDS Integers

CONSTANT WIFI_MAXIMUM_RETRY

ASSUME WifiAssumption == WIFI_MAXIMUM_RETRY \in Nat

VARIABLES
  station,      \* "asked" to connect, "connecting", "connected" (with an
                \* address), "off"
  wifiRetries,
  bits,         \* wifiEventGroup
  booted        \* app_main has come to its end: the tasks run

wifiVars == <<station, wifiRetries, bits, booted>>

WifiTypeOK ==
  /\ station \in {"asked", "connecting", "connected", "off"}
  /\ wifiRetries \in 0..WIFI_MAXIMUM_RETRY
  /\ bits \subseteq {"WIFI_CONNECTED_BIT", "WIFI_FAIL_BIT"}
  /\ booted \in BOOLEAN

\* wifi_init_sta has started the station, and the event of that has been
\* answered with esp_wifi_connect.
WifiInit ==
  station = "asked" /\ wifiRetries = 0 /\ bits = {} /\ booted = FALSE

Connecting ==
  /\ station = "asked" /\ ~ booted
  /\ station' = "connecting"
  /\ UNCHANGED <<wifiRetries, bits, booted>>

\* Mutant: the retries are not counted.
Disconnected_NotCounted ==
  /\ station \in {"connecting", "connected"} /\ ~ booted
  /\ IF wifiRetries < WIFI_MAXIMUM_RETRY
     THEN station' = "asked" /\ UNCHANGED <<wifiRetries, bits>>
     ELSE station' = "off" /\ bits' = bits \cup {"WIFI_FAIL_BIT"} /\ UNCHANGED wifiRetries
  /\ UNCHANGED booted

Disconnected ==
  /\ station \in {"connecting", "connected"} /\ ~ booted
  /\ IF wifiRetries < WIFI_MAXIMUM_RETRY
     THEN station' = "asked" /\ wifiRetries' = wifiRetries + 1 /\ UNCHANGED bits
     ELSE station' = "off" /\ bits' = bits \cup {"WIFI_FAIL_BIT"} /\ UNCHANGED wifiRetries
  /\ UNCHANGED booted

GotIP ==
  /\ station = "connecting" /\ ~ booted
  /\ station' = "connected"
  /\ wifiRetries' = 0
  /\ bits' = bits \cup {"WIFI_CONNECTED_BIT"}
  /\ UNCHANGED booted

\* The handlers are unregistered: nobody counts, or connects again.
BootEnds ==
  /\ ~ booted
  /\ bits # {}
  /\ booted' = TRUE
  /\ station' = "off" /\ wifiRetries' = 0 /\ bits' = {}

=============================================================================
