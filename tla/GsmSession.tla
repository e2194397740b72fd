----------------------------- MODULE GsmSession -----------------------------
(***************************************************************************)
(* The application's main thread, GSM_thread_entry: how the device gets    *)
(* from power-up to an MQTT subscription.  One turn of its loop runs, each *)
(* under its own condition,                                                *)
(*                                                                         *)
(*   GSM_ConnectingLoop      AT commands up to the TCP connection,         *)
(*   APP_ESP32_Config_loop   AT commands that set up the BLE service,      *)
(*   RegisterDevice          an HTTP exchange over the TCP connection,     *)
(*   EST32ConnectOneNetLoop  MQTT CONNECT and SUBSCRIBE over it.           *)
(*                                                                         *)
(* The first two talk to the modem through the AT client, whose parser     *)
(* must be on (AT_COMPonet_Station = 1); the last two read the same UART   *)
(* themselves, for which it must be off.                                   *)
(*                                                                         *)
(* The modem is external: a command succeeds or fails, the answer that is  *)
(* taken for its own may be a late one of an earlier command, a connection *)
(* may come up after the command that asked for it has been given up, and  *)
(* may be lost.  HeartOverTimeCheck and ReceiveDataHandle, at the end of   *)
(* the turn, change nothing: GSMInit, which gives GSM_TransparentRX its    *)
(* buffer, is never called, so no frame is ever received and               *)
(* HeartBWTStartMark is never set.                                         *)
(***************************************************************************)
EXTENDS Integers

CONSTANTS MaxTryNum,    \* 5 in the build
          ByteMod,      \* TryNum and TyeNum are unsigned char: 256
          MayLoseLink   \* whether the TCP connection may break

ASSUME MaxTryNumAssumption == MaxTryNum \in Nat \ {0} /\ MaxTryNum + 1 < ByteMod
ASSUME ByteModAssumption   == ByteMod \in Nat
ASSUME LinkAssumption      == MayLoseLink \in BOOLEAN

VARIABLES
  part,                 \* the part of the loop's turn that runs next
  ConnectStation, TryNum,                  \* GSM_ConnectingLoop
  BLE_Station, BLE_TryNum,                 \* APP_ESP32_Config_loop
  DeviceResgistMark, MQTT_ADDR,            \* OneNetParam
  ConnectOneNetStep, TyeNum,               \* EST32ConnectOneNetLoop
  conn_state,                              \* OneNetParam.mqtt_client
  AT_COMPonet_Station,
  link,                 \* the modem: the server the TCP connection is to
  asked,                \* the modem: the server it may still connect to
  opened,               \* history: the last AT+CIPSTART was answered by the
                        \* modem opening the connection
  greeted,              \* a CONNECT has been written while link was up
  good                  \* the modem and the servers do as they are asked, in time

connecting == <<ConnectStation, TryNum>>
ble        == <<BLE_Station, BLE_TryNum>>
param      == <<DeviceResgistMark, MQTT_ADDR>>
onenet     == <<ConnectOneNetStep, TyeNum, conn_state>>
tcp        == <<link, asked, opened>>
vars == <<part, ConnectStation, TryNum, BLE_Station, BLE_TryNum,
          DeviceResgistMark, MQTT_ADDR, ConnectOneNetStep, TyeNum, conn_state,
          AT_COMPonet_Station, link, asked, opened, greeted, good>>

\* ConnectStation: TEST_AT_COMM to ReadIPAddr are 1 to 6.  SetTranMode and
\* StartSendData (8, 9) are never entered.
POWER_REST      == 0
TEST_AT_COMM    == 1
ConnectServer   == 7
ConnectServerOK == 10

\* BLE_Station: BLEINIT to BLEADVSTART are 1 to 7.
Reset       == 0
BLEINIT     == 1
BLEADVSTART == 7
BLEOK       == 8

Server == {"http", "mqtt"}
Part   == {"connect", "again", "ble", "register", "onenet"}

TypeOK ==
  /\ part \in Part
  /\ ConnectStation \in 0 .. 7 \cup {ConnectServerOK}
  /\ TryNum \in 0 .. MaxTryNum
  /\ BLE_Station \in 0 .. BLEOK
  /\ BLE_TryNum \in 0 .. MaxTryNum
  /\ DeviceResgistMark \in {0, 1}
  /\ MQTT_ADDR \in Server
  /\ ConnectOneNetStep \in 0 .. 2
  /\ TyeNum \in 0 .. ByteMod - 1
  /\ conn_state \in {"TCP_DISCONNECTED", "MQTT_CONNECTING", "MQTT_CONNECTED"}
  /\ AT_COMPonet_Station \in {0, 1}
  /\ link \in Server \cup {"none"}
  /\ asked \in Server \cup {"none"}
  /\ opened \in BOOLEAN
  /\ greeted \in BOOLEAN
  /\ good \in BOOLEAN

\* The modem keeps its power, and its connection, when the processor restarts.
Init ==
  /\ part = "connect"
  /\ ConnectStation = POWER_REST /\ TryNum = 0
  /\ BLE_Station = Reset /\ BLE_TryNum = 0
  /\ DeviceResgistMark = 0 /\ MQTT_ADDR = "http"
  /\ ConnectOneNetStep = 0 /\ TyeNum = 0 /\ conn_state = "TCP_DISCONNECTED"
  /\ AT_COMPonet_Station = 1
  /\ link \in Server \cup {"none"} /\ asked = "none" /\ opened = FALSE
  /\ greeted = FALSE
  /\ good \in BOOLEAN

-----------------------------------------------------------------------------
(* GSM_ConnectingLoop *)

\* What ESP32_SendCOM_AT_CMD and RegisterDevice may report: 0 or a failure.
Outcome == IF good THEN {TRUE} ELSE BOOLEAN

\* Mutant: the old connection is not closed.
PowerRestKeepsLink ==
  /\ ConnectStation = POWER_REST
  /\ AT_COMPonet_Station' = 1
  /\ ConnectStation' = TEST_AT_COMM
  /\ UNCHANGED <<TryNum, tcp, greeted>>

\* AT+CIPCLOSE, carried out or not; its result is ignored.
PowerRest ==
  /\ ConnectStation = POWER_REST
  /\ AT_COMPonet_Station' = 1
  /\ link' \in IF good THEN {"none"} ELSE {link, "none"}
  /\ asked' \in IF good THEN {"none"} ELSE {asked, "none"}
  /\ greeted' = (greeted /\ link' = link)
  /\ ConnectStation' = TEST_AT_COMM
  /\ UNCHANGED <<TryNum, opened>>

\* Mutant: the count is not reset when the tries are over.
FailedKeepsCount(s) ==
  /\ TryNum' = TryNum + 1
  /\ ConnectStation' = IF TryNum' >= MaxTryNum THEN POWER_REST ELSE s

\* A failed try at station s: one more, or back to POWER_REST when there were
\* too many (TEST_AT_COMM allows one more than the other stations).
Failed(s) ==
  LET over == IF s = TEST_AT_COMM THEN TryNum + 1 > MaxTryNum
                                  ELSE TryNum + 1 >= MaxTryNum IN
  /\ TryNum' = IF over THEN 0 ELSE TryNum + 1
  /\ ConnectStation' = IF over THEN POWER_REST ELSE s

\* TEST_AT_COMM, ColseEcho, SET_Baudrate, SetWiFiMode, ConnectGW, ReadIPAddr
SetUp ==
  /\ ConnectStation \in TEST_AT_COMM .. ConnectServer - 1
  /\ \E ok \in Outcome :
       IF ok THEN TryNum' = 0 /\ ConnectStation' = ConnectStation + 1
             ELSE Failed(ConnectStation)
  /\ UNCHANGED <<AT_COMPonet_Station, tcp, greeted>>

\* What ESP32_SendCOM_AT_CMD finds in the answer to AT+CIPSTART: an end with OK
\* and a line with CONNECTED, an end with OK alone, or neither (a refusal, or
\* nothing in time).  The modem opens the connection; or it has one already,
\* opens no second one and says ALREADY CONNECTED, with OK or with ERROR; or the
\* answer is lost, or is that of an earlier command, and the connection that
\* was asked for may still come up.
CIPSTART(reply) ==
  \/ /\ link = "none"
     /\ reply \in {"OK", "CONNECTED"}
     /\ link' = MQTT_ADDR /\ asked' = "none" /\ opened' = TRUE
  \/ /\ link # "none"
     /\ reply \in {"CONNECTED", "ERROR"}
     /\ opened' = FALSE /\ UNCHANGED <<link, asked>>
  \/ /\ ~good
     /\ reply \in {"OK", "CONNECTED", "ERROR"}
     /\ asked' \in {asked} \cup (IF link = "none" THEN {MQTT_ADDR} ELSE {})
     /\ opened' = FALSE /\ UNCHANGED link

\* Any answer with the keyword counts, whatever the modem did.
Connected ==
  /\ TryNum' = 0
  /\ AT_COMPonet_Station' = 0
  /\ ConnectStation' = ConnectServerOK
  /\ part' = "ble"

\* The first AT+CIPSTART, for an answer with OK
Connect ==
  /\ part = "connect"
  /\ ConnectStation = ConnectServer
  /\ \/ \E reply \in {"OK", "CONNECTED"} : CIPSTART(reply) /\ Connected
     \/ /\ CIPSTART("ERROR")
        /\ part' = "again"
        /\ UNCHANGED <<connecting, AT_COMPonet_Station>>
  /\ UNCHANGED greeted

\* The second one, for an answer with CONNECTED
ConnectAgain ==
  /\ part = "again"
  /\ ConnectStation = ConnectServer
  /\ \/ CIPSTART("CONNECTED") /\ Connected
     \/ /\ \E reply \in {"OK", "ERROR"} : CIPSTART(reply)
        /\ Failed(ConnectServer)
        /\ part' = "ble"
        /\ UNCHANGED AT_COMPonet_Station
  /\ UNCHANGED greeted

GSM_ConnectingLoop ==
  /\ ConnectStation # ConnectServerOK
  /\ \/ part = "connect" /\ (PowerRest \/ SetUp) /\ part' = "ble"
     \/ Connect \/ ConnectAgain
  /\ UNCHANGED <<ble, param, onenet, good>>

-----------------------------------------------------------------------------
(* APP_ESP32_Config_loop.  Reset falls through to BLEINIT. *)

\* Mutant: the parser is left on when the BLE service has been set up.
BLELeavesParserOn ==
  /\ part = "ble"
  /\ BLE_Station # BLEOK
  /\ ConnectStation = ConnectServerOK
  /\ LET s == IF BLE_Station = Reset THEN BLEINIT ELSE BLE_Station
     IN \E ok \in Outcome :
          IF ok THEN BLE_TryNum' = 0 /\ BLE_Station' = s + 1
          ELSE IF BLE_TryNum + 1 > MaxTryNum
            THEN BLE_TryNum' = 0 /\ BLE_Station' = Reset
            ELSE BLE_TryNum' = BLE_TryNum + 1 /\ BLE_Station' = s
  /\ AT_COMPonet_Station' = IF BLE_Station = Reset THEN 1 ELSE AT_COMPonet_Station
  /\ part' = "register"
  /\ UNCHANGED <<connecting, param, onenet, tcp, greeted, good>>

APP_ESP32_Config_loop ==
  /\ part = "ble"
  /\ BLE_Station # BLEOK
  /\ ConnectStation = ConnectServerOK
  /\ LET s == IF BLE_Station = Reset THEN BLEINIT ELSE BLE_Station
         on == IF BLE_Station = Reset THEN 1 ELSE AT_COMPonet_Station
     IN \E ok \in Outcome :
          /\ IF ok THEN BLE_TryNum' = 0 /\ BLE_Station' = s + 1
             ELSE IF BLE_TryNum + 1 > MaxTryNum
               THEN BLE_TryNum' = 0 /\ BLE_Station' = Reset
               ELSE BLE_TryNum' = BLE_TryNum + 1 /\ BLE_Station' = s
          /\ AT_COMPonet_Station' = IF ok /\ s = BLEADVSTART THEN 0 ELSE on
  /\ part' = "register"
  /\ UNCHANGED <<connecting, param, onenet, tcp, greeted, good>>

-----------------------------------------------------------------------------
(* RegisterDevice and what GSM_thread_entry does with its result *)

\* Mutant: the connection to the HTTP server is kept.
RegisterKeepsLink ==
  /\ part = "register"
  /\ ConnectStation = ConnectServerOK
  /\ DeviceResgistMark = 0
  /\ BLE_Station = BLEOK
  /\ \E ok \in Outcome :
       IF ok /\ link = MQTT_ADDR
         THEN DeviceResgistMark' = 1 /\ MQTT_ADDR' = "mqtt"
         ELSE UNCHANGED param
  /\ part' = "onenet"
  /\ UNCHANGED <<connecting, ble, onenet, AT_COMPonet_Station, tcp, greeted, good>>

\* Only the HTTP server, whose address MQTT_ADDR still is, sends a device_id.
RegisterDevice ==
  /\ part = "register"
  /\ ConnectStation = ConnectServerOK
  /\ DeviceResgistMark = 0
  /\ BLE_Station = BLEOK
  /\ \E ok \in Outcome :
       IF ok /\ link = MQTT_ADDR
         THEN /\ DeviceResgistMark' = 1
              /\ MQTT_ADDR' = "mqtt"
              /\ ConnectStation' = POWER_REST
         ELSE UNCHANGED <<param, ConnectStation>>
  /\ part' = "onenet"
  /\ UNCHANGED <<TryNum, ble, onenet, AT_COMPonet_Station, tcp, greeted, good>>

-----------------------------------------------------------------------------
(* EST32ConnectOneNetLoop *)

\* What the first bytes of the 128 read from the UART are: the modem's own
\* lines, or a packet of the server.
RxHead == {"nothing", "CRLF", "digit", "OK", "Recv", "+IPD", "connack", "refused",
           "suback"}

\* mqtt_message_received takes the first byte for an MQTT header: the 'O' of
\* OK (0x4F) is a PUBACK, the 'R' of Recv (0x52) a PUBREC, '+' (0x2B) a CONNACK
\* with code 'D', a digit (0x3n) a PUBLISH whose topic does not fit, CR no known
\* type.  Its result is MQTT_CONNECT_ACCEPTED unless it finds something wrong.
mqtt_message_received(h, state) ==
  CASE h \in {"nothing", "CRLF", "digit"}         -> "failed"
    [] h \in {"OK", "Recv", "suback", "connack"}  -> "accepted"
    [] h \in {"+IPD", "refused"} -> IF state = "MQTT_CONNECTING"
                                      THEN "refused" ELSE "accepted"

\* A server that does as it is asked leaves something that is accepted.
Reply(state) ==
  {h \in RxHead : good /\ link = MQTT_ADDR =>
                    mqtt_message_received(h, state) = "accepted"}

\* TyeNum++, and back to POWER_REST when it is above 5 (the same number as
\* MaxTryNum); it is not reset then.
NoAnswer ==
  /\ TyeNum' = (TyeNum + 1) % ByteMod
  /\ IF TyeNum' > MaxTryNum
       THEN ConnectOneNetStep' = 0 /\ ConnectStation' = POWER_REST
       ELSE UNCHANGED <<ConnectOneNetStep, ConnectStation>>

\* OneNet_Connect: CONNECT, half a second, and one look at what came back
OneNet_Connect ==
  /\ ConnectOneNetStep = 0
  /\ greeted' = (greeted \/ link # "none")
  /\ \E h \in Reply("MQTT_CONNECTING") :
       /\ conn_state' = IF h = "connack" THEN "MQTT_CONNECTED" ELSE "MQTT_CONNECTING"
       /\ IF mqtt_message_received(h, "MQTT_CONNECTING") = "accepted"
            THEN TyeNum' = 0 /\ ConnectOneNetStep' = 1 /\ UNCHANGED ConnectStation
            ELSE NoAnswer

\* Mutant: the step is not taken back when the subscription is given up.
SubscribeKeepsStep ==
  /\ ConnectOneNetStep = 1
  /\ \E h \in Reply(conn_state) :
       IF mqtt_message_received(h, conn_state) = "accepted"
         THEN ConnectOneNetStep' = 2 /\ UNCHANGED <<TyeNum, ConnectStation>>
         ELSE /\ TyeNum' = (TyeNum + 1) % ByteMod
              /\ ConnectStation' = IF TyeNum' > MaxTryNum THEN POWER_REST
                                                          ELSE ConnectStation
              /\ UNCHANGED ConnectOneNetStep
  /\ UNCHANGED <<conn_state, greeted>>

\* OneNet_SUBSCRIBE: SUBSCRIBE, half a second, and one look at what came back
OneNet_SUBSCRIBE ==
  /\ ConnectOneNetStep = 1
  /\ \E h \in Reply(conn_state) :
       /\ conn_state' = IF h = "connack" /\ conn_state = "MQTT_CONNECTING"
                          THEN "MQTT_CONNECTED" ELSE conn_state
       /\ IF mqtt_message_received(h, conn_state) = "accepted"
            THEN ConnectOneNetStep' = 2 /\ UNCHANGED <<TyeNum, ConnectStation>>
            ELSE NoAnswer
  /\ UNCHANGED greeted

Subscribed == ConnectOneNetStep = 2 /\ UNCHANGED <<onenet, greeted, ConnectStation>>

EST32ConnectOneNetLoop ==
  /\ part = "onenet"
  /\ ConnectStation = ConnectServerOK
  /\ DeviceResgistMark = 1
  /\ OneNet_Connect \/ OneNet_SUBSCRIBE \/ Subscribed
  /\ part' = "connect"
  /\ UNCHANGED <<TryNum, ble, param, AT_COMPonet_Station, tcp, good>>

-----------------------------------------------------------------------------
\* A part of the turn whose condition does not hold is passed over.
Skip ==
  /\ \/ part = "connect" /\ ConnectStation = ConnectServerOK /\ part' = "ble"
     \/ /\ part = "ble"
        /\ BLE_Station = BLEOK \/ ConnectStation # ConnectServerOK
        /\ part' = "register"
     \/ /\ part = "register"
        /\ ~(ConnectStation = ConnectServerOK /\ DeviceResgistMark = 0
             /\ BLE_Station = BLEOK)
        /\ part' = "onenet"
     \/ /\ part = "onenet"
        /\ ~(ConnectStation = ConnectServerOK /\ DeviceResgistMark = 1)
        /\ part' = "connect"
  /\ UNCHANGED <<connecting, ble, param, onenet, AT_COMPonet_Station, tcp,
                 greeted, good>>

GSM_thread_entry ==
  \/ GSM_ConnectingLoop \/ APP_ESP32_Config_loop \/ RegisterDevice
  \/ EST32ConnectOneNetLoop \/ Skip

\* The connection breaks.
LoseLink ==
  /\ MayLoseLink
  /\ link # "none"
  /\ link' = "none"
  /\ greeted' = FALSE
  /\ UNCHANGED <<part, connecting, ble, param, onenet, AT_COMPonet_Station, asked,
                 opened, good>>

\* A connection whose AT+CIPSTART the thread has given up comes up.
LateLink ==
  /\ asked # "none"
  /\ link = "none"
  /\ link' = asked
  /\ asked' = "none"
  /\ UNCHANGED <<part, connecting, ble, param, onenet, AT_COMPonet_Station, opened,
                 greeted, good>>

\* The modem and the servers start or stop doing as they are asked.
Weather ==
  /\ good' = ~good
  /\ UNCHANGED <<part, connecting, ble, param, onenet, AT_COMPonet_Station, tcp,
                 greeted>>

Next == GSM_thread_entry \/ LoseLink \/ LateLink \/ Weather

Spec == Init /\ [][Next]_vars

\* The thread's loop goes on.
FairSpec == Spec /\ WF_vars(GSM_thread_entry)

-----------------------------------------------------------------------------
(* Properties *)

\* AT_COMPonet_Station is right for what the thread does: the parser is on while
\* AT commands wait for its answers, and off while RegisterDevice,
\* OneNet_Connect and OneNet_SUBSCRIBE read the UART themselves, whatever
\* commands failed on the way.
ReaderSwitch ==
  /\ ConnectStation \in TEST_AT_COMM .. ConnectServer => AT_COMPonet_Station = 1
  /\ ConnectStation = ConnectServerOK =>
       /\ BLE_Station \in BLEINIT .. BLEADVSTART => AT_COMPonet_Station = 1
       /\ BLE_Station = BLEOK => AT_COMPonet_Station = 0

\* The HTTP registration and the MQTT session each talk to their own server: once
\* the modem has opened the connection that GSM_ConnectingLoop asked for, the
\* thread never uses one to the other server, left open, kept or late.  Where
\* the success was another answer (ALREADY CONNECTED, or the late OK of a
\* command that was given up) the code has no such guarantee: the modem may still
\* hold the old connection, and the thread goes on with it.
RightServer ==
  ConnectStation = ConnectServerOK /\ opened =>
    link \in {"none", IF DeviceResgistMark = 1 THEN "mqtt" ELSE "http"}

\* A SUBSCRIBE never goes out over a connection that the modem opened for
\* GSM_ConnectingLoop and that has not carried a CONNECT.
ConnectBeforeSubscribe ==
  ConnectOneNetStep >= 1 /\ link # "none" /\ opened => greeted

\* Once the modem and the servers do as they are asked, and go on doing so, the
\* device comes to its subscription, whatever state the failures before left
\* its retry counters and stations in; only a connection it counts on and does
\* not have, because it was lost or another answer was taken for the modem's
\* success, can keep it from that.
GetsOnline ==
  <>[]good => \/ <>(ConnectOneNetStep = 2)
              \/ <>(ConnectStation = ConnectServerOK /\ link # MQTT_ADDR)

\* "GSM restarts when the heartbeat times out" (the comment in
\* WaitHeartOvertimeHandle): a connection that is gone is noticed.
LossIsNoticed ==
  (ConnectStation = ConnectServerOK /\ link = "none") ~> (ConnectStation = POWER_REST)

\* "0 OK, others Fail" (OneNet_Connect): it succeeds when the server has
\* accepted the CONNECT.
ConnectedIsAccepted == ConnectOneNetStep = 1 => conn_state = "MQTT_CONNECTED"
=============================================================================
