-------------------------- MODULE GsmSessionProofs --------------------------
(* GsmSession's safety properties, for every MaxTryNum and every width of the *)
(* retry counters.                                                            *)
EXTENDS GsmSession, TLAPS

\* What the properties rest on.  BLE is never half set up while the TCP
\* connection is being made; a registered device has done with BLE and uses the
\* MQTT server's address; the MQTT steps are taken only while ConnectServerOK;
\* and no other connection can come up after the one the modem opened.
SessionInv ==
  /\ ConnectStation # ConnectServerOK => BLE_Station \in {Reset, BLEOK}
  /\ DeviceResgistMark = 1 => BLE_Station = BLEOK
  /\ MQTT_ADDR = IF DeviceResgistMark = 1 THEN "mqtt" ELSE "http"
  /\ ConnectOneNetStep >= 1 =>
       ConnectStation = ConnectServerOK /\ DeviceResgistMark = 1
  /\ ConnectStation = ConnectServerOK /\ opened => asked = "none"

IInv == TypeOK /\ SessionInv /\ ReaderSwitch /\ RightServer /\ ConnectBeforeSubscribe

LEMMA SessionInit == Init => IInv
<1> SUFFICES ASSUME Init PROVE IInv
  OBVIOUS
<1>1. greeted \in BOOLEAN /\ good \in BOOLEAN /\ opened \in BOOLEAN
  BY DEF Init
<1>2. QED
  BY <1>1, MaxTryNumAssumption, ByteModAssumption
     DEF Init, IInv, TypeOK, SessionInv, ReaderSwitch, RightServer,
         ConnectBeforeSubscribe, Part, Server, POWER_REST, TEST_AT_COMM,
         ConnectServer, ConnectServerOK, Reset, BLEINIT, BLEADVSTART, BLEOK

LEMMA SessionStep == IInv /\ [Next]_vars => IInv'
<1> SUFFICES ASSUME IInv, [Next]_vars PROVE IInv'
  OBVIOUS
<1>0. USE MaxTryNumAssumption, ByteModAssumption
      DEF IInv, TypeOK, SessionInv, ReaderSwitch, RightServer,
          ConnectBeforeSubscribe, Part, Server, POWER_REST, TEST_AT_COMM,
          ConnectServer, ConnectServerOK, Reset, BLEINIT, BLEADVSTART, BLEOK,
          connecting, ble, param, onenet, tcp
<1>1. CASE GSM_ConnectingLoop
  <2>1. CASE part = "connect" /\ PowerRest /\ part' = "ble"
    <3>1. greeted' \in BOOLEAN /\ opened' \in BOOLEAN /\ ConnectOneNetStep' = 0
      BY <1>1, <2>1 DEF GSM_ConnectingLoop, PowerRest
    <3>2. QED
      BY <1>1, <2>1, <3>1 DEF GSM_ConnectingLoop, PowerRest
  <2>2. CASE part = "connect" /\ SetUp /\ part' = "ble"
    BY <1>1, <2>2 DEF GSM_ConnectingLoop, SetUp, Failed
  <2>3. CASE Connect \/ ConnectAgain
    <3>0. ConnectStation = ConnectServer /\ ConnectOneNetStep' = 0
          /\ greeted' = greeted /\ UNCHANGED <<ble, param, onenet, good>>
      BY <1>1, <2>3 DEF GSM_ConnectingLoop, Connect, ConnectAgain
    <3>1. /\ opened' \in BOOLEAN
          /\ link' \in {link, MQTT_ADDR} /\ asked' \in {asked, MQTT_ADDR, "none"}
          /\ opened' => link' = MQTT_ADDR /\ asked' = "none"
      BY <2>3 DEF Connect, ConnectAgain, CIPSTART
    <3>2. CASE Connected
      BY <3>0, <3>1, <3>2 DEF Connected
    <3>3. CASE part' = "again" /\ UNCHANGED <<connecting, AT_COMPonet_Station>>
      BY <3>0, <3>1, <3>3
    <3>4. CASE /\ Failed(ConnectServer) /\ part' = "ble"
               /\ UNCHANGED AT_COMPonet_Station
      BY <3>0, <3>1, <3>4 DEF Failed
    <3>5. QED
      BY <2>3, <3>2, <3>3, <3>4 DEF Connect, ConnectAgain
  <2>4. QED
    BY <1>1, <2>1, <2>2, <2>3 DEF GSM_ConnectingLoop
<1>2. CASE APP_ESP32_Config_loop
  BY <1>2 DEF APP_ESP32_Config_loop
<1>3. CASE RegisterDevice
  BY <1>3 DEF RegisterDevice
<1>4. CASE EST32ConnectOneNetLoop
  <2>1. (TyeNum + 1) % ByteMod \in 0 .. ByteMod - 1
    OBVIOUS
  <2>2. CASE OneNet_Connect
    <3>1. greeted' \in BOOLEAN /\ (link # "none" => greeted')
      BY <2>2 DEF OneNet_Connect
    <3>2. QED
      BY <1>4, <2>1, <2>2, <3>1
         DEF EST32ConnectOneNetLoop, OneNet_Connect, NoAnswer
  <2>3. CASE OneNet_SUBSCRIBE
    BY <1>4, <2>1, <2>3 DEF EST32ConnectOneNetLoop, OneNet_SUBSCRIBE, NoAnswer
  <2>4. CASE Subscribed
    BY <1>4, <2>4 DEF EST32ConnectOneNetLoop, Subscribed
  <2>5. QED
    BY <1>4, <2>2, <2>3, <2>4 DEF EST32ConnectOneNetLoop
<1>5. CASE Skip
  BY <1>5 DEF Skip
<1>6. CASE LoseLink
  <2>1. greeted' \in BOOLEAN /\ opened' \in BOOLEAN /\ good' \in BOOLEAN
    BY <1>6 DEF LoseLink
  <2>2. QED
    BY <1>6, <2>1 DEF LoseLink
<1>7. CASE LateLink
  BY <1>7 DEF LateLink
<1>8. CASE Weather
  BY <1>8 DEF Weather
<1>9. CASE UNCHANGED vars
  BY <1>9 DEF vars
<1>10. QED
  BY <1>1, <1>2, <1>3, <1>4, <1>5, <1>6, <1>7, <1>8, <1>9 DEF Next, GSM_thread_entry

\* The stations, steps and retry counters of GSM_thread_entry stay in range.
THEOREM SessionTypeCorrect == Spec => []TypeOK
BY SessionInit, SessionStep, PTL DEF Spec, IInv

\* Whatever fails on the way, AT_COMPonet_Station lets the AT parser read the
\* UART exactly while AT commands are out, and not while the thread itself reads
\* the servers' answers.
THEOREM SwitchCorrect == Spec => []ReaderSwitch
BY SessionInit, SessionStep, PTL DEF Spec, IInv

\* Registration never goes to the MQTT server, nor MQTT to the HTTP server, over
\* a connection the modem opened in answer to GSM_ConnectingLoop's AT+CIPSTART:
\* neither one left open before nor one that comes up late can take its place.
THEOREM ServerCorrect == Spec => []RightServer
BY SessionInit, SessionStep, PTL DEF Spec, IInv

\* OneNet_SUBSCRIBE never uses a connection on which OneNet_Connect sent nothing,
\* when the modem opened it in answer to GSM_ConnectingLoop's AT+CIPSTART.
THEOREM SubscribeAfterConnect == Spec => []ConnectBeforeSubscribe
BY SessionInit, SessionStep, PTL DEF Spec, IInv
=============================================================================
