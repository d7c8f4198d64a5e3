---------------------------- MODULE AuthFlowProofs ----------------------------
(***************************************************************************)
(* What AuthFlow promises about the stream all administrators share, for   *)
(* any administrators, phones, devices, proxies, cancellations, restarts:  *)
(*                                                                         *)
(*   AlwaysOwned          it is never busy for nobody;                     *)
(*   OneListenedTo        the daemon serves one authorization somebody     *)
(*                        listens to, its owner's;                         *)
(*   LateAnswersDropped   an answer that comes after the stream was closed *)
(*                        is not saved.                                    *)
(*                                                                         *)
(* and what alone breaks a promise:                                        *)
(*                                                                         *)
(*   OnlyPicksCollide     two accounts get one proxy only if two           *)
(*                        authorizations at work have picked it.           *)
(*                                                                         *)
(* The first three rest on Attended: a handler whose connection is open,   *)
(* also one whose answer waits to be read, is the stream owner's.          *)
(***************************************************************************)
EXTENDS AuthFlow, TLAPS

OpenPc == {"check", "qr", "scanned", "confirm", "ensure", "find", "connect", "remove", "erase"}

Handler ==
  [pc : {"idle", "check", "qr", "scanned", "confirm", "ensure", "find",
         "connect", "remove", "erase", "done"},
   phone : Phone \union {NoPhone}, device : Device \union {NoDevice}, gone : BOOLEAN,
   reply : {"none", "success", "already", "error", "removed", "absent", "cut"}]

AccountRow == [status : {"none", "active", "revoked"}, proxy : Proxy \union {NoProxy}]

Connection(r) == req[r].pc # "idle" /\ ~req[r].gone

(* Only a running handler can have lost its connection.                    *)
GoneIsLive == \A r \in Request : req[r].gone => Live(r)

Attended == \A a \in Admin : Connection(a) => session = a

StreamInv == TypeOK /\ GoneIsLive /\ Attended /\ BusyHasOwner

(* What a step of the daemon may do to the connections: it ends them or    *)
(* leaves them.                                                            *)
KeepsConnections ==
  /\ req' \in [Request -> Handler]
  /\ \A r \in Request :
       /\ req'[r].gone => Live(r)'
       /\ Connection(r)' => Connection(r)

USE AuthFlowAssumption, SessionsAssumption

------------------------------------------------------------------------------
(* The daemon.                                                             *)

(* An answer, or the next step of a running handler.                       *)
LEMMA AnswerStep ==
  ASSUME TypeOK, GoneIsLive, NEW r \in Request, Live(r),
         NEW reply \in {"success", "already", "error", "removed", "absent"}, Answer(r, reply)
  PROVE  KeepsConnections
<1>1. req \in [Request -> Handler]
  BY DEF TypeOK, SessionsTypeOK, Handler
<1> QED
  BY <1>1 DEF Answer, KeepsConnections, Handler, NoRequest, GoneIsLive, Live, Connection

LEMMA OnwardStep ==
  ASSUME TypeOK, GoneIsLive, NEW r \in Request, Live(r),
         NEW pc \in OpenPc, NEW d \in Device \union {NoDevice},
         req' = [req EXCEPT ![r].pc = pc, ![r].device = d]
  PROVE  KeepsConnections
<1>1. req \in [Request -> Handler]
  BY DEF TypeOK, SessionsTypeOK, Handler
<1> QED
  BY <1>1 DEF OpenPc, KeepsConnections, Handler, GoneIsLive, Live, Connection

(* Every step of an authorization or a logout.                             *)
LEMMA HandlerStep ==
  ASSUME TypeOK, GoneIsLive, NEW r \in Request, Authorize(r) \/ Logout(r)
  PROVE  KeepsConnections
<1>1. req \in [Request -> Handler]
  BY DEF TypeOK, SessionsTypeOK, Handler
<1>2. CASE FindAuthorized(r)
  <2>1. Live(r)
    BY <1>2 DEF FindAuthorized, Live
  <2>2. CASE Answer(r, "error") \/ Answer(r, "already")
    BY <2>1, <2>2, AnswerStep
  <2>3. CASE req' = [req EXCEPT ![r].pc = "qr"]
    BY <1>1, <2>1, <2>3 DEF KeepsConnections, Handler, GoneIsLive, Live, Connection
  <2> QED
    BY <1>2, <2>2, <2>3 DEF FindAuthorized
<1>3. CASE \E q \in Phone : Scan(r, q)
  <2>1. PICK d \in Device : req' = [req EXCEPT ![r].pc = "scanned", ![r].device = d]
    BY <1>3 DEF Scan, Fresh
  <2>2. Live(r)
    BY <1>3 DEF Scan, Live
  <2> QED
    BY <2>1, <2>2, OnwardStep DEF OpenPc
<1>4. CASE GiveUpQr(r)
  BY <1>4, AnswerStep DEF GiveUpQr, Live
<1>5. CASE CheckPhone(r)
  <2>1. Live(r)
    BY <1>5 DEF CheckPhone, Live
  <2>2. CASE Answer(r, "error")
    BY <2>1, <2>2, AnswerStep
  <2>3. CASE req' = [req EXCEPT ![r].pc = "confirm"]
    BY <1>1, <2>1, <2>3 DEF KeepsConnections, Handler, GoneIsLive, Live, Connection
  <2> QED
    BY <1>5, <2>2, <2>3 DEF CheckPhone
<1>6. CASE AwaitConfirmation(r)
  <2>1. Live(r)
    BY <1>6 DEF AwaitConfirmation, Live
  <2>2. CASE Answer(r, "error")
    BY <2>1, <2>2, AnswerStep
  <2>3. CASE req' = [req EXCEPT ![r].pc = "ensure", ![r].device = NoDevice]
    BY <2>1, <2>3, OnwardStep DEF OpenPc
  <2> QED
    BY <1>6, <2>2, <2>3 DEF AwaitConfirmation
<1>7. CASE LookUpClient(r)
  <2>1. Live(r)
    BY <1>7 DEF LookUpClient, Live
  <2>2. CASE Answer(r, "success")
    BY <2>1, <2>2, AnswerStep
  <2>3. CASE req' = [req EXCEPT ![r].pc = "find"]
    BY <1>1, <2>1, <2>3 DEF KeepsConnections, Handler, GoneIsLive, Live, Connection
  <2> QED
    BY <1>7, <2>2, <2>3 DEF LookUpClient
<1>8. CASE FindDevice(r)
  <2>1. Live(r)
    BY <1>8 DEF FindDevice, Live
  <2>2. CASE Answer(r, "error")
    BY <2>1, <2>2, AnswerStep
  <2>3. CASE \E d \in DevicesOf(req[r].phone) :
               req' = [req EXCEPT ![r].pc = "connect", ![r].device = d]
    BY <2>1, <2>3, OnwardStep DEF OpenPc, DevicesOf
  <2> QED
    BY <1>8, <2>2, <2>3 DEF FindDevice
<1>9. CASE ConnectDevice(r)
  <2>1. Live(r)
    BY <1>9 DEF ConnectDevice, Live
  <2>2. Answer(r, "success") \/ Answer(r, "error")
    BY <1>9 DEF ConnectDevice
  <2> QED
    BY <2>1, <2>2, AnswerStep
<1>10. CASE RemoveClient(r)
  <2>1. Live(r) /\ req' = [req EXCEPT ![r].pc = "erase"]
    BY <1>10 DEF RemoveClient, Live
  <2> QED
    BY <1>1, <2>1 DEF KeepsConnections, Handler, GoneIsLive, Live, Connection
<1>11. CASE EraseDevice(r)
  <2>1. Live(r)
    BY <1>11 DEF EraseDevice, Live
  <2>2. Answer(r, "removed") \/ Answer(r, "absent") \/ Answer(r, "error")
    BY <1>11 DEF EraseDevice
  <2> QED
    BY <2>1, <2>2, AnswerStep
<1> QED
  BY <1>2, <1>3, <1>4, <1>5, <1>6, <1>7, <1>8, <1>9, <1>10, <1>11 DEF Authorize, Logout

(* WhatsApp leaves the handlers alone; a restart ends those that run.      *)
LEMMA OutsideStep ==
  ASSUME TypeOK, GoneIsLive, WhatsApp \/ Restart
  PROVE  KeepsConnections
<1>1. req \in [Request -> Handler]
  BY DEF TypeOK, SessionsTypeOK, Handler
<1>2. CASE WhatsApp
  <2>1. req' = req
    BY <1>2 DEF WhatsApp, Unlink, LoggedOut, Connected, ExtraLoggedOut
  <2> QED
    BY <1>1, <2>1 DEF KeepsConnections, GoneIsLive, Live, Connection
<1>3. CASE Restart
  <2>1. req' = [r \in Request |->
               IF Live(r) /\ ~req[r].gone
                 THEN [NoRequest EXCEPT !.pc = "done", !.phone = req[r].phone, !.reply = "cut"]
                 ELSE IF req[r].gone THEN NoRequest ELSE req[r]]
    BY <1>3 DEF Restart
  <2> QED
    BY <1>1, <2>1 DEF KeepsConnections, Handler, NoRequest, GoneIsLive, Live, Connection
<1> QED
  BY <1>2, <1>3

------------------------------------------------------------------------------
(* Types of what the daemon's steps change besides the handlers.           *)

StoreType ==
  /\ store \in [Device -> Phone \union {NoPhone}]
  /\ unlinked \subseteq Device /\ extra \subseteq Phone \X Device
  /\ pool \in [Phone -> [device : Device \union {NoDevice}, up : BOOLEAN]]
  /\ account \in [Phone -> AccountRow]
  /\ spent \in [unlinks : 0..MaxUnlinks, restarts : 0..MaxRestarts]

LEMMA HandlerStoreType ==
  ASSUME TypeOK, NEW r \in Request, Authorize(r) \/ Logout(r)
  PROVE  StoreType'
<1>0. StoreType /\ req \in [Request -> Handler]
  BY DEF TypeOK, SessionsTypeOK, StoreType, AccountRow, Handler
<1>1. UNCHANGED <<extra, account, spent>>
  BY DEF Authorize, Logout, FindAuthorized, Scan, GiveUpQr, CheckPhone, AwaitConfirmation,
         LookUpClient, FindDevice, ConnectDevice, RemoveClient, EraseDevice
<1>2. unlinked' \subseteq Device
  BY <1>0 DEF Authorize, Logout, FindAuthorized, Scan, GiveUpQr, CheckPhone, AwaitConfirmation,
         LookUpClient, FindDevice, ConnectDevice, RemoveClient, EraseDevice, StoreType
<1>3. pool' \in [Phone -> [device : Device \union {NoDevice}, up : BOOLEAN]]
  <2>1. CASE ConnectDevice(r)
    <3> DEFINE p == req[r].phone
    <3>1. CASE pool' = [pool EXCEPT ![p] = [device |-> req[r].device, up |-> TRUE]]
      <4>1. req[r].device \in Device \union {NoDevice}
        BY <1>0 DEF Handler
      <4> QED
        BY <1>0, <3>1, <4>1 DEF StoreType
    <3>2. CASE pool' = [pool EXCEPT ![p].up = FALSE]
      BY <1>0, <3>2 DEF StoreType
    <3> QED
      BY <2>1, <3>1, <3>2 DEF ConnectDevice
  <2>2. CASE RemoveClient(r)
    BY <1>0, <2>2 DEF RemoveClient, NoClient, StoreType, Handler
  <2>3. CASE UNCHANGED pool
    BY <1>0, <2>3 DEF StoreType
  <2> QED
    BY <2>1, <2>2, <2>3 DEF Authorize, Logout, FindAuthorized, Scan, GiveUpQr, CheckPhone,
         AwaitConfirmation, LookUpClient, FindDevice, EraseDevice
<1>4. store' \in [Device -> Phone \union {NoPhone}]
  <2>1. CASE \E d \in Device, p \in Phone \union {NoPhone} : store' = [store EXCEPT ![d] = p]
    BY <1>0, <2>1 DEF StoreType
  <2>2. CASE \E p \in Phone \union {NoPhone} : store' = [store EXCEPT ![req[r].device] = p]
    BY <1>0, <2>2 DEF StoreType
  <2>3. CASE UNCHANGED store
    BY <1>0, <2>3 DEF StoreType
  <2> QED
    BY <2>1, <2>2, <2>3 DEF Authorize, Logout, FindAuthorized, Scan, GiveUpQr, CheckPhone,
         AwaitConfirmation, LookUpClient, FindDevice, ConnectDevice, RemoveClient, EraseDevice,
         DeleteOwnDevice, DevicesOf, Fresh
<1> QED
  BY <1>0, <1>1, <1>2, <1>3, <1>4 DEF StoreType

LEMMA OutsideStoreType ==
  ASSUME TypeOK, WhatsApp \/ Restart
  PROVE  StoreType'
<1>0. StoreType
  BY DEF TypeOK, SessionsTypeOK, StoreType, AccountRow
<1>1. ASSUME NEW p \in Phone, NEW status \in {"active", "revoked"}, SetStatus(p, status)
      PROVE  account' \in [Phone -> AccountRow]
  BY <1>0, <1>1 DEF SetStatus, StoreType, AccountRow
<1>2. ASSUME NEW d \in Device, Unlink(d) PROVE StoreType'
  BY <1>0, <1>2 DEF Unlink, StoreType
<1>3. ASSUME NEW p \in Phone, LoggedOut(p) PROVE StoreType'
  <2>1. account' \in [Phone -> AccountRow]
    BY <1>1, <1>3 DEF LoggedOut, StatusOfRevoked
  <2>2. pool' = [pool EXCEPT ![p].up = FALSE]
        /\ store' = [store EXCEPT ![pool[p].device] = NoPhone]
        /\ UNCHANGED <<unlinked, extra, spent>>
    BY <1>3 DEF LoggedOut
  <2> QED
    BY <1>0, <2>1, <2>2 DEF StoreType
<1>4. ASSUME NEW p \in Phone, Connected(p) PROVE StoreType'
  <2>1. account' \in [Phone -> AccountRow]
    BY <1>1, <1>4 DEF Connected
  <2> QED
    BY <1>0, <1>4, <2>1 DEF Connected, StoreType
<1>5. ASSUME NEW p \in Phone, NEW d \in Device, ExtraLoggedOut(p, d) PROVE StoreType'
  <2>1. account' \in [Phone -> AccountRow]
    BY <1>1, <1>5 DEF ExtraLoggedOut, StatusOfRevoked
  <2> QED
    BY <1>0, <1>5, <2>1 DEF ExtraLoggedOut, StoreType
<1>6. CASE Restart
  <2>1. PICK entry \in [Phone -> Device \union {NoDevice}] :
          /\ pool' = [p \in Phone |-> [device |-> entry[p], up |-> entry[p] # NoDevice]]
          /\ extra' = {e \in Phone \X Device : e[2] \in DevicesOf(e[1]) \ {entry[e[1]]}}
    BY <1>6 DEF Restart
  <2>2. pool' \in [Phone -> [device : Device \union {NoDevice}, up : BOOLEAN]]
    BY <2>1
  <2>3. extra' \subseteq Phone \X Device
    BY <2>1
  <2>4. UNCHANGED <<store, unlinked, account>>
        /\ spent.restarts < MaxRestarts /\ spent' = [spent EXCEPT !.restarts = @ + 1]
    BY <1>6 DEF Restart
  <2> QED
    BY <1>0, <2>2, <2>3, <2>4 DEF StoreType
<1> QED
  BY <1>2, <1>3, <1>4, <1>5, <1>6 DEF WhatsApp

------------------------------------------------------------------------------
(* The bot.                                                                *)

BotType ==
  /\ flow \in [Admin -> FlowState]
  /\ session \in Admin \union {NoAdmin}
  /\ cancelled \in BOOLEAN
  /\ removal \in Phone \union {NoPhone}

LEMMA Types == TypeOK <=> StoreType /\ BotType /\ req \in [Request -> Handler]
BY DEF TypeOK, SessionsTypeOK, StoreType, BotType, AccountRow, Handler

(* A step of the daemon keeps the invariant.                               *)
LEMMA DaemonKeeps ==
  ASSUME StreamInv, Daemon
  PROVE  StreamInv'
<1>1. UNCHANGED botVars
  BY DEF Daemon
<1>2. StoreType' /\ KeepsConnections
  BY HandlerStep, OutsideStep, HandlerStoreType, OutsideStoreType DEF Daemon, StreamInv
<1>3. TypeOK'
  <2>1. BotType'
    BY <1>1, Types DEF StreamInv, BotType, botVars
  <2>2. req' \in [Request -> Handler]
    BY <1>2 DEF KeepsConnections
  <2>3. TypeOK' <=> StoreType' /\ BotType' /\ req' \in [Request -> Handler]
    BY DEF TypeOK, SessionsTypeOK, StoreType, BotType, AccountRow, Handler
  <2> QED
    BY <1>2, <2>1, <2>2, <2>3
<1>4. GoneIsLive' /\ Attended'
  BY <1>1, <1>2 DEF StreamInv, KeepsConnections, GoneIsLive, Attended, botVars
<1>5. BusyHasOwner'
  BY <1>1 DEF StreamInv, BusyHasOwner, botVars
<1> QED
  BY <1>3, <1>4, <1>5 DEF StreamInv

(* _close ends the owner's connection, and nobody owns the stream then.    *)
LEMMA CloseEnds ==
  ASSUME StreamInv, CloseSession
  PROVE  /\ req' \in [Request -> Handler]
         /\ GoneIsLive'
         /\ \A a \in Admin : ~Connection(a)'
         /\ session' = NoAdmin
<1>1. req \in [Request -> Handler] /\ session \in Admin \union {NoAdmin} /\ Admin \subseteq Request
  BY Types DEF StreamInv, BotType
<1>2. CASE session = NoAdmin
  BY <1>1, <1>2 DEF CloseSession, StreamInv, GoneIsLive, Attended, Live, Connection
<1>3. ASSUME NEW o \in Admin, session = o
      PROVE  /\ req' \in [Request -> Handler]
             /\ GoneIsLive'
             /\ \A a \in Admin : ~Connection(a)'
             /\ session' = NoAdmin
  <2>1. req' = [req EXCEPT ![o] =
                  IF Live(o) THEN [@ EXCEPT !.gone = TRUE] ELSE NoRequest]
    BY <1>3 DEF CloseSession, HungUp
  <2>2. \A r \in Request : r # o => req'[r] = req[r]
    BY <1>1, <2>1
  <2>3. /\ req'[o] \in Handler
        /\ req'[o].gone => Live(o)'
        /\ ~Connection(o)'
    <3>1. o \in Request /\ req[o] \in Handler
      BY <1>1, <1>3
    <3>2. CASE Live(o)
      <4>1. req'[o] = [req[o] EXCEPT !.gone = TRUE]
        BY <1>1, <2>1, <3>1, <3>2
      <4> QED
        BY <3>1, <3>2, <4>1 DEF Handler, Live, Connection
    <3>3. CASE ~Live(o)
      <4>1. req'[o] = NoRequest
        BY <1>1, <2>1, <3>1, <3>3
      <4> QED
        BY <4>1 DEF Handler, Connection, NoRequest
    <3> QED
      BY <3>2, <3>3
  <2>4. req' \in [Request -> Handler]
    BY <1>1, <2>1, <2>2, <2>3
  <2>5. GoneIsLive'
    BY <2>2, <2>3 DEF StreamInv, GoneIsLive, Live
  <2>6. \A a \in Admin : ~Connection(a)'
    BY <1>1, <1>3, <2>2, <2>3 DEF StreamInv, Attended, Connection
  <2> QED
    BY <2>4, <2>5, <2>6 DEF CloseSession
<1> QED
  BY <1>1, <1>2, <1>3

(* A step of an admin's dialogue or run keeps the invariant.               *)
LEMMA AdminKeeps ==
  ASSUME StreamInv, NEW a \in Admin, Dialogue(a) \/ Run(a)
  PROVE  StreamInv'
<1>0. StoreType /\ BotType /\ req \in [Request -> Handler] /\ Admin \subseteq Request
  BY Types DEF StreamInv
<1>1. UNCHANGED <<store, unlinked, pool, extra, spent, removal>>
  BY DEF Dialogue, Run, EnterPhone, PickProxy, Cancel, StartStream, ReadEvent, StreamBreaks,
         FindAccount, WriteAccount, Leave, OthersUnchanged
<1>2. account' \in [Phone -> AccountRow]
  <2>1. CASE WriteAccount(a)
    <3>1. flow[a].proxy \in Proxy \union {NoProxy}
      BY <1>0 DEF BotType, FlowState
    <3>2. account' = account
          \/ account' = [account EXCEPT ![flow[a].phone] = [status |-> "active", proxy |-> flow[a].proxy]]
      BY <2>1 DEF WriteAccount
    <3> QED
      BY <1>0, <3>1, <3>2 DEF StoreType, AccountRow
  <2>2. CASE UNCHANGED account
    BY <1>0, <2>2 DEF StoreType
  <2> QED
    BY <2>1, <2>2 DEF Dialogue, Run, EnterPhone, PickProxy, Cancel, StartStream, ReadEvent,
         StreamBreaks, FindAccount, Leave
<1>3. StoreType'
  BY <1>0, <1>1, <1>2 DEF StoreType
<1>4. ASSUME flow' \in [Admin -> FlowState], session' \in Admin \union {NoAdmin},
             cancelled' \in BOOLEAN, req' \in [Request -> Handler]
      PROVE  TypeOK'
  <2>1. TypeOK' <=> StoreType' /\ BotType' /\ req' \in [Request -> Handler]
    BY DEF TypeOK, SessionsTypeOK, StoreType, BotType, AccountRow, Handler
  <2> QED
    BY <1>0, <1>1, <1>3, <1>4, <2>1 DEF BotType
<1>5. ASSUME NEW q \in FlowState, flow' = [flow EXCEPT ![a] = q],
             session = a => q.pc \in {"stream", "save", "add", "reactivate", "leave"},
             UNCHANGED <<req, session, cancelled>>
      PROVE  StreamInv'
  <2>1. TypeOK'
    BY <1>0, <1>4, <1>5 DEF BotType
  <2>2. GoneIsLive' /\ Attended'
    BY <1>5 DEF StreamInv, GoneIsLive, Attended, Live, Connection
  <2>3. BusyHasOwner'
    BY <1>0, <1>5 DEF StreamInv, BusyHasOwner, BotType
  <2> QED
    BY <2>1, <2>2, <2>3 DEF StreamInv
<1>6. ASSUME NEW pc \in {"stream", "save", "add", "reactivate", "leave"}, GoTo(a, pc),
             UNCHANGED <<req, session, cancelled>>
      PROVE  StreamInv'
  <2>1. [flow[a] EXCEPT !.pc = pc] \in FlowState
    BY <1>0 DEF BotType, FlowState
  <2>2. [flow[a] EXCEPT !.pc = pc].pc = pc
    BY <1>0 DEF BotType, FlowState
  <2>3. flow' = [flow EXCEPT ![a] = [flow[a] EXCEPT !.pc = pc]]
    BY <1>6 DEF GoTo
  <2> QED
    BY <1>5, <1>6, <2>1, <2>2, <2>3
<1>7. NoFlow \in FlowState
  BY DEF NoFlow, FlowState
<1>8. CASE \E p \in Number : EnterPhone(a, p)
  <2>1. PICK p \in Number : EnterPhone(a, p)
    BY <1>8
  <2> DEFINE q == [NoFlow EXCEPT !.pc = "choose", !.phone = p]
  <2>2. q \in FlowState
    BY DEF NoFlow, FlowState
  <2>3. session # a
    BY <2>1 DEF EnterPhone, StreamInv, BusyHasOwner
  <2> QED
    BY <1>5, <2>1, <2>2, <2>3 DEF EnterPhone
<1>9. CASE \E x \in Proxy \union {NoProxy} : PickProxy(a, x)
  <2>1. PICK x \in Proxy \union {NoProxy} : PickProxy(a, x)
    BY <1>9
  <2> DEFINE q == [flow[a] EXCEPT !.pc = "start", !.proxy = x]
  <2>2. q \in FlowState
    <3>1. flow[a] \in FlowState
      BY <1>0 DEF BotType
    <3> QED
      BY <3>1 DEF FlowState
  <2>3. flow' = [flow EXCEPT ![a] = q]
    BY <2>1 DEF PickProxy
  <2>4. session # a
    BY <2>1 DEF PickProxy, StreamInv, BusyHasOwner
  <2> QED
    BY <1>5, <2>1, <2>2, <2>3, <2>4 DEF PickProxy
<1>10. CASE StartStream(a)
  <2>1. flow[a].pc = "start"
    BY <1>10 DEF StartStream
  <2>2. CASE Busy /\ flow' = [flow EXCEPT ![a] = NoFlow] /\ UNCHANGED <<req, session, cancelled>>
    <3>1. session # a
      BY <2>1 DEF StreamInv, BusyHasOwner
    <3> QED
      BY <1>5, <1>7, <2>2, <3>1
  <2>3. CASE /\ ~Busy /\ session' = a /\ cancelled' = FALSE
             /\ req' = Called(a, "check", flow[a].phone)
             /\ GoTo(a, "stream")
    <3>1. flow' \in [Admin -> FlowState] /\ flow'[a].pc = "stream"
      BY <1>0, <2>3 DEF GoTo, BotType, FlowState
    <3>2. flow[a].phone \in Phone \union {NoPhone}
      BY <1>0 DEF BotType, FlowState
    <3>3. /\ req' \in [Request -> Handler]
          /\ \A r \in Request : r # a => req'[r] = req[r]
          /\ ~req'[a].gone
      BY <1>0, <2>3, <3>2 DEF Called, NoRequest, Handler
    <3>4. TypeOK'
      BY <1>4, <2>3, <3>1, <3>3
    <3>5. GoneIsLive'
      BY <3>3 DEF StreamInv, GoneIsLive, Live
    <3>6. Attended'
      BY <1>0, <2>3, <3>3 DEF StreamInv, Attended, Connection, Busy
    <3>7. BusyHasOwner'
      BY <2>3, <3>1 DEF BusyHasOwner
    <3> QED
      BY <3>4, <3>5, <3>6, <3>7 DEF StreamInv
  <2> QED
    BY <1>10, <2>2, <2>3 DEF StartStream
<1>11. CASE ReadEvent(a)
  BY <1>6, <1>11 DEF ReadEvent
<1>12. CASE StreamBreaks(a)
  BY <1>6, <1>12 DEF StreamBreaks
<1>13. CASE FindAccount(a)
  BY <1>6, <1>13 DEF FindAccount
<1>14. CASE WriteAccount(a)
  BY <1>6, <1>14 DEF WriteAccount
<1>15. ASSUME CloseSession, flow' \in [Admin -> FlowState], cancelled' \in BOOLEAN
       PROVE  StreamInv'
  <2>1. /\ req' \in [Request -> Handler] /\ GoneIsLive' /\ session' = NoAdmin
        /\ \A b \in Admin : ~Connection(b)'
    BY <1>15, CloseEnds
  <2>2. TypeOK' /\ Attended' /\ BusyHasOwner'
    BY <1>4, <1>15, <2>1 DEF Attended, BusyHasOwner
  <2> QED
    BY <2>1, <2>2 DEF StreamInv
<1>16. CASE Leave(a)
  BY <1>0, <1>7, <1>15, <1>16 DEF Leave, BotType
<1>17. CASE Cancel(a)
  BY <1>0, <1>7, <1>15, <1>17 DEF Cancel, BotType
<1> QED
  BY <1>8, <1>9, <1>10, <1>11, <1>12, <1>13, <1>14, <1>16, <1>17 DEF Dialogue, Run

(* So does the deletion of an account, which has a handler of its own.     *)
LEMMA DeletionKeeps ==
  ASSUME StreamInv, (\E p \in Number : StartDelete(p)) \/ FinishDelete
  PROVE  StreamInv'
<1>0. StoreType /\ BotType /\ req \in [Request -> Handler] /\ Remover \in Request
  BY Types DEF StreamInv
<1>1. UNCHANGED <<store, unlinked, pool, extra, spent, flow, session, cancelled>>
  BY DEF StartDelete, FinishDelete, OthersUnchanged
<1>2. /\ account' \in [Phone -> AccountRow]
      /\ removal' \in Phone \union {NoPhone}
      /\ req' \in [Request -> Handler]
      /\ ~req'[Remover].gone
      /\ \A r \in Request : r # Remover => req'[r] = req[r]
  <2>1. CASE \E p \in Number : StartDelete(p)
    <3>1. PICK p \in Number : StartDelete(p)
      BY <2>1
    <3> DEFINE called == [NoRequest EXCEPT !.pc = "remove", !.phone = p]
    <3>2. p \in Phone /\ req' = [req EXCEPT ![Remover] = called] /\ removal' = p
          /\ account' = account
      BY <3>1 DEF StartDelete, Called
    <3>3. called \in Handler /\ ~called.gone
      BY <3>2 DEF NoRequest, Handler
    <3> QED
      BY <1>0, <3>2, <3>3 DEF StoreType
  <2>2. CASE FinishDelete
    BY <1>0, <2>2 DEF FinishDelete, NoRequest, NoAccount, Handler, AccountRow, StoreType
  <2> QED
    BY <2>1, <2>2
<1>3. TypeOK'
  <2>1. TypeOK' <=> StoreType' /\ BotType' /\ req' \in [Request -> Handler]
    BY DEF TypeOK, SessionsTypeOK, StoreType, BotType, AccountRow, Handler
  <2> QED
    BY <1>0, <1>1, <1>2, <2>1 DEF StoreType, BotType
<1>4. GoneIsLive'
  BY <1>2 DEF StreamInv, GoneIsLive, Live
<1>5. Attended' /\ BusyHasOwner'
  BY <1>1, <1>2 DEF StreamInv, Attended, BusyHasOwner, Connection
<1> QED
  BY <1>3, <1>4, <1>5 DEF StreamInv

------------------------------------------------------------------------------
LEMMA StreamInvariant == Spec => []StreamInv
<1>1. Init => StreamInv
  <2> SUFFICES ASSUME Init PROVE StreamInv
    OBVIOUS
  <2>1. StoreType
    BY DEF Init, SessionsInit, StoreType, NoClient, NoAccount, AccountRow
  <2>2. BotType /\ req \in [Request -> Handler]
    BY DEF Init, SessionsInit, BotType, NoFlow, FlowState, NoRequest, Handler
  <2>3. GoneIsLive /\ Attended /\ BusyHasOwner
    BY DEF Init, SessionsInit, GoneIsLive, Attended, BusyHasOwner, Connection, NoRequest
  <2> QED
    BY <2>1, <2>2, <2>3, Types DEF StreamInv
<1>2. StreamInv /\ [Next]_vars => StreamInv'
  <2> SUFFICES ASSUME StreamInv, [Next]_vars PROVE StreamInv'
    OBVIOUS
  <2>1. CASE Next
    BY <2>1, DaemonKeeps, AdminKeeps, DeletionKeeps DEF Next
  <2>2. CASE UNCHANGED vars
    BY <2>2 DEF vars, daemonVars, botVars, StreamInv, TypeOK, SessionsTypeOK, GoneIsLive,
                Attended, BusyHasOwner, Connection, Live
  <2> QED
    BY <2>1, <2>2
<1> QED
  BY <1>1, <1>2, PTL DEF Spec

(* Every variable of the bot and the daemon keeps its type.                *)
THEOREM TypeCorrect == Spec => []TypeOK
<1>1. StreamInv => TypeOK
  BY DEF StreamInv
<1> QED
  BY <1>1, StreamInvariant, PTL

(* WhatsAppAuth is never busy for nobody, whatever was cancelled, closed   *)
(* by another run or cut by a restart.                                     *)
THEOREM AlwaysOwned == Spec => []BusyHasOwner
<1>1. StreamInv => BusyHasOwner
  BY DEF StreamInv
<1> QED
  BY <1>1, StreamInvariant, PTL

(* Whoever the daemon still serves with an open connection owns the        *)
(* shared stream.                                                          *)
THEOREM OneListenedTo == Spec => []OneStream
<1>1. StreamInv => OneStream
  BY DEF StreamInv, Attended, OneStream, Connection, Live
<1> QED
  BY <1>1, StreamInvariant, PTL

(* An answer is only saved while its stream is open: neither after a       *)
(* cancellation nor after another run closed it.                           *)
THEOREM LateAnswersDropped == Spec => OnlyOwnerSaves
<1>1. ASSUME StreamInv, [Next]_vars, NEW a \in Admin,
             flow[a].pc = "stream", flow'[a].pc = "save"
      PROVE  session = a
  <2>0. flow \in [Admin -> FlowState] /\ a \in Request
    BY <1>1, Types DEF StreamInv, BotType
  <2>1. CASE \E b \in Admin : ReadEvent(b)
    <3>1. PICK b \in Admin : ReadEvent(b)
      BY <2>1
    <3>2. b = a
      BY <1>1, <2>0, <3>1 DEF ReadEvent, GoTo
    <3>3. req[a].pc = "done"
      BY <3>1, <3>2 DEF ReadEvent
    <3> QED
      BY <1>1, <2>0, <3>3 DEF StreamInv, Attended, GoneIsLive, Live, Connection
  <2>2. CASE \E b \in Admin : StartStream(b) \/ StreamBreaks(b) \/ FindAccount(b)
                              \/ WriteAccount(b) \/ Leave(b)
    <3>1. PICK b \in Admin : StartStream(b) \/ StreamBreaks(b) \/ FindAccount(b)
                              \/ WriteAccount(b) \/ Leave(b)
      BY <2>2
    <3>2. flow' = [flow EXCEPT ![b] = NoFlow]
          \/ \E pc \in {"stream", "leave", "add", "reactivate"} : GoTo(b, pc)
      BY <3>1 DEF StartStream, StreamBreaks, FindAccount, WriteAccount, Leave
    <3>3. flow'[a] = flow[a] \/ flow'[a].pc # "save"
      BY <2>0, <3>2 DEF GoTo, NoFlow, FlowState
    <3> QED
      BY <1>1, <3>3
  <2>3. CASE \E b \in Admin : Dialogue(b)
    BY <1>1, <2>0, <2>3 DEF Dialogue, EnterPhone, PickProxy, Cancel, NoFlow
  <2>4. CASE UNCHANGED flow
    BY <1>1, <2>4
  <2> QED
    BY <1>1, <2>1, <2>2, <2>3, <2>4
       DEF Next, Run, Daemon, StartDelete, FinishDelete, botVars, vars
<1>2. StreamInv /\ [Next]_vars =>
        [\A a \in Admin : flow[a].pc = "stream" /\ flow'[a].pc = "save" => session = a]_vars
  BY <1>1
<1> QED
  BY <1>2, StreamInvariant, PTL DEF Spec, OnlyOwnerSaves

------------------------------------------------------------------------------
(* One proxy per account. The code looks once, when a proxy is picked, and *)
(* OneProxyPerAccount is not kept. The only way to break it is that two    *)
(* authorizations have picked one proxy at the same time.                  *)

ProxiesApart ==
  \A a, b \in Admin :
    a # b /\ flow[a].proxy # NoProxy => flow[a].proxy # flow[b].proxy

(* The proxy of an authorization that may still be saved is nobody's.      *)
Reserved ==
  \A a \in Admin :
    flow[a].pc # "leave" /\ flow[a].proxy # NoProxy => FreeProxy(flow[a].proxy)

ProxyInv == Reserved /\ OneProxyPerAccount

(* Whatever gives no phone a proxy.                                        *)
LEMMA NoProxyGiven ==
  ASSUME ProxyInv, \A p \in Phone : account'[p].proxy \in {account[p].proxy, NoProxy},
         flow \in [Admin -> FlowState], flow' \in [Admin -> FlowState],
         \A a \in Admin : \/ flow'[a].proxy = NoProxy
                          \/ flow'[a].pc = "leave"
                          \/ flow'[a].proxy = flow[a].proxy /\ flow[a].pc # "leave"
                          \/ flow'[a] = flow[a]
  PROVE  ProxyInv'
<1>1. OneProxyPerAccount'
  BY DEF ProxyInv, OneProxyPerAccount
<1>2. ASSUME NEW a \in Admin, flow'[a].pc # "leave", flow'[a].proxy # NoProxy
      PROVE  \A q \in Phone : account'[q].proxy # flow'[a].proxy
  BY <1>2 DEF ProxyInv, Reserved, FreeProxy
<1> QED
  BY <1>1, <1>2 DEF ProxyInv, Reserved, FreeProxy

(* The save takes the proxy that was held.                                 *)
LEMMA ProxyIsTaken ==
  ASSUME ProxyInv, ProxiesApart, StreamInv, NEW a \in Admin, WriteAccount(a)
  PROVE  ProxyInv'
<1>1. /\ flow \in [Admin -> FlowState] /\ account \in [Phone -> AccountRow]
      /\ flow' = [flow EXCEPT ![a].pc = "leave"] /\ flow[a].pc # "leave"
  BY Types DEF StreamInv, BotType, StoreType, WriteAccount, GoTo
<1>2. \A b \in Admin : /\ flow'[b].proxy = flow[b].proxy
                       /\ b # a => flow'[b] = flow[b]
                       /\ b = a => flow'[b].pc = "leave"
  BY <1>1 DEF FlowState
<1>. DEFINE x == flow[a].proxy
            p == flow[a].phone
<1>3. \A q \in Phone : /\ q # p => account'[q] = account[q]
                       /\ account'[q] = account[q] \/ account'[q].proxy = x
  BY <1>1 DEF WriteAccount, AccountRow
<1>4. x # NoProxy => \A q \in Phone : account[q].proxy # x
  BY <1>1 DEF ProxyInv, Reserved, FreeProxy
<1>5. OneProxyPerAccount'
  BY <1>3, <1>4 DEF ProxyInv, OneProxyPerAccount
<1>6. ASSUME NEW b \in Admin, flow'[b].pc # "leave", flow'[b].proxy # NoProxy
      PROVE  \A q \in Phone : account'[q].proxy # flow'[b].proxy
  <2>1. b # a /\ flow'[b] = flow[b] /\ FreeProxy(flow[b].proxy)
    BY <1>2, <1>6 DEF ProxyInv, Reserved
  <2>2. flow[b].proxy # x
    BY <1>6, <2>1 DEF ProxiesApart
  <2> QED
    BY <1>3, <2>1, <2>2 DEF FreeProxy
<1> QED
  BY <1>5, <1>6 DEF ProxyInv, Reserved, FreeProxy

LEMMA ProxyStep == ProxyInv /\ ProxiesApart /\ StreamInv /\ StreamInv' /\ [Next]_vars => ProxyInv'
<1> SUFFICES ASSUME ProxyInv, ProxiesApart, StreamInv, StreamInv', [Next]_vars
             PROVE  ProxyInv'
  OBVIOUS
<1>0. /\ flow \in [Admin -> FlowState] /\ flow' \in [Admin -> FlowState]
      /\ account \in [Phone -> AccountRow]
  BY Types DEF StreamInv, BotType, StoreType, TypeOK
<1>1. CASE \E a \in Admin : WriteAccount(a)
  BY <1>1, ProxyIsTaken
<1>2. CASE \E a \in Admin : \E x \in Proxy \union {NoProxy} : PickProxy(a, x)
  <2>1. PICK a \in Admin, x \in Proxy \union {NoProxy} : PickProxy(a, x)
    BY <1>2
  <2>2. /\ UNCHANGED account
        /\ x # NoProxy => FreeProxy(x)
        /\ flow'[a].proxy = x /\ \A b \in Admin \ {a} : flow'[b] = flow[b]
    BY <1>0, <2>1 DEF PickProxy, FlowState
  <2>3. ASSUME NEW b \in Admin, flow'[b].pc # "leave", flow'[b].proxy # NoProxy
        PROVE  \A q \in Phone : account'[q].proxy # flow'[b].proxy
    <3>1. CASE b = a
      BY <2>2, <2>3, <3>1 DEF FreeProxy
    <3>2. CASE b # a
      BY <2>2, <2>3, <3>2 DEF ProxyInv, Reserved, FreeProxy
    <3> QED
      BY <3>1, <3>2
  <2>4. OneProxyPerAccount'
    BY <2>1 DEF PickProxy, ProxyInv, OneProxyPerAccount
  <2> QED
    BY <2>3, <2>4 DEF ProxyInv, Reserved, FreeProxy
<1>3. CASE \E a \in Admin : \/ \E p \in Number : EnterPhone(a, p)
                            \/ Cancel(a) \/ StartStream(a) \/ ReadEvent(a)
                            \/ StreamBreaks(a) \/ FindAccount(a) \/ Leave(a)
  <2>1. PICK a \in Admin : \/ \E p \in Number : EnterPhone(a, p)
                           \/ Cancel(a) \/ StartStream(a) \/ ReadEvent(a)
                           \/ StreamBreaks(a) \/ FindAccount(a) \/ Leave(a)
    BY <1>3
  <2>2. UNCHANGED account
    BY <2>1 DEF EnterPhone, Cancel, StartStream, ReadEvent, StreamBreaks, FindAccount, Leave
  <2>3. \A b \in Admin : \/ flow'[b].proxy = NoProxy
                         \/ flow'[b].pc = "leave"
                         \/ flow'[b].proxy = flow[b].proxy /\ flow[b].pc # "leave"
                         \/ flow'[b] = flow[b]
    <3>1. CASE \E p \in Number : EnterPhone(a, p)
      BY <1>0, <3>1 DEF EnterPhone, NoFlow, FlowState
    <3>2. CASE Cancel(a) \/ Leave(a)
      BY <1>0, <3>2 DEF Cancel, Leave, NoFlow, FlowState
    <3>3. CASE StartStream(a)
      BY <1>0, <3>3 DEF StartStream, GoTo, NoFlow, FlowState
    <3>4. CASE ReadEvent(a) \/ StreamBreaks(a) \/ FindAccount(a)
      BY <1>0, <3>4 DEF ReadEvent, StreamBreaks, FindAccount, GoTo, FlowState
    <3> QED
      BY <2>1, <3>1, <3>2, <3>3, <3>4
  <2> QED
    BY <1>0, <2>2, <2>3, NoProxyGiven
<1>4. CASE (\E p \in Number : StartDelete(p)) \/ FinishDelete \/ Daemon \/ UNCHANGED vars
  <2>1. flow' = flow
    BY <1>4 DEF StartDelete, FinishDelete, Daemon, botVars, vars
  <2>2. \A p \in Phone : account'[p].proxy \in {account[p].proxy, NoProxy}
    <3>1. CASE (\E p \in Number : StartDelete(p)) \/ UNCHANGED vars
      BY <3>1 DEF StartDelete, vars, daemonVars
    <3>2. CASE FinishDelete
      BY <1>0, <3>2 DEF FinishDelete, NoAccount, AccountRow
    <3>3. CASE Daemon
      <4>1. CASE UNCHANGED account
        BY <4>1
      <4>2. CASE \E p \in Phone, s \in {"revoked", "active"} : SetStatus(p, s)
        BY <1>0, <4>2 DEF SetStatus, AccountRow
      <4>3. UNCHANGED account \/ \E p \in Phone, s \in {"revoked", "active"} : SetStatus(p, s)
        BY <3>3 DEF Daemon, Authorize, Logout, WhatsApp, Restart, FindAuthorized, Scan, GiveUpQr,
           CheckPhone, AwaitConfirmation, LookUpClient, FindDevice, ConnectDevice, RemoveClient,
           EraseDevice, Unlink, LoggedOut, ExtraLoggedOut, Connected, StatusOfRevoked
      <4> QED
        BY <4>1, <4>2, <4>3
    <3> QED
      BY <1>4, <3>1, <3>2, <3>3
  <2> QED
    BY <1>0, <2>1, <2>2, NoProxyGiven
<1> QED
  BY <1>1, <1>2, <1>3, <1>4 DEF Next, Dialogue, Run

(* While no two authorizations at work have picked one proxy, no two       *)
(* accounts get one: with one authorization at a time, for example.        *)
THEOREM OnlyPicksCollide == Spec /\ []ProxiesApart => []OneProxyPerAccount
<1>1. Init => ProxyInv
  <2> SUFFICES ASSUME Init PROVE ProxyInv
    OBVIOUS
  <2> QED
    BY DEF Init, SessionsInit, NoFlow, NoAccount, ProxyInv, Reserved, OneProxyPerAccount
<1>2. ProxyInv => OneProxyPerAccount
  BY DEF ProxyInv
<1> QED
  BY <1>1, <1>2, ProxyStep, StreamInvariant, PTL DEF Spec

==============================================================================
