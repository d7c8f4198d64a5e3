------------------------------- MODULE Sessions -------------------------------
(***************************************************************************)
(* The daemon's WhatsApp sessions: the devices stored in multi.db, the pool *)
(* of connected clients (whatsapp/manager.go), the QR authorization and the *)
(* logout (whatsapp/auth.go) as the HTTP handlers run them (api/server.go), *)
(* each request in a goroutine of its own, and what WhatsApp does to the    *)
(* linked devices. One action is one use of the mutex, one access to the    *)
(* device store or one thing a handler waits for.                           *)
(*                                                                          *)
(* m.clients only differs from m.clientsByPhone by the clients of Start     *)
(* that lost their place to a second device of the same phone: "extra".     *)
(***************************************************************************)
EXTENDS Naturals, FiniteSets

CONSTANTS
  Phone,        \* normalised phone numbers
  Device,       \* devices a container can hold
  Request,      \* slots for HTTP requests, one handler each
  Proxy,        \* proxies of the admin database
  NoPhone, NoDevice, NoProxy,
  MaxUnlinks,   \* bound: how often an owner removes a linked device
  MaxRestarts   \* bound: restarts of the daemon

ASSUME SessionsAssumption ==
  /\ NoPhone \notin Phone /\ NoDevice \notin Device /\ NoProxy \notin Proxy
  /\ MaxUnlinks \in Nat /\ MaxRestarts \in Nat

VARIABLES
  store,     \* multi.db: the phone each device belongs to
  unlinked,  \* devices WhatsApp no longer accepts, until their clients learn of it
  pool,      \* Manager.clientsByPhone
  extra,     \* <<phone, device>> of connected clients only in Manager.clients
  req,       \* the handlers
  account,   \* accounts of the admin database: status, proxy
  spent      \* how much of each bound is used up

daemonVars == <<store, unlinked, pool, extra, req, account, spent>>

NoClient == [device |-> NoDevice, up |-> FALSE]
NoRequest == [pc |-> "idle", phone |-> NoPhone, device |-> NoDevice, gone |-> FALSE,
              reply |-> "none"]
NoAccount == [status |-> "none", proxy |-> NoProxy]

SessionsInit ==
  /\ store = [d \in Device |-> NoPhone]
  /\ unlinked = {} /\ extra = {}
  /\ pool = [p \in Phone |-> NoClient]
  /\ req = [r \in Request |-> NoRequest]
  /\ account = [p \in Phone |-> NoAccount]
  /\ spent = [unlinks |-> 0, restarts |-> 0]

DevicesOf(p) == {d \in Device : store[d] = p}

(* A device nobody uses any more; scanning a code registers one of them.   *)
Fresh ==
  {d \in Device : /\ store[d] = NoPhone
                  /\ \A r \in Request : req[r].device # d
                  /\ \A p \in Phone : pool[p].device # d /\ <<p, d>> \notin extra}

------------------------------------------------------------------------------
(* HTTP: a request is called, answered, or its context ends.               *)

Live(r) == req[r].pc \notin {"idle", "done"}

Called(r, pc, p) == [req EXCEPT ![r] = [NoRequest EXCEPT !.pc = pc, !.phone = p]]

(* The handler returns; nobody reads the answer of a closed connection.    *)
Answer(r, reply) ==
  req' = [req EXCEPT ![r] = IF req[r].gone
                              THEN NoRequest
                              ELSE [NoRequest EXCEPT !.pc = "done", !.phone = req[r].phone,
                                                     !.reply = reply]]

(* Mutant: an answer that was not read yet survives the closing.           *)
HungUpAfterAnswer(r) ==
  [req EXCEPT ![r] = IF Live(r) THEN [@ EXCEPT !.gone = TRUE] ELSE @]

(* The other side closes the connection: the context of a running handler  *)
(* is cancelled, and whatever was answered is lost.                        *)
HungUp(r) ==
  [req EXCEPT ![r] = IF Live(r) THEN [@ EXCEPT !.gone = TRUE] ELSE NoRequest]

------------------------------------------------------------------------------
(* GET /auth/qr: AuthorizeByPhone.                                         *)

(* A stored device of this phone ends the authorization at once; a         *)
(* cancelled context fails the query.                                      *)
FindAuthorized(r) ==
  /\ req[r].pc = "check"
  /\ \/ Answer(r, "error")
     \/ ~req[r].gone /\ DevicesOf(req[r].phone) # {} /\ Answer(r, "already")
     \/ /\ ~req[r].gone /\ DevicesOf(req[r].phone) = {}
        /\ req' = [req EXCEPT ![r].pc = "qr"]
  /\ UNCHANGED <<store, unlinked, pool, extra, account, spent>>

(* The owner of phone q scans the code shown: WhatsApp links a new device  *)
(* and whatsmeow stores it (also in the moment the context is cancelled).  *)
Scan(r, q) ==
  /\ req[r].pc = "qr"
  /\ \E d \in Fresh :
       /\ store' = [store EXCEPT ![d] = q]
       /\ unlinked' = unlinked \ {d}
       /\ req' = [req EXCEPT ![r].pc = "scanned", ![r].device = d]
  /\ UNCHANGED <<pool, extra, account, spent>>

(* The codes run out, the connection fails or the context ends.            *)
GiveUpQr(r) ==
  /\ req[r].pc = "qr"
  /\ Answer(r, "error")
  /\ UNCHANGED <<store, unlinked, pool, extra, account, spent>>

(* client.Store.Delete(ctx): without effect once the context is cancelled. *)
DeleteOwnDevice(r) ==
  store' = IF req[r].gone THEN store ELSE [store EXCEPT ![req[r].device] = NoPhone]

ScannedByOwner(r) == store[req[r].device] = req[r].phone

(* Another phone than the requested one scanned: its device is deleted.    *)
CheckPhone(r) ==
  /\ req[r].pc = "scanned"
  /\ IF ScannedByOwner(r)
       THEN req' = [req EXCEPT ![r].pc = "confirm"] /\ UNCHANGED store
       ELSE DeleteOwnDevice(r) /\ Answer(r, "error")
  /\ UNCHANGED <<unlinked, pool, extra, account, spent>>

(* WhatsApp confirms the session, rejects it (then whatsmeow deletes the   *)
(* device itself), or the 45 seconds or the context end. In each case the  *)
(* authorizing client is disconnected.                                     *)
AwaitConfirmation(r) ==
  /\ req[r].pc = "confirm"
  /\ \/ /\ req[r].device \notin unlinked
        /\ req' = [req EXCEPT ![r].pc = "ensure", ![r].device = NoDevice]
        /\ UNCHANGED store
     \/ /\ req[r].device \in unlinked
        /\ store' = [store EXCEPT ![req[r].device] = NoPhone]
        /\ Answer(r, "error")
     \/ DeleteOwnDevice(r) /\ Answer(r, "error")
  /\ UNCHANGED <<unlinked, pool, extra, account, spent>>

------------------------------------------------------------------------------
(* GET /auth/qr: EnsureClientConnected.                                    *)

(* Any entry of the pool counts as a connected client.                     *)
LookUpClient(r) ==
  /\ req[r].pc = "ensure"
  /\ IF pool[req[r].phone] # NoClient
       THEN Answer(r, "success")
       ELSE req' = [req EXCEPT ![r].pc = "find"]
  /\ UNCHANGED <<store, unlinked, pool, extra, account, spent>>

FindDevice(r) ==
  /\ req[r].pc = "find"
  /\ \/ Answer(r, "error")
     \/ /\ ~req[r].gone
        /\ \E d \in DevicesOf(req[r].phone) :
             req' = [req EXCEPT ![r].pc = "connect", ![r].device = d]
  /\ UNCHANGED <<store, unlinked, pool, extra, account, spent>>

(* Under the mutex the old client of the phone is disconnected and a new   *)
(* one connected; if that fails, the old one keeps its entry.              *)
ConnectDevice(r) ==
  LET p == req[r].phone
  IN  /\ req[r].pc = "connect"
      /\ \/ /\ pool' = [pool EXCEPT ![p] = [device |-> req[r].device, up |-> TRUE]]
            /\ Answer(r, "success")
         \/ /\ pool' = [pool EXCEPT ![p].up = FALSE]
            /\ Answer(r, "error")
      /\ UNCHANGED <<store, unlinked, extra, account, spent>>

Authorize(r) ==
  \/ FindAuthorized(r)
  \/ \E q \in Phone : Scan(r, q)
  \/ GiveUpQr(r)
  \/ CheckPhone(r)
  \/ AwaitConfirmation(r)
  \/ LookUpClient(r)
  \/ FindDevice(r)
  \/ ConnectDevice(r)

------------------------------------------------------------------------------
(* POST /logout: RemoveSession takes the client out of the pool, then the  *)
(* first device of the phone out of the store.                             *)

RemoveClient(r) ==
  /\ req[r].pc = "remove"
  /\ pool' = [pool EXCEPT ![req[r].phone] = NoClient]
  /\ req' = [req EXCEPT ![r].pc = "erase"]
  /\ UNCHANGED <<store, unlinked, extra, account, spent>>

EraseDevice(r) ==
  /\ req[r].pc = "erase"
  /\ \/ \E d \in DevicesOf(req[r].phone) :
          store' = [store EXCEPT ![d] = NoPhone] /\ Answer(r, "removed")
     \/ /\ DevicesOf(req[r].phone) = {}
        /\ UNCHANGED store /\ Answer(r, "absent")
     \/ UNCHANGED store /\ Answer(r, "error")
  /\ UNCHANGED <<unlinked, pool, extra, account, spent>>

Logout(r) == RemoveClient(r) \/ EraseDevice(r)

------------------------------------------------------------------------------
(* WhatsApp and the process.                                               *)

(* The owner removes the device from the list on the phone.                *)
Unlink(d) ==
  /\ spent.unlinks < MaxUnlinks
  /\ d \notin Fresh \union unlinked
  /\ unlinked' = unlinked \union {d}
  /\ spent' = [spent EXCEPT !.unlinks = @ + 1]
  /\ UNCHANGED <<store, pool, extra, req, account>>

(* Mutant: the status word of the daemon's own table.                      *)
RuntimeStatusOfRevoked == "blocked"

StatusOfRevoked == "revoked"

(* SetAccountStatusByPhone: no row, no effect.                             *)
SetStatus(p, status) ==
  account' = [account EXCEPT ![p].status = IF @ = "none" THEN @ ELSE status]

(* A connected client learns of it: whatsmeow deletes the device and       *)
(* reports LoggedOut, which revokes the account. The pool is not touched.  *)
LoggedOut(p) ==
  /\ pool[p].up
  /\ pool[p].device \in unlinked
  /\ pool' = [pool EXCEPT ![p].up = FALSE]
  /\ store' = [store EXCEPT ![pool[p].device] = NoPhone]
  /\ SetStatus(p, StatusOfRevoked)
  /\ UNCHANGED <<unlinked, extra, req, spent>>

ExtraLoggedOut(p, d) ==
  /\ <<p, d>> \in extra
  /\ d \in unlinked
  /\ extra' = extra \ {<<p, d>>}
  /\ store' = [store EXCEPT ![d] = NoPhone]
  /\ SetStatus(p, StatusOfRevoked)
  /\ UNCHANGED <<unlinked, pool, req, spent>>

(* A client in the pool reports Connected: the account is active again.    *)
Connected(p) ==
  /\ pool[p].up
  /\ pool[p].device \notin unlinked
  /\ account[p].status = "revoked"
  /\ SetStatus(p, "active")
  /\ UNCHANGED <<store, unlinked, pool, extra, req, spent>>

(* The daemon starts anew: requests are cut, Start connects every device.  *)
(* Of two devices of a phone one gets the entry in the pool.               *)
Restart ==
  /\ spent.restarts < MaxRestarts
  /\ spent' = [spent EXCEPT !.restarts = @ + 1]
  /\ \E entry \in [Phone -> Device \union {NoDevice}] :
       /\ \A p \in Phone : entry[p] \in IF DevicesOf(p) = {} THEN {NoDevice} ELSE DevicesOf(p)
       /\ pool' = [p \in Phone |-> [device |-> entry[p], up |-> entry[p] # NoDevice]]
       /\ extra' = {e \in Phone \X Device : e[2] \in DevicesOf(e[1]) \ {entry[e[1]]}}
  /\ req' = [r \in Request |->
               IF Live(r) /\ ~req[r].gone
                 THEN [NoRequest EXCEPT !.pc = "done", !.phone = req[r].phone, !.reply = "cut"]
                 ELSE IF req[r].gone THEN NoRequest ELSE req[r]]
  /\ UNCHANGED <<store, unlinked, account>>

WhatsApp ==
  \/ \E d \in Device : Unlink(d)
  \/ \E p \in Phone : LoggedOut(p) \/ Connected(p) \/ \E d \in Device : ExtraLoggedOut(p, d)

------------------------------------------------------------------------------
SessionsTypeOK ==
  /\ store \in [Device -> Phone \union {NoPhone}]
  /\ unlinked \subseteq Device /\ extra \subseteq Phone \X Device
  /\ pool \in [Phone -> [device : Device \union {NoDevice}, up : BOOLEAN]]
  /\ req \in [Request ->
                [pc : {"idle", "check", "qr", "scanned", "confirm", "ensure", "find",
                       "connect", "remove", "erase", "done"},
                 phone : Phone \union {NoPhone}, device : Device \union {NoDevice},
                 gone : BOOLEAN,
                 reply : {"none", "success", "already", "error", "removed", "absent", "cut"}]]
  /\ account \in [Phone -> [status : {"none", "active", "revoked"},
                            proxy : Proxy \union {NoProxy}]]
  /\ spent \in [unlinks : 0..MaxUnlinks, restarts : 0..MaxRestarts]

==============================================================================
