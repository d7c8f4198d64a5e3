------------------------------- MODULE AuthFlow -------------------------------
(***************************************************************************)
(* The bot's side of the sessions, composed with the daemon's: admins      *)
(* authorize accounts through the one WhatsAppAuth object they share       *)
(* (utils/wa_auth.py, app/handlers/accounts_auth.py), cancel, and delete   *)
(* accounts (utils/session_repo.py). aiogram runs every update in a task   *)
(* of its own; an action goes from one await to the next that waits for    *)
(* the network or the database.                                            *)
(***************************************************************************)
EXTENDS Sessions

CONSTANTS
  Admin,      \* administrators, each with at most one authorization at a time
  Number,     \* phones the admins enter; others may scan a code all the same
  Remover,    \* the task that deletes an account
  NoAdmin

ASSUME AuthFlowAssumption ==
  /\ Number \subseteq Phone
  /\ Request = Admin \union {Remover}
  /\ Remover \notin Admin
  /\ NoAdmin \notin Admin

VARIABLES
  flow,        \* per admin: the dialogue and its run of _run_account_auth
  session,     \* WhatsAppAuth._session: whose stream it is
  cancelled,   \* WhatsAppAuth._cancelled
  removal      \* the phone whose session is being deleted

botVars == <<flow, session, cancelled, removal>>
vars == <<daemonVars, botVars>>

NoFlow == [pc |-> "idle", phone |-> NoPhone, proxy |-> NoProxy]

Init ==
  /\ SessionsInit
  /\ flow = [a \in Admin |-> NoFlow]
  /\ session = NoAdmin
  /\ cancelled = FALSE
  /\ removal = NoPhone

GoTo(a, pc) == flow' = [flow EXCEPT ![a].pc = pc]

OthersUnchanged == UNCHANGED <<store, unlinked, pool, extra, spent>>

------------------------------------------------------------------------------
(* The dialogue.                                                           *)

(* handle_phone: an account that is not active is taken on.                *)
EnterPhone(a, p) ==
  /\ flow[a].pc = "idle"
  /\ account[p].status # "active"
  /\ flow' = [flow EXCEPT ![a] = [NoFlow EXCEPT !.pc = "choose", !.phone = p]]
  /\ OthersUnchanged /\ UNCHANGED <<req, account, session, cancelled, removal>>

FreeProxy(x) == \A p \in Phone : account[p].proxy # x

(* cb_pick_account_proxy: without a proxy, or with one that no account has.*)
PickProxy(a, x) ==
  /\ flow[a].pc = "choose"
  /\ x # NoProxy => FreeProxy(x)
  /\ flow' = [flow EXCEPT ![a].pc = "start", ![a].proxy = x]
  /\ OthersUnchanged /\ UNCHANGED <<req, account, session, cancelled, removal>>

------------------------------------------------------------------------------
(* The shared stream.                                                      *)

(* Mutant: a second stream is not refused.                                 *)
NeverBusy == FALSE

Busy == session # NoAdmin

(* _close: the response and the session of whoever streams at the moment.  *)
CloseSession ==
  /\ session' = NoAdmin
  /\ req' = IF session = NoAdmin THEN req ELSE HungUp(session)

(* After callback.answer, message.delete and message.answer: busy ends the *)
(* run with an error, otherwise the request is sent.                       *)
StartStream(a) ==
  /\ flow[a].pc = "start"
  /\ \/ /\ Busy
        /\ flow' = [flow EXCEPT ![a] = NoFlow]
        /\ UNCHANGED <<req, session, cancelled>>
     \/ /\ ~Busy
        /\ req[a] = NoRequest
        /\ session' = a
        /\ cancelled' = FALSE
        /\ req' = Called(a, "check", flow[a].phone)
        /\ GoTo(a, "stream")
  /\ OthersUnchanged /\ UNCHANGED <<account, removal>>

(* The answer arrives: success and already_authorized are saved, an error  *)
(* ends the run.                                                           *)
ReadEvent(a) ==
  /\ flow[a].pc = "stream"
  /\ req[a].pc = "done"
  /\ GoTo(a, IF req[a].reply \in {"success", "already"} THEN "save" ELSE "leave")
  /\ OthersUnchanged /\ UNCHANGED <<req, account, session, cancelled, removal>>

(* The response was closed by somebody else, or the time is up: whether or *)
(* not an event is yielded for it, the run ends.                           *)
StreamBreaks(a) ==
  /\ flow[a].pc = "stream"
  /\ req[a].pc # "done"
  /\ GoTo(a, "leave")
  /\ OthersUnchanged /\ UNCHANGED <<req, account, session, cancelled, removal>>

(* _persist_account: is there a row for the phone?                         *)
FindAccount(a) ==
  /\ flow[a].pc = "save"
  /\ GoTo(a, IF account[flow[a].phone].status = "none" THEN "add" ELSE "reactivate")
  /\ OthersUnchanged /\ UNCHANGED <<req, account, session, cancelled, removal>>

(* INSERT fails if the phone has a row by now, UPDATE does nothing if it   *)
(* has none any more.                                                      *)
WriteAccount(a) ==
  LET p == flow[a].phone
      added == flow[a].pc = "add" /\ account[p].status = "none"
      updated == flow[a].pc = "reactivate" /\ account[p].status # "none"
  IN  /\ flow[a].pc \in {"add", "reactivate"}
      /\ account' = IF added \/ updated
                      THEN [account EXCEPT ![p] = [status |-> "active", proxy |-> flow[a].proxy]]
                      ELSE account
      /\ GoTo(a, "leave")
      /\ OthersUnchanged /\ UNCHANGED <<req, session, cancelled, removal>>

(* Mutant: the generator ends without its "finally".                       *)
LeaveOpen(a) ==
  /\ flow[a].pc = "leave"
  /\ flow' = [flow EXCEPT ![a] = NoFlow]
  /\ OthersUnchanged /\ UNCHANGED <<req, session, account, cancelled, removal>>

(* The finally of stream(): closes what is open now, whoever opened it.    *)
Leave(a) ==
  /\ flow[a].pc = "leave"
  /\ flow' = [flow EXCEPT ![a] = NoFlow]
  /\ CloseSession
  /\ OthersUnchanged /\ UNCHANGED <<account, cancelled, removal>>

(* cb_cancel_auth: the button is under every message of the dialogue and   *)
(* has no state filter. A run that has begun goes on until it notices.     *)
Cancel(a) ==
  /\ cancelled' = TRUE
  /\ CloseSession
  /\ flow' = IF flow[a].pc = "choose" THEN [flow EXCEPT ![a] = NoFlow] ELSE flow
  /\ OthersUnchanged /\ UNCHANGED <<account, removal>>

Run(a) ==
  \/ StartStream(a)
  \/ ReadEvent(a)
  \/ StreamBreaks(a)
  \/ FindAccount(a)
  \/ WriteAccount(a)
  \/ Leave(a)

------------------------------------------------------------------------------
(* delete_session: the logout, then the row, whatever the daemon answered. *)

StartDelete(p) ==
  /\ removal = NoPhone
  /\ account[p].status # "none"
  /\ removal' = p
  /\ req' = Called(Remover, "remove", p)
  /\ OthersUnchanged /\ UNCHANGED <<account, flow, session, cancelled>>

FinishDelete ==
  /\ removal # NoPhone
  /\ req[Remover].pc = "done"
  /\ account' = [account EXCEPT ![removal] = NoAccount]
  /\ removal' = NoPhone
  /\ req' = [req EXCEPT ![Remover] = NoRequest]
  /\ OthersUnchanged /\ UNCHANGED <<flow, session, cancelled>>

------------------------------------------------------------------------------
Dialogue(a) ==
  \/ \E p \in Number : EnterPhone(a, p)
  \/ \E x \in Proxy \union {NoProxy} : PickProxy(a, x)
  \/ Cancel(a)

Daemon ==
  /\ \/ \E r \in Request : Authorize(r) \/ Logout(r)
     \/ WhatsApp
     \/ Restart
  /\ UNCHANGED botVars

Next ==
  \/ \E a \in Admin : Dialogue(a) \/ Run(a)
  \/ \E p \in Number : StartDelete(p)
  \/ FinishDelete
  \/ Daemon

Spec == Init /\ [][Next]_vars

------------------------------------------------------------------------------
(* Types.                                                                  *)

FlowState ==
  [pc : {"idle", "choose", "start", "stream", "save", "add", "reactivate", "leave"},
   phone : Phone \union {NoPhone}, proxy : Proxy \union {NoProxy}]

(* Every variable of both programs keeps its type.                         *)
TypeOK ==
  /\ SessionsTypeOK
  /\ flow \in [Admin -> FlowState]
  /\ session \in Admin \union {NoAdmin}
  /\ cancelled \in BOOLEAN
  /\ removal \in Phone \union {NoPhone}

------------------------------------------------------------------------------
(* Safety.                                                                 *)

(* WhatsAppAuth never stays busy for nobody: the admin whose stream makes  *)
(* it busy has a run that is going to close it, whatever others cancelled  *)
(* or closed in between.                                                   *)
BusyHasOwner ==
  \A a \in Admin :
    session = a => flow[a].pc \in {"stream", "save", "add", "reactivate", "leave"}

(* The daemon never serves two authorizations the bot still listens to:    *)
(* every handler whose connection is open works for the owner of the       *)
(* shared stream.                                                          *)
OneStream ==
  \A a \in Admin : Live(a) /\ ~req[a].gone => session = a

(* After a cancellation, or when another run has closed the stream, an     *)
(* answer of the daemon is not saved any more.                             *)
OnlyOwnerSaves ==
  [][\A a \in Admin : flow[a].pc = "stream" /\ flow'[a].pc = "save" => session = a]_vars

------------------------------------------------------------------------------
(* What the code's texts promise and the code does not keep.               *)

(* "Connect the newly authorized device into the live pool": when success  *)
(* is answered, the pool holds a connected client of the phone.            *)
SuccessIsConnected ==
  [][\A a \in Admin :
       req[a].pc # "done" /\ req'[a].reply = "success" => pool'[req[a].phone].up]_vars

(* "Guard against double-assignment (proxy is one-per-account)".           *)
OneProxyPerAccount ==
  \A p, q \in Phone : account[p].proxy = account[q].proxy /\ account[p].proxy # NoProxy => p = q

==============================================================================
