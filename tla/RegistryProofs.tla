---------------------------- MODULE RegistryProofs ----------------------------
(***************************************************************************)
(* What holds of Registry for every number of accounts, handlers,          *)
(* connection events, administrators and moves.                            *)
(***************************************************************************)
EXTENDS Registry, FiniteSetTheorems, TLAPS

------------------------------------------------------------------------------
(* Administrators. A person who is not added and removed at the same time  *)
(* has at most one handler, and how far it is says how the set and the     *)
(* table may differ.                                                       *)

Changes == [pc : {"idle", "insert", "delete", "remember", "forget"}, who : SUBSET Person]

ChangesOK ==
  /\ change \in [Change -> Changes]
  /\ \A c \in Change :
       /\ change[c].pc = "idle" => change[c].who = {}
       /\ change[c].pc # "idle" => \E p \in Person : change[c].who = {p}

OneChange(p) == \A c, d \in Change : change[c].who = {p} /\ change[d].who = {p} => c = d

Agree(p) == p \in adminSet <=> p \in adminTable

AccessSteps(p) ==
  /\ (\A c \in Change : change[c].who # {p}) => Agree(p)
  /\ \A c \in Change :
       change[c].who = {p} =>
         /\ change[c].pc \in {"insert", "delete"} => Agree(p)
         /\ change[c].pc = "remember" => p \in adminTable
         /\ change[c].pc = "forget" => p \notin adminTable

AccessInv == ChangesOK /\ \A p \in Person \ crossed : OneChange(p) /\ AccessSteps(p)

(* The invariant is enough.                                                *)
LEMMA AccessEnough == AccessInv => AccessMatchesTable
  BY DEF AccessInv, AccessSteps, AccessMatchesTable, ChangingAccess, Agree

LEMMA AccessStarts == AccessInit => AccessInv
  BY DEF AccessInit, AccessInv, ChangesOK, Changes, OneChange, AccessSteps, Agree, NoChange

LEMMA AccessBegins ==
  ASSUME AccessInv, NEW c \in Change, NEW p \in Person, NEW pc \in {"insert", "delete"},
         Begin(c, p, pc)
  PROVE  AccessInv'
<1>1. ChangesOK'
  BY DEF AccessInv, ChangesOK, Changes, Begin
<1>2. ASSUME NEW q \in Person \ crossed'
      PROVE  OneChange(q)' /\ AccessSteps(q)'
  <2>1. q \notin crossed /\ OneChange(q) /\ AccessSteps(q)
    BY <1>2 DEF AccessInv, Begin
  <2>2. \A d \in Change : change'[d].who = {q} => change[d].who = {q} \/ (d = c /\ q = p)
    BY DEF AccessInv, ChangesOK, Begin
  <2>3. q = p => \A d \in Change : change[d].who # {p}
    BY <1>2, <2>1 DEF Begin, ChangingAccess
  <2>4. OneChange(q)'
    BY <2>1, <2>2, <2>3 DEF OneChange
  <2>5. change[c].who = {} /\ change'[c] = [pc |-> pc, who |-> {p}]
    BY DEF AccessInv, ChangesOK, Begin
  <2>6. \A d \in Change : d # c => change'[d] = change[d]
    BY DEF AccessInv, ChangesOK, Begin
  <2>7. Agree(q)' <=> Agree(q)
    BY DEF Begin, Agree
  <2>8. AccessSteps(q)'
    BY <2>1, <2>3, <2>5, <2>6, <2>7 DEF AccessSteps, Begin
  <2>. QED BY <2>4, <2>8
<1>. QED BY <1>1, <1>2 DEF AccessInv

LEMMA TableWritten ==
  ASSUME AccessInv, NEW c \in Change, WriteTable(c)
  PROVE  AccessInv'
<1>1. ChangesOK'
  BY DEF AccessInv, ChangesOK, Changes, WriteTable, NoChange
<1>2. PICK p \in Person : change[c].who = {p}
  BY DEF AccessInv, ChangesOK, WriteTable
<1>3. \A d \in Change : d # c => change'[d] = change[d]
  BY DEF AccessInv, ChangesOK, WriteTable
<1>4. \/ /\ change[c].pc = "insert" /\ adminTable' = adminTable \union {p}
         /\ \/ change'[c] = [pc |-> "remember", who |-> {p}]
            \/ p \in adminTable /\ change'[c] = NoChange
      \/ /\ change[c].pc = "delete" /\ adminTable' = adminTable \ {p}
         /\ change'[c] = [pc |-> "forget", who |-> {p}]
  BY <1>2 DEF AccessInv, ChangesOK, Changes, WriteTable
<1>5. ASSUME NEW q \in Person \ crossed'
      PROVE  OneChange(q)' /\ AccessSteps(q)'
  <2>1. q \notin crossed /\ OneChange(q) /\ AccessSteps(q) /\ adminSet' = adminSet
    BY <1>5 DEF AccessInv, WriteTable
  <2>2. \A d \in Change : change'[d].who = {q} => change[d].who = {q}
    BY <1>2, <1>3, <1>4 DEF NoChange
  <2>3. OneChange(q)'
    BY <2>1, <2>2 DEF OneChange
  <2>4. CASE q = p
    <3>1. \A d \in Change : d # c => change'[d].who # {q}
      BY <1>2, <1>3, <2>1, <2>4 DEF OneChange
    <3>2. Agree(p)
      BY <1>2, <1>4, <2>1, <2>4 DEF AccessSteps
    <3>. QED BY <1>2, <1>4, <2>1, <2>3, <2>4, <3>1, <3>2 DEF AccessSteps, Agree, NoChange
  <2>5. CASE q # p
    <3>1. Agree(q)' <=> Agree(q)
      BY <1>4, <2>1, <2>5 DEF Agree
    <3>2. q \in adminTable' <=> q \in adminTable
      BY <1>4, <2>5
    <3>3. \A d \in Change : change[d].who = {q} => d # c
      BY <1>2, <2>5
    <3>4. \A d \in Change : change'[d].who = {q} => change'[d] = change[d]
      BY <1>3, <2>2, <3>3
    <3>5. (\A d \in Change : change'[d].who # {q}) => \A d \in Change : change[d].who # {q}
      BY <1>3, <3>3
    <3>. QED BY <2>1, <2>3, <2>2, <3>1, <3>2, <3>4, <3>5 DEF AccessSteps
  <2>. QED BY <2>4, <2>5
<1>. QED BY <1>1, <1>5 DEF AccessInv

LEMMA SetCorrected ==
  ASSUME AccessInv, NEW c \in Change, CorrectSet(c)
  PROVE  AccessInv'
<1>1. ChangesOK'
  BY DEF AccessInv, ChangesOK, Changes, CorrectSet, NoChange
<1>2. PICK p \in Person : change[c].who = {p}
  BY DEF AccessInv, ChangesOK, CorrectSet
<1>3. \A d \in Change : d # c => change'[d] = change[d]
  BY DEF AccessInv, ChangesOK, CorrectSet
<1>4. /\ change'[c] = NoChange
      /\ \/ change[c].pc = "remember" /\ adminSet' = adminSet \union {p}
         \/ change[c].pc = "forget" /\ adminSet' = adminSet \ {p}
  BY <1>2 DEF AccessInv, ChangesOK, CorrectSet
<1>5. ASSUME NEW q \in Person \ crossed'
      PROVE  OneChange(q)' /\ AccessSteps(q)'
  <2>1. q \notin crossed /\ OneChange(q) /\ AccessSteps(q) /\ adminTable' = adminTable
    BY <1>5 DEF AccessInv, CorrectSet
  <2>2. \A d \in Change : change'[d].who = {q} => change[d].who = {q} /\ change'[d] = change[d]
    BY <1>3, <1>4 DEF NoChange
  <2>3. OneChange(q)'
    BY <2>1, <2>2 DEF OneChange
  <2>4. CASE q = p
    <3>1. \A d \in Change : change'[d].who # {q}
      BY <1>2, <1>3, <1>4, <2>1, <2>4 DEF OneChange, NoChange
    <3>2. Agree(q)'
      BY <1>2, <1>4, <2>1, <2>4 DEF AccessSteps, Agree
    <3>. QED BY <2>3, <3>1, <3>2 DEF AccessSteps
  <2>5. CASE q # p
    <3>1. Agree(q)' <=> Agree(q)
      BY <1>4, <2>1, <2>5 DEF Agree
    <3>2. (\A d \in Change : change'[d].who # {q}) => \A d \in Change : change[d].who # {q}
      BY <1>2, <1>3, <2>5
    <3>. QED BY <2>1, <2>2, <2>3, <3>1, <3>2 DEF AccessSteps
  <2>. QED BY <2>4, <2>5
<1>. QED BY <1>1, <1>5 DEF AccessInv

LEMMA ChangeFails ==
  ASSUME AccessInv, NEW c \in Change, FailChange(c)
  PROVE  AccessInv'
<1>1. ChangesOK'
  BY DEF AccessInv, ChangesOK, Changes, FailChange, NoChange
<1>2. PICK p \in Person : change[c].who = {p}
  BY DEF AccessInv, ChangesOK, FailChange
<1>3. /\ change'[c] = NoChange
      /\ \A d \in Change : d # c => change'[d] = change[d]
  BY DEF AccessInv, ChangesOK, FailChange
<1>4. ASSUME NEW q \in Person \ crossed'
      PROVE  OneChange(q)' /\ AccessSteps(q)'
  <2>1. q \notin crossed /\ OneChange(q) /\ AccessSteps(q)
    BY <1>4 DEF AccessInv, FailChange
  <2>2. \A d \in Change : change'[d].who = {q} => change[d].who = {q} /\ change'[d] = change[d]
    BY <1>3 DEF NoChange
  <2>3. OneChange(q)'
    BY <2>1, <2>2 DEF OneChange
  <2>4. Agree(q)' <=> Agree(q)
    BY DEF FailChange, Agree
  <2>5. (\A d \in Change : change'[d].who # {q}) => Agree(q)
    BY <1>2, <1>3, <2>1 DEF AccessSteps, FailChange
  <2>6. adminTable' = adminTable
    BY DEF FailChange
  <2>. QED BY <2>1, <2>2, <2>3, <2>4, <2>5, <2>6 DEF AccessSteps
<1>. QED BY <1>1, <1>4 DEF AccessInv

LEMMA AdminsReloaded == ReloadAdmins => AccessInv'
  BY DEF ReloadAdmins, AccessInv, ChangesOK, Changes, OneChange, AccessSteps, Agree, NoChange

LEMMA AccessUntouched == AccessInv /\ UNCHANGED accessVars => AccessInv'
  BY DEF accessVars, AccessInv, ChangesOK, OneChange, AccessSteps, Agree

(* For every number of admins and of handlers, over restarts of the bot:   *)
(* who has access is who is in the table, once a person's handler is done  *)
(* (access.py, admins_handlers.py).                                        *)
THEOREM AccessKept == Spec => []AccessMatchesTable
<1>1. Init => AccessInv
  BY AccessStarts DEF Init
<1>2. AccessInv /\ [Next]_vars => AccessInv'
  <2> SUFFICES ASSUME AccessInv, [Next]_vars
               PROVE  AccessInv'
    OBVIOUS
  <2>1. CASE BeginChange
    <3>1. PICK c \in Change, p \in Person : BeginAdd(c, p) \/ BeginRemove(c, p)
      BY <2>1 DEF BeginChange
    <3>2. PICK pc \in {"insert", "delete"} : Begin(c, p, pc)
      BY <3>1 DEF BeginAdd, BeginRemove
    <3>. QED BY <3>2, AccessBegins
  <2>2. CASE GoOnChanging
    BY <2>2, TableWritten, SetCorrected, ChangeFails DEF GoOnChanging
  <2>3. CASE RestartBot
    BY <2>3, AdminsReloaded DEF RestartBot
  <2>4. CASE UNCHANGED accessVars
    BY <2>4, AccessUntouched
  <2>. QED BY <2>1, <2>2, <2>3, <2>4 DEF Next, vars
<1>. QED BY <1>1, <1>2, AccessEnough, PTL DEF Spec

------------------------------------------------------------------------------
(* Connection events and imports. The ids an event changed are rows of its *)
(* phone, and an import leaves a settled status alone: for that the status *)
(* an event reports must be a settled one.                                 *)

EventsOK ==
  /\ event = [g \in Listener |-> event[g]]
  /\ \A g \in Listener :
       /\ event[g] = [pc |-> event[g].pc, phone |-> event[g].phone,
                      status |-> event[g].status, client |-> event[g].client]
       /\ event[g].pc # "idle" =>
            /\ \E p \in Phone : event[g].phone = {p}
            /\ event[g].status \in {"ready", "disconnected", "blocked"}

ToldOK ==
  /\ told = [p \in Phone |-> told[p]]
  /\ \A p \in Phone : told[p] = [status |-> told[p].status, ids |-> told[p].ids]

RuntimeOK ==
  \A id \in DOMAIN runtime :
    runtime[id] = [phone |-> runtime[id].phone, status |-> runtime[id].status]

ToldIsSettled ==
  \A p \in Phone : \A id \in told[p].ids :
    /\ id \in DOMAIN runtime /\ runtime[id].phone = p
    /\ runtime[id].status = told[p].status
    /\ told[p].status \in SettledStatus

StatusInv == EventsOK /\ ToldOK /\ RuntimeOK /\ ToldIsSettled

LEMMA StatusEnough == StatusInv => StatusIsLastEvent
  BY DEF StatusInv, ToldIsSettled, StatusIsLastEvent

LEMMA StatusStarts == RosterInit => StatusInv
<1> SUFFICES ASSUME RosterInit
             PROVE  StatusInv
  OBVIOUS
<1>1. EventsOK /\ ToldOK /\ RuntimeOK
  BY DEF RosterInit, EventsOK, ToldOK, RuntimeOK, NoEvent
<1>2. ASSUME NEW p \in Phone, NEW id \in told[p].ids
      PROVE  /\ id \in DOMAIN runtime /\ runtime[id].phone = p
             /\ runtime[id].status = told[p].status
             /\ told[p].status \in SettledStatus
  <2>1. told[p].status = "ready" /\ id \in RowsOf(rows, p)
    BY <1>2 DEF RosterInit
  <2>2. id \in DOMAIN InitialRows /\ InitialRows[id] = p
    BY <2>1 DEF RosterInit, RowsOf
  <2>. QED BY <2>1, <2>2 DEF RosterInit, SettledStatus
<1>. QED BY <1>1, <1>2 DEF StatusInv, ToldIsSettled

(* A new event is one of three.                                            *)
LEMMA EventsHappen ==
  ASSUME StatusInv, NEW p \in Phone, NEW status \in {"ready", "disconnected", "blocked"},
         NEW s, Happens(p, status, s), UNCHANGED <<runtime, told>>
  PROVE  StatusInv'
<1>1. PICK g \in Listener :
        event' = [event EXCEPT ![g] = [pc |-> "runtime", phone |-> {p}, status |-> status,
                                       client |-> session[p].client]]
  BY DEF Happens
<1>2. EventsOK'
  BY <1>1 DEF StatusInv, EventsOK
<1>. QED BY <1>2 DEF StatusInv, ToldOK, RuntimeOK, ToldIsSettled

(* An event goes on to the bot's row, or is done, told or not.             *)
LEMMA RuntimeIsLeft ==
  ASSUME StatusInv, NEW g \in Listener, LeaveRuntime(g)
  PROVE  EventsOK'
<1>1. event' = [event EXCEPT ![g] = NoEvent] \/ event' = [event EXCEPT ![g].pc = "admin"]
  BY DEF LeaveRuntime
<1>2. CASE event' = [event EXCEPT ![g] = NoEvent]
  BY <1>2 DEF StatusInv, EventsOK, NoEvent
<1>3. CASE event' = [event EXCEPT ![g].pc = "admin"]
  <2>1. event'[g] = [event[g] EXCEPT !.pc = "admin"]
    BY <1>3 DEF StatusInv, EventsOK
  <2>2. /\ event' = [h \in Listener |-> event'[h]]
        /\ \A h \in Listener : h # g => event'[h] = event[h]
    BY <1>3 DEF StatusInv, EventsOK
  <2>3. event[g].pc # "idle"
    BY DEF LeaveRuntime
  <2>. QED BY <2>1, <2>2, <2>3 DEF StatusInv, EventsOK
<1>. QED BY <1>1, <1>2, <1>3

LEMMA RuntimeIsNotTold ==
  ASSUME StatusInv, NEW g \in Listener, UpdateFails(g)
  PROVE  StatusInv'
<1>1. EventsOK'
  BY RuntimeIsLeft DEF UpdateFails
<1>. QED BY <1>1 DEF StatusInv, ToldOK, RuntimeOK, ToldIsSettled, UpdateFails

LEMMA RuntimeIsTold ==
  ASSUME StatusInv, NEW g \in Listener, TellRuntime(g)
  PROVE  StatusInv'
<1>1. PICK p \in Phone : event[g].phone = {p}
  BY DEF StatusInv, EventsOK, TellRuntime, LeaveRuntime
<1>2. p = CHOOSE q \in event[g].phone : TRUE
  BY <1>1
<1>. DEFINE status == event[g].status
            hit == RowsOf(runtime, p)
<1>3. status \in {"ready", "disconnected", "blocked"}
  BY DEF StatusInv, EventsOK, TellRuntime, LeaveRuntime
<1>4. /\ runtime' = [id \in DOMAIN runtime |->
                       IF id \in hit THEN [runtime[id] EXCEPT !.status = status] ELSE runtime[id]]
      /\ told' = [told EXCEPT ![p] = [status |-> status, ids |-> hit]]
  BY <1>2 DEF TellRuntime
<1>5. EventsOK'
  BY RuntimeIsLeft DEF TellRuntime
<1>6. ToldOK'
  BY <1>4 DEF StatusInv, ToldOK
<1>7. RuntimeOK'
  BY <1>4 DEF StatusInv, RuntimeOK
<1>8. ASSUME NEW q \in Phone, NEW id \in told'[q].ids
      PROVE  /\ id \in DOMAIN runtime' /\ runtime'[id].phone = q
             /\ runtime'[id].status = told'[q].status
             /\ told'[q].status \in SettledStatus
  <2>1. CASE q = p
    <3>1. told'[q] = [status |-> status, ids |-> hit]
      BY <1>4, <2>1 DEF StatusInv, ToldOK
    <3>2. id \in hit
      BY <1>8, <3>1
    <3>3. id \in DOMAIN runtime /\ runtime[id].phone = p
      BY <3>2 DEF RowsOf
    <3>4. runtime'[id] = [runtime[id] EXCEPT !.status = status]
      BY <1>4, <3>2, <3>3
    <3>. QED BY <1>3, <1>4, <2>1, <3>1, <3>3, <3>4 DEF StatusInv, RuntimeOK, SettledStatus
  <2>2. CASE q # p
    <3>1. told'[q] = told[q]
      BY <1>4, <2>2 DEF StatusInv, ToldOK
    <3>2. /\ id \in DOMAIN runtime /\ runtime[id].phone = q
          /\ runtime[id].status = told[q].status
          /\ told[q].status \in SettledStatus
      BY <1>8, <3>1 DEF StatusInv, ToldIsSettled
    <3>3. id \notin hit
      BY <2>2, <3>2 DEF RowsOf
    <3>4. id \in DOMAIN runtime' /\ runtime'[id] = runtime[id]
      BY <1>4, <3>2, <3>3
    <3>. QED BY <3>1, <3>2, <3>4
  <2>. QED BY <2>1, <2>2
<1>. QED BY <1>5, <1>6, <1>7, <1>8 DEF StatusInv, ToldIsSettled

LEMMA SheetIsUpserted ==
  ASSUME StatusInv, Upsert
  PROVE  StatusInv'
<1>. DEFINE new == fetched.rows
            ids == {new[i][1] : i \in DOMAIN new}
            PhoneIn(id) == new[Greatest({i \in DOMAIN new : new[i][1] = id})][2]
<1>1. /\ runtime' = [id \in DOMAIN runtime \union ids |->
                       IF id \in ids THEN [phone |-> PhoneIn(id), status |-> StatusAfterImport(id)]
                                     ELSE runtime[id]]
      /\ told' = [p \in Phone |-> [told[p] EXCEPT !.ids = @ \intersect RowsOf(runtime', p)]]
      /\ event' = event
  BY DEF Upsert
<1>. HIDE DEF ids, PhoneIn
<1>2. EventsOK'
  BY <1>1 DEF StatusInv, EventsOK
<1>3. ToldOK'
  BY <1>1 DEF StatusInv, ToldOK
<1>4. RuntimeOK'
  BY <1>1 DEF StatusInv, RuntimeOK
<1>5. ASSUME NEW p \in Phone, NEW id \in told'[p].ids
      PROVE  /\ id \in DOMAIN runtime' /\ runtime'[id].phone = p
             /\ runtime'[id].status = told'[p].status
             /\ told'[p].status \in SettledStatus
  <2>1. told'[p] = [told[p] EXCEPT !.ids = @ \intersect RowsOf(runtime', p)]
    BY <1>1
  <2>2. id \in told[p].ids /\ id \in RowsOf(runtime', p) /\ told'[p].status = told[p].status
    BY <1>5, <2>1 DEF StatusInv, ToldOK
  <2>3. /\ id \in DOMAIN runtime
        /\ runtime[id].status = told[p].status
        /\ told[p].status \in SettledStatus
    BY <2>2 DEF StatusInv, ToldIsSettled
  <2>4. runtime'[id].status = runtime[id].status
    BY <1>1, <2>3 DEF StatusAfterImport
  <2>5. id \in DOMAIN runtime' /\ runtime'[id].phone = p
    BY <2>2 DEF RowsOf
  <2>. QED BY <2>2, <2>3, <2>4, <2>5
<1>. QED BY <1>2, <1>3, <1>4, <1>5 DEF StatusInv, ToldIsSettled

LEMMA BotIsTold ==
  ASSUME StatusInv, NEW g \in Listener, TellBot(g)
  PROVE  StatusInv'
<1>1. EventsOK'
  BY DEF StatusInv, EventsOK, TellBot, NoEvent
<1>. QED BY <1>1 DEF StatusInv, ToldOK, RuntimeOK, ToldIsSettled, TellBot

LEMMA DaemonRestarts == StatusInv /\ RestartDaemon => StatusInv'
<1> SUFFICES ASSUME StatusInv, RestartDaemon
             PROVE  StatusInv'
  OBVIOUS
<1>1. EventsOK'
  BY DEF StatusInv, EventsOK, RestartDaemon, NoEvent
<1>. QED BY <1>1 DEF StatusInv, ToldOK, RuntimeOK, ToldIsSettled, RestartDaemon

LEMMA StatusUntouched ==
  StatusInv /\ UNCHANGED <<runtime, event, told>> => StatusInv'
  BY DEF StatusInv, EventsOK, ToldOK, RuntimeOK, ToldIsSettled

LEMMA StatusKeptByNext == StatusInv /\ [Next]_vars => StatusInv'
<1> SUFFICES ASSUME StatusInv, [Next]_vars
             PROVE  StatusInv'
  OBVIOUS
<1>1. ASSUME NEW w \in Writer, NEW p \in Phone, Authorized(w, p) \/ BeginDelete(w, p)
      PROVE  StatusInv'
  BY <1>1, StatusUntouched DEF Authorized, BeginDelete
<1>2. ASSUME NEW w \in Writer, GoOnWriting(w) \/ WriterFails(w) \/ SheetFails(w)
      PROVE  StatusInv'
  BY <1>2, StatusUntouched
  DEF GoOnWriting, WriterFails, SheetFails, Persist, Erase, ReadTable, ClearSheet, UpdateSheet, FormatSheet
<1>3. ASSUME Import \/ ImportFails
      PROVE  StatusInv'
  BY <1>3, StatusUntouched, SheetIsUpserted DEF Import, ReadSheet, ImportFails
<1>4. ASSUME NEW p \in Phone, LosesConnection(p) \/ Connects(p) \/ IsLoggedOut(p)
      PROVE  StatusInv'
  BY <1>4, EventsHappen DEF LosesConnection, Connects, IsLoggedOut
<1>5. ASSUME NEW g \in Listener, TellRuntime(g) \/ UpdateFails(g) \/ TellBot(g)
      PROVE  StatusInv'
  BY <1>5, RuntimeIsTold, RuntimeIsNotTold, BotIsTold
<1>6. ASSUME RestartDaemon
      PROVE  StatusInv'
  BY <1>6, DaemonRestarts
<1>7. ASSUME UNCHANGED rosterOnly
      PROVE  StatusInv'
  BY <1>7, StatusUntouched DEF rosterOnly
<1>8. ASSUME RestartBot
      PROVE  StatusInv'
  BY <1>8, StatusUntouched DEF RestartBot, BeginWithSync
<1>9. RosterNext => StatusInv'
  BY <1>1, <1>2, <1>3, <1>4, <1>5, <1>6 DEF RosterNext
<1>. QED BY <1>7, <1>8, <1>9 DEF Next, vars, rosterVars

(* For every number of accounts, listeners and imports: an import never    *)
(* undoes what a connection event said of an account (accounts_repo.go,    *)
(* sync_service.go).                                                       *)
THEOREM StatusKept == Spec => []StatusIsLastEvent
<1>1. Init => StatusInv
  BY StatusStarts DEF Init
<1>. QED BY <1>1, StatusKeptByNext, StatusEnough, PTL DEF Spec

------------------------------------------------------------------------------
(* The sheet. As long as no two syncs overlapped, the one that is writing  *)
(* holds the rows of the table, unless another one is about to read it     *)
(* again: whoever changes the table syncs afterwards.                      *)

Full(r) == [header |-> TRUE, rows |-> r]

(* A list: a function on an initial segment of the positive numbers.       *)
IsList(r) == \E n \in Nat : r = [i \in 1..n |-> r[i]]

WriterOK ==
  /\ writer = [w \in Writer |-> writer[w]]
  /\ \A w \in Writer :
       /\ writer[w] = [pc |-> writer[w].pc, phone |-> writer[w].phone,
                       rows |-> writer[w].rows, tries |-> writer[w].tries]
       /\ IsList(writer[w].rows)

NoneAbout == \A w \in Writer : writer[w].pc # "sync"

SheetIsAhead ==
  /\ \A v, w \in Writing : v = w
  /\ \A w \in Writing :
       /\ writer[w].pc = "update" => sheet = Blank
       /\ writer[w].pc = "format" => sheet = Full(writer[w].rows)
       /\ NoneAbout => writer[w].rows = TableRows(rows)
  /\ NoneAbout /\ Writing = {} => sheet = Full(TableRows(rows))

SheetInv == IsFiniteSet(DOMAIN rows) /\ WriterOK /\ (unbroken => SheetIsAhead)

LEMMA SheetEnough == SheetInv => SheetMatches
  BY DEF SheetInv, SheetIsAhead, NoneAbout, SheetMatches, AtRest, Writing, Full

(* What a sync writes is a list, of what is in the table at that time.     *)
LEMMA TableRowsIsList ==
  ASSUME NEW t, IsFiniteSet(DOMAIN t)
  PROVE  IsList(TableRows(t))
<1>. DEFINE entries == {<<id, t[id].phone>> : id \in DOMAIN t}
            f == [id \in DOMAIN t |-> <<id, t[id].phone>>]
<1>1. f \in Surjection(DOMAIN t, entries)
  BY DEF Surjection
<1>2. IsFiniteSet(entries)
  BY <1>1, FS_Surjection
<1>3. Cardinality(entries) \in Nat
  BY <1>2, FS_CardinalityType
<1>. DEFINE lower(e) == {d \in entries : d[1] < e[1]}
            entry(n) == CHOOSE e \in entries : Cardinality(lower(e)) = n - 1
<1>4. TableRows(t) = [n \in 1..Cardinality(entries) |-> entry(n)]
  BY DEF TableRows, ById
<1>. HIDE DEF entry, entries
<1>5. TableRows(t) = [n \in 1..Cardinality(entries) |-> TableRows(t)[n]]
  BY <1>4
<1>. QED BY <1>3, <1>5 DEF IsList

LEMMA EmptyIsList == IsList(<< >>) /\ Len(<< >>) = 0
<1>1. << >> = [i \in 1..0 |-> << >>[i]]
  OBVIOUS
<1>. QED BY <1>1 DEF IsList

(* Rows written to a blank sheet are all there is on it.                   *)
LEMMA BlankIsOverwritten ==
  ASSUME NEW r, IsList(r), NEW old, old = << >>
  PROVE  [i \in 1..Greatest({Len(r), Len(old)}) |-> IF i <= Len(r) THEN r[i] ELSE old[i]] = r
<1>1. PICK n \in Nat : r = [i \in 1..n |-> r[i]]
  BY DEF IsList
<1>2. r \in Seq({r[i] : i \in 1..n}) /\ Len(r) = n
  BY <1>1
<1>3. Len(old) = 0
  BY EmptyIsList
<1>4. Greatest({n, 0}) = n
  BY DEF Greatest
<1>5. Greatest({Len(r), Len(old)}) = n
  BY <1>2, <1>3, <1>4
<1>6. \A i \in 1..n : (IF i <= Len(r) THEN r[i] ELSE old[i]) = r[i]
  BY <1>2
<1>. QED BY <1>1, <1>5, <1>6

LEMMA SheetStarts == RosterInit => SheetInv
<1> SUFFICES ASSUME RosterInit
             PROVE  SheetInv
  OBVIOUS
<1>1. IsFiniteSet(DOMAIN rows)
  BY RosterAssumption DEF RosterInit
<1>2. WriterOK
  BY EmptyIsList DEF RosterInit, WriterOK, NoWriter, At
<1>3. Writing = {} /\ sheet = Full(TableRows(rows))
  BY DEF RosterInit, Writing, NoWriter, At, Full
<1>. QED BY <1>1, <1>2, <1>3 DEF SheetInv, SheetIsAhead

(* A handler that is not at the sheet, before the step and after it, and   *)
(* changes the table only if a sync comes next.                            *)
LEMMA SheetUnwritten ==
  ASSUME SheetInv, NEW w \in Writer, NEW x,
         writer' = [writer EXCEPT ![w] = x],
         x = [pc |-> x.pc, phone |-> x.phone, rows |-> x.rows, tries |-> x.tries],
         IsList(x.rows),
         writer[w].pc \in {"idle", "persist", "erase"},
         x.pc \in {"persist", "erase", "sync"},
         IsFiniteSet(DOMAIN rows'), rows' = rows \/ x.pc = "sync",
         UNCHANGED <<sheet, unbroken>>
  PROVE  SheetInv'
<1>1. writer'[w] = x /\ \A v \in Writer : v # w => writer'[v] = writer[v]
  BY DEF SheetInv, WriterOK
<1>2. WriterOK'
  BY <1>1 DEF SheetInv, WriterOK
<1>3. Writing' = Writing /\ w \notin Writing
  BY <1>1 DEF Writing
<1>4. \A v \in Writing : writer'[v] = writer[v]
  BY <1>1, <1>3 DEF Writing
<1>5. NoneAbout' => NoneAbout /\ rows' = rows
  BY <1>1 DEF NoneAbout
<1>6. unbroken => SheetIsAhead'
  BY <1>3, <1>4, <1>5 DEF SheetInv, SheetIsAhead
<1>. QED BY <1>2, <1>6 DEF SheetInv

LEMMA TableIsRead ==
  ASSUME SheetInv, NEW w \in Writer, ReadTable(w)
  PROVE  SheetInv'
<1>. DEFINE x == [pc |-> "clear", phone |-> {}, rows |-> TableRows(rows), tries |-> Retries]
<1>1. /\ writer' = [writer EXCEPT ![w] = x]
      /\ unbroken' <=> Writing = {}
      /\ rows' = rows
  BY DEF ReadTable
<1>2. writer'[w] = x /\ \A v \in Writer : v # w => writer'[v] = writer[v]
  BY <1>1 DEF SheetInv, WriterOK
<1>3. IsList(TableRows(rows))
  BY TableRowsIsList DEF SheetInv
<1>4. WriterOK'
  BY <1>1, <1>2, <1>3 DEF SheetInv, WriterOK
<1>5. unbroken' => \A v \in Writing' : v = w
  BY <1>1, <1>2 DEF Writing
<1>6. unbroken' => SheetIsAhead'
  BY <1>1, <1>2, <1>5 DEF SheetIsAhead, Writing
<1>. QED BY <1>1, <1>4, <1>6 DEF SheetInv

(* A handler at the sheet goes on, or starts again.                        *)
LEMMA SheetGoesOn ==
  ASSUME SheetInv, NEW w \in Writing, NEW x,
         writer' = [writer EXCEPT ![w] = x],
         x = [pc |-> x.pc, phone |-> x.phone, rows |-> x.rows, tries |-> x.tries],
         x.pc \in {"clear", "update", "format"},
         x.rows = writer[w].rows,
         UNCHANGED <<rows, unbroken>>,
         unbroken => /\ x.pc = "update" => sheet' = Blank
                     /\ x.pc = "format" => sheet' = Full(x.rows)
  PROVE  SheetInv'
<1>1. w \in Writer /\ writer'[w] = x /\ \A v \in Writer : v # w => writer'[v] = writer[v]
  BY DEF SheetInv, WriterOK, Writing
<1>2. WriterOK'
  BY <1>1 DEF SheetInv, WriterOK
<1>3. Writing' = Writing
  BY <1>1 DEF Writing
<1>4. NoneAbout' <=> NoneAbout
  BY <1>1 DEF NoneAbout, Writing
<1>5. ASSUME unbroken
      PROVE  SheetIsAhead'
  <2>1. \A v \in Writing : v = w
    BY <1>5 DEF SheetInv, SheetIsAhead
  <2>2. NoneAbout => writer[w].rows = TableRows(rows)
    BY <1>5 DEF SheetInv, SheetIsAhead
  <2>. QED BY <1>1, <1>3, <1>4, <1>5, <2>1, <2>2 DEF SheetIsAhead
<1>. QED BY <1>2, <1>5 DEF SheetInv

(* A handler leaves the sheet: done with it, or the last try has failed.   *)
LEMMA SheetIsLeft ==
  ASSUME SheetInv, NEW w \in Writing, writer' = [writer EXCEPT ![w] = NoWriter],
         UNCHANGED <<rows, sheet>>,
         unbroken' => unbroken /\ writer[w].pc = "format"
  PROVE  SheetInv'
<1>1. /\ w \in Writer /\ writer'[w] = NoWriter
      /\ \A v \in Writer : v # w => writer'[v] = writer[v]
  BY DEF SheetInv, WriterOK, Writing
<1>2. WriterOK'
  BY <1>1, EmptyIsList DEF SheetInv, WriterOK, NoWriter, At
<1>3. Writing' = Writing \ {w}
  BY <1>1 DEF Writing, NoWriter, At
<1>4. NoneAbout' => NoneAbout
  BY <1>1 DEF NoneAbout, Writing
<1>5. ASSUME unbroken'
      PROVE  SheetIsAhead'
  <2>1. /\ \A v \in Writing : v = w
        /\ sheet = Full(writer[w].rows)
        /\ NoneAbout => writer[w].rows = TableRows(rows)
    BY <1>5 DEF SheetInv, SheetIsAhead
  <2>2. Writing' = {}
    BY <1>3, <2>1
  <2>. QED BY <1>4, <2>1, <2>2 DEF SheetIsAhead
<1>. QED BY <1>2, <1>5 DEF SheetInv

LEMMA SheetIsWritten ==
  ASSUME SheetInv, NEW w \in Writer,
         ClearSheet(w) \/ UpdateSheet(w) \/ FormatSheet(w) \/ SheetFails(w)
  PROVE  SheetInv'
<1>1. CASE ClearSheet(w)
  <2>. DEFINE x == [writer[w] EXCEPT !.pc = "update"]
  <2>1. w \in Writing /\ writer' = [writer EXCEPT ![w] = x] /\ sheet' = Blank
        /\ UNCHANGED <<rows, unbroken>>
    BY <1>1 DEF ClearSheet, Writing
  <2>2. /\ x = [pc |-> x.pc, phone |-> x.phone, rows |-> x.rows, tries |-> x.tries]
        /\ x.pc = "update" /\ x.rows = writer[w].rows
    BY DEF SheetInv, WriterOK
  <2>. HIDE DEF x
  <2>. QED BY <2>1, <2>2, SheetGoesOn
<1>2. CASE UpdateSheet(w)
  <2>. DEFINE x == [writer[w] EXCEPT !.pc = "format"]
  <2>1. w \in Writing /\ writer' = [writer EXCEPT ![w] = x] /\ UNCHANGED <<rows, unbroken>>
    BY <1>2 DEF UpdateSheet, Writing
  <2>2. /\ x = [pc |-> x.pc, phone |-> x.phone, rows |-> x.rows, tries |-> x.tries]
        /\ x.pc = "format" /\ x.rows = writer[w].rows
    BY DEF SheetInv, WriterOK
  <2>3. unbroken => sheet.rows = << >>
    BY <1>2, <2>1 DEF SheetInv, SheetIsAhead, Blank, UpdateSheet
  <2>4. IsList(writer[w].rows)
    BY DEF SheetInv, WriterOK
  <2>5. unbroken => sheet' = Full(writer[w].rows)
    BY <1>2, <2>3, <2>4, BlankIsOverwritten DEF UpdateSheet, Full
  <2>. HIDE DEF x
  <2>. QED BY <2>1, <2>2, <2>5, SheetGoesOn
<1>3. CASE FormatSheet(w)
  BY <1>3, SheetIsLeft DEF FormatSheet, Writing
<1>4. CASE SheetFails(w) /\ writer[w].tries > 1 /\ UNCHANGED unbroken
          /\ writer' = [writer EXCEPT ![w].pc = "clear", ![w].tries = @ - 1]
  <2>. DEFINE x == [pc |-> "clear", phone |-> writer[w].phone, rows |-> writer[w].rows,
                    tries |-> writer[w].tries - 1]
  <2>. DEFINE y == [writer[w] EXCEPT !.pc = "clear"]
  <2>1. w \in Writing /\ writer' = [writer EXCEPT ![w] = x] /\ UNCHANGED <<rows, unbroken>>
    <3>1. y = [pc |-> "clear", phone |-> writer[w].phone, rows |-> writer[w].rows,
               tries |-> writer[w].tries]
      BY DEF SheetInv, WriterOK
    <3>3. writer' = [[writer EXCEPT ![w] = y] EXCEPT ![w].tries = @ - 1]
      BY <1>4 DEF SheetInv, WriterOK
    <3>. HIDE DEF y
    <3>2. [y EXCEPT !.tries = @ - 1] = x
      BY <3>1
    <3>4. writer' = [writer EXCEPT ![w] = [y EXCEPT !.tries = @ - 1]]
      BY <3>3 DEF SheetInv, WriterOK
    <3>. QED BY <1>4, <3>2, <3>4 DEF SheetFails
  <2>2. /\ x = [pc |-> x.pc, phone |-> x.phone, rows |-> x.rows, tries |-> x.tries]
        /\ x.pc = "clear" /\ x.rows = writer[w].rows
    OBVIOUS
  <2>. HIDE DEF x
  <2>. QED BY <2>1, <2>2, SheetGoesOn
<1>5. CASE SheetFails(w) /\ writer' = [writer EXCEPT ![w] = NoWriter] /\ unbroken' = FALSE
  BY <1>5, SheetIsLeft DEF SheetFails
<1>. QED BY <1>1, <1>2, <1>3, <1>4, <1>5 DEF SheetFails

(* What an event tells the bot is not on the sheet.                        *)
LEMMA TellsPhones ==
  ASSUME NEW g \in Listener, TellBot(g)
  PROVE  /\ DOMAIN rows' = DOMAIN rows
         /\ \A id \in DOMAIN rows : rows'[id].phone = rows[id].phone
<1>1. CASE UNCHANGED rows
  BY <1>1
<1>2. CASE rows' # rows
  <2>. DEFINE status == IF event[g].status = "ready" THEN "active" ELSE "revoked"
  <2>1. rows' = [id \in DOMAIN rows |-> IF {rows[id].phone} = event[g].phone
                                          THEN [rows[id] EXCEPT !.status = status]
                                          ELSE rows[id]]
    BY <1>2, Zenon DEF TellBot
  <2>. HIDE DEF status
  <2>. QED BY <2>1
<1>. QED BY <1>1, <1>2

LEMMA SheetIsNotTold ==
  ASSUME SheetInv, NEW g \in Listener, TellBot(g)
  PROVE  SheetInv'
<1>1. /\ DOMAIN rows' = DOMAIN rows
      /\ \A id \in DOMAIN rows : rows'[id].phone = rows[id].phone
      /\ UNCHANGED <<writer, sheet, unbroken>>
  BY Zenon, TellsPhones DEF TellBot
<1>2. {<<id, rows'[id].phone>> : id \in DOMAIN rows'} = {<<id, rows[id].phone>> : id \in DOMAIN rows}
  BY <1>1
<1>3. TableRows(rows') = TableRows(rows)
  BY <1>2 DEF TableRows
<1>4. TableRows(rows)' = TableRows(rows)
  BY <1>3
<1>5. SheetIsAhead => SheetIsAhead'
  BY <1>1, <1>4 DEF SheetIsAhead, Writing, NoneAbout
<1>. QED BY <1>1, <1>5 DEF SheetInv, WriterOK

(* The handlers that change the table, or are about to.                    *)
LEMMA TableChanges ==
  ASSUME SheetInv, NEW w \in Writer,
         \/ \E p \in Phone : Authorized(w, p) \/ BeginDelete(w, p)
         \/ Persist(w) \/ Erase(w)
  PROVE  SheetInv'
<1>1. ASSUME NEW p \in Phone, Authorized(w, p) \/ BeginDelete(w, p)
      PROVE  SheetInv'
  <2>1. PICK pc \in {"persist", "erase"} : writer' = [writer EXCEPT ![w] = At(pc, {p})]
    BY <1>1 DEF Authorized, BeginDelete
  <2>2. /\ At(pc, {p}).pc = pc /\ IsList(At(pc, {p}).rows)
        /\ At(pc, {p}) = [pc |-> At(pc, {p}).pc, phone |-> At(pc, {p}).phone,
                          rows |-> At(pc, {p}).rows, tries |-> At(pc, {p}).tries]
    BY EmptyIsList DEF At
  <2>3. writer[w].pc = "idle" /\ UNCHANGED <<rows, sheet, unbroken>>
    BY <1>1 DEF Authorized, BeginDelete
  <2>4. IsFiniteSet(DOMAIN rows')
    BY <2>3 DEF SheetInv
  <2>. QED BY <2>1, <2>2, <2>3, <2>4, SheetUnwritten
<1>2. CASE Persist(w) \/ Erase(w)
  <2>. DEFINE x == [writer[w] EXCEPT !.pc = "sync"]
  <2>1. /\ x = [pc |-> x.pc, phone |-> x.phone, rows |-> x.rows, tries |-> x.tries]
        /\ x.pc = "sync" /\ IsList(x.rows)
    BY DEF SheetInv, WriterOK
  <2>2. /\ writer' = [writer EXCEPT ![w] = x]
        /\ writer[w].pc \in {"persist", "erase"}
        /\ UNCHANGED <<sheet, unbroken>>
    BY <1>2 DEF Persist, Erase, SheetInv, WriterOK
  <2>3. \/ DOMAIN rows' = DOMAIN rows \/ DOMAIN rows' = DOMAIN rows \union {NextId}
        \/ DOMAIN rows' \subseteq DOMAIN rows
    BY <1>2 DEF Persist, Erase
  <2>4. IsFiniteSet(DOMAIN rows')
    BY <2>3, FS_AddElement, FS_Subset DEF SheetInv
  <2>. HIDE DEF x
  <2>. QED BY <2>1, <2>2, <2>4, SheetUnwritten
<1>. QED BY <1>1, <1>2

(* A handler fails before its change, or leaves the sheet behind.          *)
LEMMA HandlerFails ==
  ASSUME SheetInv, NEW w \in Writer, WriterFails(w)
  PROVE  SheetInv'
<1>1. /\ writer' = [writer EXCEPT ![w] = NoWriter]
      /\ unbroken' => unbroken /\ writer[w].pc # "sync"
      /\ UNCHANGED <<rows, sheet>>
  BY DEF WriterFails
<1>2. writer'[w] = NoWriter /\ \A v \in Writer : v # w => writer'[v] = writer[v]
  BY <1>1 DEF SheetInv, WriterOK
<1>3. WriterOK'
  BY <1>1, <1>2, EmptyIsList DEF SheetInv, WriterOK, NoWriter, At
<1>4. Writing' = Writing /\ w \notin Writing
  BY <1>2 DEF Writing, WriterFails, NoWriter, At
<1>5. \A v \in Writing : writer'[v] = writer[v]
  BY <1>2, <1>4 DEF Writing
<1>6. unbroken' => (NoneAbout' <=> NoneAbout)
  BY <1>1, <1>2 DEF NoneAbout, NoWriter, At
<1>7. unbroken' => SheetIsAhead'
  BY <1>1, <1>4, <1>5, <1>6 DEF SheetInv, SheetIsAhead
<1>. QED BY <1>1, <1>3, <1>7 DEF SheetInv

LEMMA SheetUntouched ==
  SheetInv /\ UNCHANGED <<rows, sheet, writer, unbroken>> => SheetInv'
  BY DEF SheetInv, WriterOK, SheetIsAhead, Writing, NoneAbout

LEMMA BotStarts ==
  ASSUME SheetInv, NEW w \in Writer, BeginWithSync(w)
  PROVE  SheetInv'
<1>1. writer' = [v \in Writer |-> IF v = w THEN At("sync", {}) ELSE NoWriter]
      /\ UNCHANGED <<rows, sheet, unbroken>>
  BY DEF BeginWithSync
<1>2. WriterOK'
  BY <1>1, EmptyIsList DEF WriterOK, NoWriter, At
<1>3. Writing' = {} /\ ~NoneAbout'
  BY <1>1 DEF Writing, NoneAbout, NoWriter, At
<1>. QED BY <1>1, <1>2, <1>3 DEF SheetInv, SheetIsAhead

(* For every number of accounts, handlers, failures and restarts: once the *)
(* handlers are done the sheet holds the accounts of the table and no      *)
(* others, if the last sync met no other and went through (sheets_sync.py) *)
(* and no handler has failed since between its change and its sync         *)
(* (accounts_auth.py, accounts_info.py).                                   *)
THEOREM SheetKept == Spec => []SheetMatches
<1>1. Init => SheetInv
  BY SheetStarts DEF Init
<1>2. SheetInv /\ [Next]_vars => SheetInv'
  <2> SUFFICES ASSUME SheetInv, [Next]_vars
               PROVE  SheetInv'
    OBVIOUS
  <2>1. ASSUME NEW w \in Writer, NEW p \in Phone, Authorized(w, p) \/ BeginDelete(w, p)
        PROVE  SheetInv'
    BY <2>1, TableChanges
  <2>2. ASSUME NEW w \in Writer, GoOnWriting(w) \/ WriterFails(w) \/ SheetFails(w)
        PROVE  SheetInv'
    <3>1. CASE Persist(w) \/ Erase(w)
      BY <3>1, TableChanges
    <3>2. CASE ReadTable(w)
      BY <3>2, TableIsRead
    <3>3. CASE ClearSheet(w) \/ UpdateSheet(w) \/ FormatSheet(w) \/ SheetFails(w)
      BY <3>3, SheetIsWritten
    <3>. QED BY <2>2, <3>1, <3>2, <3>3, HandlerFails DEF GoOnWriting
  <2>3. ASSUME Import \/ ImportFails
        PROVE  SheetInv'
    BY <2>3, SheetUntouched DEF Import, ReadSheet, Upsert, ImportFails
  <2>4. ASSUME NEW p \in Phone, LosesConnection(p) \/ Connects(p) \/ IsLoggedOut(p)
        PROVE  SheetInv'
    BY <2>4, SheetUntouched DEF LosesConnection, Connects, IsLoggedOut
  <2>5. ASSUME NEW g \in Listener, TellRuntime(g) \/ UpdateFails(g) \/ TellBot(g)
        PROVE  SheetInv'
    <3>1. CASE TellRuntime(g) \/ UpdateFails(g)
      BY <3>1, SheetUntouched DEF TellRuntime, UpdateFails, LeaveRuntime
    <3>. QED BY <2>5, <3>1, SheetIsNotTold
  <2>6. ASSUME RestartDaemon
        PROVE  SheetInv'
    BY <2>6, SheetUntouched DEF RestartDaemon
  <2>7. ASSUME UNCHANGED rosterOnly
        PROVE  SheetInv'
    BY <2>7, SheetUntouched DEF rosterOnly
  <2>8. ASSUME RestartBot
        PROVE  SheetInv'
    BY <2>8, BotStarts DEF RestartBot
  <2>9. RosterNext => SheetInv'
    BY <2>1, <2>2, <2>3, <2>4, <2>5, <2>6 DEF RosterNext
  <2>. QED BY <2>7, <2>8, <2>9 DEF Next, vars, rosterVars
<1>. QED BY <1>1, <1>2, SheetEnough, PTL DEF Spec

------------------------------------------------------------------------------
(* Types. The greatest id exists because the strict subsets of a finite    *)
(* set are well-founded: of the subsets without a greatest element, a      *)
(* minimal one would have one.                                             *)

LEMMA GreatestExists ==
  ASSUME NEW S, IsFiniteSet(S), S \subseteq Nat, S # {}
  PROVE  Greatest(S) \in S /\ \A j \in S : j <= Greatest(S)
<1>. DEFINE Least == {T \in SUBSET S : T # {} /\ ~ \E m \in T : \A j \in T : j <= m}
<1>1. Least = {}
  <2> SUFFICES ASSUME Least # {}
               PROVE  FALSE
    OBVIOUS
  <2>1. IsWellFoundedOn(StrictSubsetOrdering(S), SUBSET S)
    BY FS_StrictSubsetOrderingWellFounded, FS_FiniteSubsetsOfFinite
  <2>2. PICK T \in Least : \A U \in Least : <<U, T>> \notin StrictSubsetOrdering(S)
    <3>1. Least \subseteq SUBSET S
      OBVIOUS
    <3>. HIDE DEF Least
    <3>. QED BY <2>1, <3>1, WFMin
  <2>3. T \subseteq S /\ T # {} /\ ~ \E m \in T : \A j \in T : j <= m
    OBVIOUS
  <2>4. PICK x \in T : TRUE
    BY <2>3
  <2>5. T \ {x} \notin Least
    BY <2>2, <2>3, <2>4 DEF StrictSubsetOrdering
  <2>6. CASE T \ {x} = {}
    BY <2>3, <2>4, <2>6
  <2>7. CASE T \ {x} # {}
    <3>1. PICK m \in T \ {x} : \A j \in T \ {x} : j <= m
      BY <2>3, <2>5, <2>7
    <3>2. \A j \in T : j <= m \/ j = x
      BY <3>1
    <3>3. m \in Nat /\ x \in Nat
      BY <2>3, <2>4, <3>1
    <3>4. CASE x <= m
      BY <2>3, <3>1, <3>2, <3>4
    <3>5. CASE m < x
      BY <2>3, <2>4, <3>2, <3>3, <3>5
    <3>. QED BY <3>3, <3>4, <3>5
  <2>. QED BY <2>6, <2>7
<1>2. \E m \in S : \A j \in S : j <= m
  BY <1>1
<1>. QED BY <1>2 DEF Greatest

(* The entries of a table can be numbered by their ids.                    *)
LEMMA EveryRankIsTaken ==
  ASSUME NEW S, IsFiniteSet(S), S \subseteq Nat
  PROVE  \A n \in 1..Cardinality(S) : \E e \in S : Cardinality({d \in S : d < e}) = n - 1
<1>. DEFINE Ranked(T) == \A n \in 1..Cardinality(T) :
                           \E e \in T : Cardinality({d \in T : d < e}) = n - 1
            Bad == {T \in SUBSET S : ~Ranked(T)}
<1>1. Bad = {}
  <2> SUFFICES ASSUME Bad # {}
               PROVE  FALSE
    OBVIOUS
  <2>1. IsWellFoundedOn(StrictSubsetOrdering(S), SUBSET S)
    BY FS_StrictSubsetOrderingWellFounded, FS_FiniteSubsetsOfFinite
  <2>2. PICK T \in Bad : \A U \in Bad : <<U, T>> \notin StrictSubsetOrdering(S)
    <3>1. Bad \subseteq SUBSET S
      OBVIOUS
    <3>. HIDE DEF Bad
    <3>. QED BY <2>1, <3>1, WFMin
  <2>3. T \subseteq S /\ ~Ranked(T) /\ IsFiniteSet(T)
    BY FS_Subset
  <2>4. T # {}
    <3>1. ASSUME T = {}
          PROVE  Ranked(T)
      BY <3>1, FS_EmptySet
    <3>. QED BY <2>3, <3>1
  <2>. DEFINE m == Greatest(T)
              U == T \ {m}
  <2>5. m \in T /\ (\A j \in T : j <= m) /\ T \subseteq Nat
    BY <2>3, <2>4, GreatestExists
  <2>. HIDE DEF m
  <2>6. U \in SUBSET S /\ <<U, T>> \in StrictSubsetOrdering(S)
    BY <2>3, <2>5 DEF StrictSubsetOrdering
  <2>7. Ranked(U)
    BY <2>2, <2>6
  <2>8. Cardinality(T) \in Nat /\ Cardinality(U) = Cardinality(T) - 1
    BY <2>3, <2>5, FS_RemoveElement, FS_CardinalityType
  <2>9. ASSUME NEW n \in 1..Cardinality(T)
        PROVE  \E e \in T : Cardinality({d \in T : d < e}) = n - 1
    <3>1. CASE n = Cardinality(T)
      <4>1. \A d \in T : d < m <=> d # m
        BY <2>5
      <4>2. {d \in T : d < m} = U
        BY <4>1
      <4>. QED BY <2>5, <2>8, <3>1, <4>2
    <3>2. CASE n # Cardinality(T)
      <4>1. n \in 1..Cardinality(U)
        BY <2>8, <2>9, <3>2
      <4>2. PICK e \in U : Cardinality({d \in U : d < e}) = n - 1
        BY <2>7, <4>1
      <4>3. {d \in U : d < e} = {d \in T : d < e}
        BY <2>5, <4>2
      <4>. QED BY <4>2, <4>3
    <3>. QED BY <3>1, <3>2
  <2>. QED BY <2>3, <2>9
<1>. QED BY <1>1

Entry == (Nat \ {0}) \X Phone

(* As many entries as ids, of all the ids or of some.                      *)
LEMMA EntriesCounted ==
  ASSUME NEW t, NEW S, IsFiniteSet(S)
  PROVE  LET E == {<<id, t[id].phone>> : id \in S}
         IN  IsFiniteSet(E) /\ Cardinality(E) = Cardinality(S)
<1>. DEFINE E == {<<id, t[id].phone>> : id \in S}
            f == [id \in S |-> <<id, t[id].phone>>]
<1>1. f \in Surjection(S, E)
  BY DEF Surjection
<1>2. f \in Injection(S, E)
  <2>1. f \in [S -> E]
    OBVIOUS
  <2>2. ASSUME NEW a \in S, NEW b \in S, f[a] = f[b]
        PROVE  a = b
    BY <2>2
  <2>. QED BY <2>1, <2>2 DEF Injection, IsInjective
<1>. QED BY <1>1, <1>2, FS_Surjection

(* What a sync writes are entries of the table.                            *)
LEMMA TableRowsAreEntries ==
  ASSUME NEW t, IsFiniteSet(DOMAIN t),
         \A id \in DOMAIN t : id \in Nat \ {0} /\ t[id].phone \in Phone
  PROVE  TableRows(t) \in Seq(Entry)
<1>. DEFINE entries == {<<id, t[id].phone>> : id \in DOMAIN t}
            lower(e) == {d \in entries : d[1] < e[1]}
            entry(n) == CHOOSE e \in entries : Cardinality(lower(e)) = n - 1
            size == Cardinality(DOMAIN t)
<1>1. Cardinality(entries) = size /\ size \in Nat
  BY EntriesCounted, FS_CardinalityType
<1>2. ASSUME NEW n \in 1..size
      PROVE  entry(n) \in Entry
  <2>1. PICK id \in DOMAIN t : Cardinality({d \in DOMAIN t : d < id}) = n - 1
    BY EveryRankIsTaken
  <2>. DEFINE e == <<id, t[id].phone>>
              S == {d \in DOMAIN t : d < id}
  <2>2. lower(e) = {<<d, t[d].phone>> : d \in S}
    OBVIOUS
  <2>3. IsFiniteSet(S)
    BY FS_Subset
  <2>4. Cardinality(lower(e)) = n - 1
    <3>1. Cardinality({<<d, t[d].phone>> : d \in S}) = Cardinality(S)
      BY <2>3, EntriesCounted
    <3>. HIDE DEF lower, e
    <3>. QED BY <2>1, <2>2, <3>1
  <2>5. e \in entries
    OBVIOUS
  <2>6. entry(n) \in entries
    BY <2>4, <2>5
  <2>7. entries \subseteq Entry
    BY DEF Entry
  <2>. QED BY <2>6, <2>7
<1>3. TableRows(t) = [n \in 1..size |-> entry(n)]
  BY <1>1 DEF TableRows, ById
<1>. HIDE DEF entry
<1>. QED BY <1>1, <1>2, <1>3

Sheets == [header : BOOLEAN, rows : Seq(Entry)]

TableOK ==
  /\ IsFiniteSet(DOMAIN rows)
  /\ \A id \in DOMAIN rows :
       id \in Nat \ {0} /\ rows[id] \in [phone : Phone, status : {"active", "revoked"}]
  /\ \A id, other \in DOMAIN rows : rows[id].phone = rows[other].phone => id = other

Handlers == [pc : {"idle", "persist", "erase", "sync", "clear", "update", "format"},
             phone : SUBSET Phone, rows : Seq(Entry), tries : Int]

HandlersOK ==
  /\ writer \in [Writer -> Handlers]
  /\ \A w \in Writer : writer[w].pc = "persist" => \E p \in Phone : writer[w].phone = {p}

IsSession(s) ==
  /\ s = [stored |-> s.stored, pool |-> s.pool, client |-> s.client]
  /\ s.pool \in {"none", "down", "up", "dead"}

DaemonOK ==
  /\ \A id \in DOMAIN runtime :
       runtime[id] \in [phone : Phone, status : SettledStatus \union {"auth_required"}]
  /\ session = [p \in Phone |-> session[p]]
  /\ \A p \in Phone : IsSession(session[p])

TypeInv ==
  /\ TableOK /\ HandlersOK /\ DaemonOK
  /\ sheet \in Sheets /\ fetched \in Sheets
  /\ spent \in 0..MaxMoves

LEMMA TypeEnough == TypeInv => RosterTypeOK
  BY DEF TypeInv, TableOK, DaemonOK, IsSession, RosterTypeOK

LEMMA SessionChanges ==
  ASSUME NEW s, IsSession(s), NEW b, NEW pool \in {"none", "down", "up", "dead"}
  PROVE  /\ IsSession([s EXCEPT !.stored = b])
         /\ IsSession([s EXCEPT !.pool = pool])
         /\ IsSession([[s EXCEPT !.pool = pool] EXCEPT !.stored = b])
<1>1. PICK x, y, z : s = [stored |-> x, pool |-> y, client |-> z]
  BY DEF IsSession
<1>2. [s EXCEPT !.stored = b] = [stored |-> b, pool |-> y, client |-> z]
  BY <1>1
<1>3. [s EXCEPT !.pool = pool] = [stored |-> x, pool |-> pool, client |-> z]
  BY <1>1
<1>4. y \in {"none", "down", "up", "dead"}
  BY <1>1 DEF IsSession
<1>5. IsSession([stored |-> b, pool |-> y, client |-> z])
  BY <1>4 DEF IsSession
<1>6. IsSession([stored |-> x, pool |-> pool, client |-> z])
  BY DEF IsSession
<1>. DEFINE t == [s EXCEPT !.pool = pool]
<1>7. t = [stored |-> x, pool |-> pool, client |-> z]
  BY <1>3
<1>. HIDE DEF t
<1>8. [t EXCEPT !.stored = b] = [stored |-> b, pool |-> pool, client |-> z]
  BY <1>7
<1>9. IsSession([stored |-> b, pool |-> pool, client |-> z])
  BY DEF IsSession
<1>. QED BY <1>2, <1>3, <1>5, <1>6, <1>8, <1>9 DEF t

LEMMA Blanks == Blank \in Sheets /\ Blank = [header |-> FALSE, rows |-> << >>]
  BY DEF Blank, Sheets

LEMMA AtIsTyped ==
  ASSUME NEW pc \in {"idle", "persist", "erase", "sync"}, NEW S \in SUBSET Phone
  PROVE  /\ At(pc, S) \in Handlers
         /\ At(pc, S).pc = pc /\ At(pc, S).phone = S
  BY DEF At, Handlers

LEMMA OneMove == TypeInv /\ (Spend \/ UNCHANGED spent) => spent' \in 0..MaxMoves
  BY RosterAssumption DEF TypeInv, Spend

(* A new account has an id of its own.                                     *)
LEMMA NextIdIsNew ==
  ASSUME TableOK
  PROVE  NextId \in Nat \ {0} /\ NextId \notin DOMAIN rows
<1>1. CASE DOMAIN rows = {}
  BY <1>1 DEF NextId
<1>2. CASE DOMAIN rows # {}
  <2>1. DOMAIN rows \subseteq Nat /\ IsFiniteSet(DOMAIN rows)
    BY DEF TableOK
  <2>2. /\ Greatest(DOMAIN rows) \in DOMAIN rows
        /\ \A j \in DOMAIN rows : j <= Greatest(DOMAIN rows)
    BY <1>2, <2>1, GreatestExists
  <2>. QED BY <1>2, <2>1, <2>2 DEF NextId
<1>. QED BY <1>1, <1>2

LEMMA TypeStarts == RosterInit => TypeInv
<1> SUFFICES ASSUME RosterInit
             PROVE  TypeInv
  OBVIOUS
<1>1. TableOK
  BY RosterAssumption DEF RosterInit, TableOK
<1>2. HandlersOK
  BY AtIsTyped DEF RosterInit, HandlersOK, NoWriter
<1>3. DaemonOK
  BY RosterAssumption DEF RosterInit, DaemonOK, IsSession, SettledStatus
<1>4. TableRows(rows) \in Seq(Entry)
  BY <1>1, TableRowsAreEntries DEF TableOK
<1>5. sheet \in Sheets /\ fetched \in Sheets
  BY <1>4, Blanks DEF RosterInit, Sheets
<1>. QED BY <1>1, <1>2, <1>3, <1>5, RosterAssumption DEF RosterInit, TypeInv

(* Steps of one handler leave it typed if its new state is.                *)
LEMMA HandlerMoves ==
  ASSUME HandlersOK, NEW w \in Writer, NEW x, writer' = [writer EXCEPT ![w] = x],
         x \in Handlers,
         x.pc = "persist" => \E p \in Phone : x.phone = {p}
  PROVE  HandlersOK'
  BY DEF HandlersOK

LEMMA HandlerStepsOn ==
  ASSUME HandlersOK, NEW w \in Writer, NEW pc \in {"sync", "clear", "update", "format"},
         writer' = [writer EXCEPT ![w].pc = pc]
  PROVE  HandlersOK'
  BY DEF HandlersOK, Handlers

LEMMA AccountChangesTyped ==
  ASSUME TypeInv, NEW w \in Writer, NEW p \in Phone, Authorized(w, p) \/ BeginDelete(w, p)
  PROVE  TypeInv'
<1>1. PICK pc \in {"persist", "erase"} : writer' = [writer EXCEPT ![w] = At(pc, {p})]
  BY DEF Authorized, BeginDelete
<1>2. HandlersOK'
  <2>1. /\ At(pc, {p}) \in Handlers
        /\ At(pc, {p}).phone = {p}
    BY AtIsTyped
  <2>. QED BY <1>1, <2>1, HandlerMoves DEF TypeInv
<1>3. DaemonOK'
  <2>1. runtime' = runtime
    BY DEF Authorized, BeginDelete
  <2>2. PICK s : IsSession(s) /\ session' = [session EXCEPT ![p] = s]
    <3>1. CASE Authorized(w, p)
      <4>1. IsSession([session[p] EXCEPT !.stored = TRUE])
        BY SessionChanges DEF TypeInv, DaemonOK
      <4>2. IsSession([stored |-> TRUE, pool |-> "down", client |-> session[p].client + 1])
        BY DEF IsSession
      <4>. HIDE DEF IsSession
      <4>. QED BY <3>1, <4>1, <4>2 DEF Authorized
    <3>2. CASE BeginDelete(w, p) /\ UNCHANGED session
      BY <3>2 DEF TypeInv, DaemonOK
    <3>3. CASE BeginDelete(w, p) /\ session' = [session EXCEPT ![p].stored = FALSE,
                                                               ![p].pool = "none"]
      <4>. DEFINE r == [session[p] EXCEPT !.stored = FALSE]
      <4>1. IsSession(r)
        BY SessionChanges DEF TypeInv, DaemonOK
      <4>2. session' = [[session EXCEPT ![p] = r] EXCEPT ![p].pool = "none"]
        BY <3>3 DEF TypeInv, DaemonOK
      <4>. HIDE DEF r
      <4>3. session' = [session EXCEPT ![p] = [r EXCEPT !.pool = "none"]]
        BY <4>2 DEF TypeInv, DaemonOK
      <4>4. IsSession([r EXCEPT !.pool = "none"])
        BY <4>1, SessionChanges
      <4>. QED BY <4>3, <4>4
    <3>. QED BY <3>1, <3>2, <3>3 DEF BeginDelete
  <2>. QED BY <2>1, <2>2 DEF TypeInv, DaemonOK
<1>4. UNCHANGED <<rows, sheet, fetched>> /\ Spend
  BY DEF Authorized, BeginDelete
<1>. QED BY <1>2, <1>3, <1>4, OneMove DEF TypeInv, TableOK

LEMMA PersistTyped ==
  ASSUME TypeInv, NEW w \in Writer, Persist(w)
  PROVE  TypeInv'
<1>1. PICK p \in Phone : writer[w].phone = {p}
  BY DEF TypeInv, HandlersOK, Persist
<1>2. p = CHOOSE q \in writer[w].phone : TRUE
  BY <1>1
<1>. DEFINE row == [phone |-> p, status |-> "active"]
<1>3. rows' = IF RowsOf(rows, p) # {}
                THEN [id \in DOMAIN rows |-> IF rows[id].phone = p THEN row ELSE rows[id]]
                ELSE [id \in DOMAIN rows \union {NextId} |->
                        IF id \in DOMAIN rows THEN rows[id] ELSE row]
  BY <1>2 DEF Persist
<1>4. TableOK'
  <2>1. CASE RowsOf(rows, p) # {}
    BY <1>3, <2>1 DEF TypeInv, TableOK
  <2>2. CASE RowsOf(rows, p) = {}
    <3>1. DOMAIN rows' = DOMAIN rows \union {NextId}
      BY <1>3, <2>2
    <3>2. NextId \in Nat \ {0} /\ NextId \notin DOMAIN rows
      BY NextIdIsNew DEF TypeInv
    <3>3. rows'[NextId] = row /\ \A id \in DOMAIN rows : rows'[id] = rows[id]
      BY <1>3, <2>2, <3>2
    <3>4. \A id \in DOMAIN rows : rows[id].phone # p
      BY <2>2 DEF RowsOf
    <3>5. IsFiniteSet(DOMAIN rows')
      BY <3>1, FS_AddElement DEF TypeInv, TableOK
    <3>. HIDE DEF row
    <3>6. row.phone = p /\ row \in [phone : Phone, status : {"active", "revoked"}]
      BY DEF row
    <3>. QED BY <3>1, <3>2, <3>3, <3>4, <3>5, <3>6 DEF TypeInv, TableOK
  <2>. QED BY <2>1, <2>2
<1>5. HandlersOK'
  BY HandlerStepsOn DEF TypeInv, Persist
<1>6. UNCHANGED <<sheet, runtime, fetched, session, spent>>
  BY DEF Persist
<1>. QED BY <1>4, <1>5, <1>6 DEF TypeInv, DaemonOK

LEMMA EraseTyped ==
  ASSUME TypeInv, NEW w \in Writer, Erase(w)
  PROVE  TypeInv'
<1>1. DOMAIN rows' \subseteq DOMAIN rows /\ \A id \in DOMAIN rows' : rows'[id] = rows[id]
  BY DEF Erase
<1>2. TableOK'
  BY <1>1, FS_Subset DEF TypeInv, TableOK
<1>3. HandlersOK'
  BY HandlerStepsOn DEF TypeInv, Erase
<1>. QED BY <1>2, <1>3 DEF TypeInv, DaemonOK, Erase

LEMMA HandlerFailsTyped ==
  ASSUME TypeInv, NEW w \in Writer, WriterFails(w)
  PROVE  TypeInv'
<1>1. /\ NoWriter \in Handlers
      /\ NoWriter.pc = "idle"
  BY AtIsTyped DEF NoWriter
<1>2. HandlersOK'
  BY <1>1, HandlerMoves DEF TypeInv, WriterFails
<1>. QED BY <1>2, OneMove DEF TypeInv, TableOK, DaemonOK, WriterFails

LEMMA SheetStepsTyped ==
  ASSUME TypeInv, NEW w \in Writer,
         ReadTable(w) \/ ClearSheet(w) \/ UpdateSheet(w) \/ FormatSheet(w) \/ SheetFails(w)
  PROVE  TypeInv'
<1>1. HandlersOK'
  <2>1. CASE ReadTable(w)
    <3>. DEFINE x == [pc |-> "clear", phone |-> {}, rows |-> TableRows(rows), tries |-> Retries]
    <3>1. TableRows(rows) \in Seq(Entry)
      BY TableRowsAreEntries DEF TypeInv, TableOK
    <3>2. x \in Handlers
      BY <3>1, RosterAssumption DEF Handlers
    <3>3. writer' = [writer EXCEPT ![w] = x] /\ x.pc # "persist"
      BY <2>1 DEF ReadTable
    <3>. HIDE DEF x
    <3>. QED BY <3>2, <3>3, HandlerMoves DEF TypeInv
  <2>2. CASE ClearSheet(w) \/ UpdateSheet(w)
    BY <2>2, HandlerStepsOn DEF TypeInv, ClearSheet, UpdateSheet
  <2>3. CASE writer' = [writer EXCEPT ![w] = NoWriter]
    <3>1. /\ NoWriter \in Handlers
          /\ NoWriter.pc = "idle"
      BY AtIsTyped DEF NoWriter
    <3>. QED BY <2>3, <3>1, HandlerMoves DEF TypeInv
  <2>4. CASE writer' = [writer EXCEPT ![w].pc = "clear", ![w].tries = @ - 1]
    <3>. DEFINE y == [writer EXCEPT ![w].pc = "clear"]
    <3>1. /\ y \in [Writer -> Handlers]
          /\ \A v \in Writer : y[v].pc = "persist" => \E p \in Phone : y[v].phone = {p}
      BY DEF TypeInv, HandlersOK, Handlers
    <3>2. writer' = [y EXCEPT ![w].tries = @ - 1]
      BY <2>4
    <3>. HIDE DEF y
    <3>3. \A v \in Writer : /\ writer'[v].pc = y[v].pc /\ writer'[v].phone = y[v].phone
                            /\ writer'[v].rows = y[v].rows
      BY <3>1, <3>2
    <3>4. writer' \in [Writer -> Handlers]
      <4>. DEFINE z == y[w]
      <4>1. z \in Handlers
        BY <3>1
      <4>2. writer' = [y EXCEPT ![w] = [z EXCEPT !.tries = z.tries - 1]]
        BY <3>2
      <4>. HIDE DEF z
      <4>3. [z EXCEPT !.tries = z.tries - 1] \in Handlers
        BY <4>1 DEF Handlers
      <4>. QED BY <3>1, <4>2, <4>3
    <3>. QED BY <3>1, <3>3, <3>4 DEF HandlersOK
  <2>. QED BY <2>1, <2>2, <2>3, <2>4 DEF FormatSheet, SheetFails
<1>2. sheet' \in Sheets
  <2>1. CASE ClearSheet(w)
    BY <2>1, Blanks DEF ClearSheet
  <2>2. CASE UpdateSheet(w)
    <3>. DEFINE new == writer[w].rows
                m == Greatest({Len(new), Len(sheet.rows)})
    <3>1. new \in Seq(Entry) /\ sheet.rows \in Seq(Entry)
      BY DEF TypeInv, HandlersOK, Handlers, Sheets
    <3>2. \A a, b \in Nat : /\ Greatest({a, b}) \in Nat
                            /\ Greatest({a, b}) = a \/ Greatest({a, b}) = b
                            /\ Greatest({a, b}) >= a /\ Greatest({a, b}) >= b
      BY DEF Greatest
    <3>. DEFINE old == sheet.rows
                e(i) == IF i <= Len(new) THEN new[i] ELSE old[i]
    <3>3. Len(new) \in Nat /\ Len(old) \in Nat
      BY <3>1
    <3>4. m \in Nat /\ (m = Len(new) \/ m = Len(old))
      BY <3>2, <3>3
    <3>. HIDE DEF m, new, old
    <3>5. ASSUME NEW i \in 1..m
          PROVE  e(i) \in Entry
      <4>1. CASE i <= Len(new)
        BY <3>1, <3>3, <4>1, <3>5 DEF old
      <4>2. CASE ~(i <= Len(new))
        <5>1. i \in 1..Len(old)
          BY <3>3, <3>4, <3>5, <4>2
        <5>2. old[i] \in Entry
          BY <3>1, <5>1 DEF old
        <5>. QED BY <4>2, <5>2
      <4>. QED BY <4>1, <4>2
    <3>. HIDE DEF e
    <3>6. [i \in 1..m |-> e(i)] \in Seq(Entry)
      BY <3>4, <3>5
    <3>7. sheet' = [header |-> TRUE, rows |-> [i \in 1..m |-> e(i)]]
      BY <2>2 DEF UpdateSheet, m, e, new, old
    <3>. QED BY <3>6, <3>7 DEF Sheets
  <2>3. CASE UNCHANGED sheet
    BY <2>3 DEF TypeInv
  <2>. QED BY <2>1, <2>2, <2>3 DEF ReadTable, FormatSheet, SheetFails
<1>3. UNCHANGED <<rows, runtime, fetched, session>> /\ (Spend \/ UNCHANGED spent)
  BY DEF ReadTable, ClearSheet, UpdateSheet, FormatSheet, SheetFails
<1>. QED BY <1>1, <1>2, <1>3, OneMove DEF TypeInv, TableOK, DaemonOK

LEMMA ImportTyped ==
  ASSUME TypeInv, Import \/ ImportFails
  PROVE  TypeInv'
<1>1. CASE ReadSheet
  BY <1>1 DEF TypeInv, TableOK, HandlersOK, DaemonOK, ReadSheet
<1>2. CASE Upsert
  <2>. DEFINE new == fetched.rows
              ids == {new[i][1] : i \in DOMAIN new}
              At1(id) == {i \in DOMAIN new : new[i][1] = id}
              PhoneIn(id) == new[Greatest(At1(id))][2]
  <2>1. new \in Seq(Entry) /\ Len(new) \in Nat /\ DOMAIN new = 1..Len(new)
    BY DEF TypeInv, Sheets
  <2>2. ASSUME NEW id \in ids
        PROVE  PhoneIn(id) \in Phone
    <3>1. IsFiniteSet(1..Len(new))
      BY <2>1, FS_Interval
    <3>2. At1(id) # {} /\ At1(id) \subseteq 1..Len(new)
      BY <2>1, <2>2
    <3>3. IsFiniteSet(At1(id)) /\ At1(id) \subseteq Nat
      BY <2>1, <3>1, <3>2, FS_Subset
    <3>. HIDE DEF At1
    <3>4. Greatest(At1(id)) \in 1..Len(new)
      BY <3>2, <3>3, GreatestExists
    <3>. QED BY <2>1, <3>4 DEF Entry
  <2>3. ASSUME NEW id
        PROVE  StatusAfterImport(id) \in SettledStatus \union {"auth_required"}
    BY DEF StatusAfterImport
  <2>4. runtime' = [id \in DOMAIN runtime \union ids |->
                      IF id \in ids THEN [phone |-> PhoneIn(id), status |-> StatusAfterImport(id)]
                                    ELSE runtime[id]]
    BY <1>2 DEF Upsert
  <2>. HIDE DEF ids, PhoneIn
  <2>5. \A id \in DOMAIN runtime' :
          runtime'[id] \in [phone : Phone, status : SettledStatus \union {"auth_required"}]
    <3>. SUFFICES ASSUME NEW id \in DOMAIN runtime'
                  PROVE  runtime'[id] \in [phone : Phone,
                                           status : SettledStatus \union {"auth_required"}]
      OBVIOUS
    <3>1. CASE id \in ids
      BY <2>2, <2>3, <2>4, <3>1
    <3>2. CASE id \notin ids
      BY <2>4, <3>2 DEF TypeInv, DaemonOK
    <3>. QED BY <3>1, <3>2
  <2>6. fetched' \in Sheets /\ UNCHANGED <<rows, sheet, writer, session, spent>>
    BY <1>2, Blanks DEF Upsert
  <2>. QED BY <2>5, <2>6 DEF TypeInv, TableOK, HandlersOK, DaemonOK
<1>3. CASE ImportFails
  BY <1>3, Blanks, OneMove DEF TypeInv, TableOK, HandlersOK, DaemonOK, ImportFails
<1>. QED BY <1>1, <1>2, <1>3 DEF Import

LEMMA ConnectionsTyped ==
  ASSUME TypeInv, NEW p \in Phone, LosesConnection(p) \/ Connects(p) \/ IsLoggedOut(p)
  PROVE  TypeInv'
<1>1. PICK s : IsSession(s) /\ session' = [session EXCEPT ![p] = s]
  <2>1. CASE LosesConnection(p)
    BY <2>1, SessionChanges DEF LosesConnection, Happens, TypeInv, DaemonOK
  <2>2. CASE Connects(p)
    BY <2>2, SessionChanges DEF Connects, Happens, TypeInv, DaemonOK
  <2>3. CASE IsLoggedOut(p)
    <3>. DEFINE s == [session[p] EXCEPT !.pool = "dead", !.stored = FALSE]
                r == [[session[p] EXCEPT !.pool = "dead"] EXCEPT !.stored = FALSE]
    <3>1. s = r
      OBVIOUS
    <3>2. IsSession(r)
      BY SessionChanges DEF TypeInv, DaemonOK
    <3>3. session' = [session EXCEPT ![p] = s]
      BY <2>3 DEF IsLoggedOut, Happens
    <3>. HIDE DEF s, r
    <3>. QED BY <3>1, <3>2, <3>3
  <2>. QED BY <2>1, <2>2, <2>3
<1>2. DaemonOK'
  BY <1>1 DEF TypeInv, DaemonOK, LosesConnection, Connects, IsLoggedOut
<1>3. UNCHANGED <<rows, sheet, writer, fetched>> /\ (Spend \/ UNCHANGED spent)
  BY DEF LosesConnection, Connects, IsLoggedOut
<1>. QED BY <1>2, <1>3, OneMove DEF TypeInv, TableOK, HandlersOK

LEMMA EventsTyped ==
  ASSUME TypeInv, StatusInv, NEW g \in Listener,
         TellRuntime(g) \/ UpdateFails(g) \/ TellBot(g)
  PROVE  TypeInv'
<1>1. event[g].status \in {"ready", "disconnected", "blocked"}
  BY DEF StatusInv, EventsOK, TellRuntime, UpdateFails, LeaveRuntime, TellBot
<1>2. CASE TellRuntime(g)
  <2>1. PICK hit : runtime' = [id \in DOMAIN runtime |->
                                 IF id \in hit
                                   THEN [runtime[id] EXCEPT !.status = event[g].status]
                                   ELSE runtime[id]]
    BY <1>2 DEF TellRuntime
  <2>2. DaemonOK'
    BY <1>1, <1>2, <2>1 DEF TypeInv, DaemonOK, TellRuntime, LeaveRuntime, SettledStatus
  <2>. QED BY <1>2, <2>2 DEF TypeInv, TableOK, HandlersOK, TellRuntime, LeaveRuntime
<1>3. CASE UpdateFails(g)
  BY <1>3, OneMove DEF TypeInv, TableOK, HandlersOK, DaemonOK, UpdateFails, LeaveRuntime
<1>4. CASE TellBot(g)
  <2>1. TableOK'
    <3>1. CASE UNCHANGED rows
      BY <3>1 DEF TypeInv, TableOK
    <3>2. CASE rows' # rows
      BY <1>4, <3>2 DEF TypeInv, TableOK, TellBot
    <3>. QED BY <3>1, <3>2
  <2>2. Spend \/ UNCHANGED spent
    BY <1>4 DEF TellBot
  <2>. QED BY <1>4, <2>1, <2>2, OneMove DEF TypeInv, HandlersOK, DaemonOK, TellBot
<1>. QED BY <1>2, <1>3, <1>4

LEMMA RestartsTyped ==
  ASSUME TypeInv,
         \/ RestartDaemon
         \/ Spend /\ \E w \in Writer : BeginWithSync(w)
  PROVE  TypeInv'
<1>1. CASE RestartDaemon
  <2>1. DaemonOK'
    <3>1. \A p \in Phone : IsSession([stored |-> TRUE, pool |-> "down",
                                      client |-> session[p].client + 1])
      BY DEF IsSession
    <3>2. \A p \in Phone : IsSession([session[p] EXCEPT !.pool = "none"])
      BY SessionChanges DEF TypeInv, DaemonOK
    <3>3. \A p \in Phone : IsSession(session'[p])
      BY <1>1, <3>1, <3>2 DEF RestartDaemon
    <3>. QED BY <1>1, <3>3 DEF TypeInv, DaemonOK, RestartDaemon
  <2>. QED BY <1>1, <2>1, OneMove, Blanks DEF TypeInv, TableOK, HandlersOK, RestartDaemon
<1>2. ASSUME NEW w \in Writer, BeginWithSync(w), Spend
      PROVE  TypeInv'
  <2>1. writer' = [v \in Writer |-> IF v = w THEN At("sync", {}) ELSE NoWriter]
    BY <1>2 DEF BeginWithSync
  <2>2. HandlersOK'
    BY <2>1, AtIsTyped DEF HandlersOK, NoWriter
  <2>. QED BY <1>2, <2>2, OneMove DEF TypeInv, TableOK, DaemonOK, BeginWithSync
<1>. QED BY <1>1, <1>2

LEMMA TypesInvariant == Spec => [](TypeInv /\ StatusInv)
<1>. DEFINE IInv == TypeInv /\ StatusInv
<1>1. Init => IInv
  BY TypeStarts, StatusStarts DEF Init
<1>2. StatusInv /\ [Next]_vars => StatusInv'
  BY StatusKeptByNext
<1>3. IInv /\ [Next]_vars => TypeInv'
  <2> SUFFICES ASSUME TypeInv, StatusInv, [Next]_vars
               PROVE  TypeInv'
    OBVIOUS
  <2>1. ASSUME NEW w \in Writer, NEW p \in Phone, Authorized(w, p) \/ BeginDelete(w, p)
        PROVE  TypeInv'
    BY <2>1, AccountChangesTyped
  <2>2. ASSUME NEW w \in Writer, GoOnWriting(w) \/ WriterFails(w) \/ SheetFails(w)
        PROVE  TypeInv'
    BY <2>2, PersistTyped, EraseTyped, HandlerFailsTyped, SheetStepsTyped DEF GoOnWriting
  <2>3. ASSUME NEW p \in Phone, LosesConnection(p) \/ Connects(p) \/ IsLoggedOut(p)
        PROVE  TypeInv'
    BY <2>3, ConnectionsTyped
  <2>4. ASSUME NEW g \in Listener, TellRuntime(g) \/ UpdateFails(g) \/ TellBot(g)
        PROVE  TypeInv'
    BY <2>4, EventsTyped
  <2>5. RosterNext => TypeInv'
    BY <2>1, <2>2, <2>3, <2>4, ImportTyped, RestartsTyped DEF RosterNext
  <2>6. RestartBot => TypeInv'
    BY RestartsTyped DEF RestartBot
  <2>7. UNCHANGED rosterOnly /\ (Spend \/ UNCHANGED spent) => TypeInv'
    BY OneMove DEF rosterOnly, TypeInv, TableOK, HandlersOK, DaemonOK
  <2>. QED BY <2>5, <2>6, <2>7 DEF Next, vars, rosterVars
<1>. QED BY <1>1, <1>2, <1>3, PTL DEF Spec

(* For every number of accounts, handlers and moves: every variable has    *)
(* its type and no phone has two rows, also when ids are used again        *)
(* (accounts_auth.py).                                                     *)
THEOREM RosterTyped == Spec => []RosterTypeOK
BY TypesInvariant, TypeEnough, PTL

------------------------------------------------------------------------------
(* Who is connected. The last thing the daemon's table was told of a phone *)
(* that is connected is "ready", or is about to be, as long as the events  *)
(* of two clients of one phone are never at work together.                 *)

OneClientSpeaks == \A p \in Phone : \A g, h \in EventsOf(p) : g = h

(* No update that says of a phone it is connected fails.                   *)
ConnectionIsTold == \A g \in Listener : UpdateFails(g) => event[g].status # "ready"

(* ConnectedIsAvailable of the rows that were there when the daemon's      *)
(* table was told last.                                                    *)
KnownIsAvailable ==
  \A p \in Phone :
    session[p].pool = "up" /\ EventsOf(p) = {} =>
      \A id \in RowsOf(runtime, p) \intersect told[p].ids : runtime[id].status = "ready"

AboutToTell(p) == {g \in EventsOf(p) : event[g].pc = "runtime"}

LastWord ==
  \A p \in Phone :
    session[p].pool = "up" =>
      /\ \A g \in AboutToTell(p) : event[g].status = "ready"
      /\ told[p].status = "ready" \/ AboutToTell(p) # {}

(* Only a connection connects.                                             *)
LEMMA WhoConnects ==
  ASSUME TypeInv, [Next]_vars, NEW p \in Phone, session'[p].pool = "up"
  PROVE  session[p].pool = "up" \/ Connects(p)
<1>0. /\ session = [q \in Phone |-> session[q]]
      /\ session[p] = [stored |-> session[p].stored, pool |-> session[p].pool,
                       client |-> session[p].client]
  BY DEF TypeInv, DaemonOK, IsSession
<1>1. ASSUME NEW w \in Writer, NEW q \in Phone, Authorized(w, q)
      PROVE  session[p].pool = "up"
  BY <1>0, <1>1 DEF Authorized
<1>2. ASSUME NEW w \in Writer, NEW q \in Phone, BeginDelete(w, q)
      PROVE  session[p].pool = "up"
  <2>1. CASE UNCHANGED session
    BY <2>1
  <2>2. CASE session' = [session EXCEPT ![q].stored = FALSE, ![q].pool = "none"]
    <3>1. q # p => session'[p] = session[p]
      BY <1>0, <2>2
    <3>2. CASE q = p
      <4>. DEFINE r == [session[p] EXCEPT !.stored = FALSE]
                  t == [session EXCEPT ![p] = r]
      <4>1. IsSession(r)
        BY SessionChanges DEF TypeInv, DaemonOK
      <4>2. session' = [t EXCEPT ![p].pool = "none"]
        BY <1>0, <2>2, <3>2
      <4>3. t = [v \in Phone |-> t[v]] /\ t[p] = r
        BY <1>0
      <4>. HIDE DEF t, r
      <4>4. session'[p] = [r EXCEPT !.pool = "none"]
        BY <4>2, <4>3
      <4>5. session'[p].pool = "none"
        BY <4>1, <4>4 DEF IsSession
      <4>. QED BY <4>5
    <3>. QED BY <3>1, <3>2
  <2>. QED BY <1>2, <2>1, <2>2 DEF BeginDelete
<1>3. ASSUME NEW q \in Phone, LosesConnection(q) \/ Connects(q) \/ IsLoggedOut(q), q # p
      PROVE  session'[p] = session[p]
  BY <1>0, <1>3 DEF LosesConnection, Connects, IsLoggedOut, Happens
<1>4. LosesConnection(p) => session'[p].pool = "down"
  BY <1>0 DEF LosesConnection, Happens
<1>5. IsLoggedOut(p) => session'[p].pool = "dead"
  BY <1>0 DEF IsLoggedOut, Happens
<1>6. ~RestartDaemon
  BY <1>0 DEF RestartDaemon
<1>7. CASE UNCHANGED session
  BY <1>7
<1>. QED
  BY <1>1, <1>2, <1>3, <1>4, <1>5, <1>6, <1>7 DEF Next, RosterNext, GoOnWriting, SheetFails,
     Persist, Erase, WriterFails, ReadTable, ClearSheet, UpdateSheet, FormatSheet, Import,
     ReadSheet, Upsert, ImportFails, TellRuntime, UpdateFails, LeaveRuntime, TellBot,
     RestartBot, BeginWithSync, rosterOnly, rosterVars, vars

(* The events of a phone that are about to be told, step by step.          *)
LEMMA WordStep ==
  ASSUME TypeInv, StatusInv, LastWord, OneClientSpeaks', [Next]_vars,
         [ConnectionIsTold]_vars, NEW p \in Phone, session'[p].pool = "up"
  PROVE  /\ \A g \in AboutToTell(p)' : event'[g].status = "ready"
         /\ told'[p].status = "ready" \/ AboutToTell(p)' # {}
<1>0. EventsOK /\ ToldOK
  BY DEF StatusInv
<1>1. CASE Connects(p)
  <2>1. PICK g \in Listener :
          event' = [event EXCEPT ![g] = [pc |-> "runtime", phone |-> {p}, status |-> "ready",
                                         client |-> session[p].client]]
    BY <1>1 DEF Connects, Happens
  <2>2. /\ event'[g].pc = "runtime" /\ event'[g].phone = {p} /\ event'[g].status = "ready"
    BY <1>0, <2>1 DEF EventsOK
  <2>3. \A h \in Listener : event'[h].phone = {p} => h = g
    BY <2>2 DEF OneClientSpeaks, EventsOf
  <2>. QED BY <2>2, <2>3 DEF AboutToTell, EventsOf
<1>2. ASSUME NEW q \in Phone, LosesConnection(q) \/ Connects(q) \/ IsLoggedOut(q), q # p,
             session[p].pool = "up"
      PROVE  AboutToTell(p)' = AboutToTell(p) /\ UNCHANGED told
             /\ \A g \in AboutToTell(p) : event'[g] = event[g]
  <2>1. PICK g \in Listener, s \in {"ready", "disconnected", "blocked"} :
          /\ event[g].pc = "idle"
          /\ event' = [event EXCEPT ![g] = [pc |-> "runtime", phone |-> {q}, status |-> s,
                                            client |-> session[q].client]]
    BY <1>2 DEF LosesConnection, Connects, IsLoggedOut, Happens
  <2>2. /\ event'[g].phone = {q}
        /\ \A h \in Listener \ {g} : event'[h] = event[h]
    BY <1>0, <2>1 DEF EventsOK
  <2>3. g \notin AboutToTell(p) /\ g \notin AboutToTell(p)'
    BY <1>2, <2>1, <2>2 DEF AboutToTell, EventsOf
  <2>4. AboutToTell(p)' = AboutToTell(p) /\ \A h \in AboutToTell(p) : event'[h] = event[h]
    BY <2>2, <2>3 DEF AboutToTell, EventsOf
  <2>. QED BY <1>2, <2>4 DEF LosesConnection, Connects, IsLoggedOut
<1>3. ASSUME NEW g \in Listener, TellRuntime(g) \/ UpdateFails(g), event[g].phone # {p}
      PROVE  /\ AboutToTell(p)' = AboutToTell(p) /\ told'[p] = told[p]
             /\ \A h \in AboutToTell(p) : event'[h] = event[h]
  <2>0. LeaveRuntime(g)
    BY <1>3 DEF TellRuntime, UpdateFails
  <2>1. PICK q \in Phone : event[g].phone = {q}
    BY <1>0, <2>0 DEF LeaveRuntime, EventsOK
  <2>2. q = CHOOSE r \in event[g].phone : TRUE
    BY <2>1
  <2>3. told'[p] = told[p]
    BY <1>0, <1>3, <2>1, <2>2 DEF TellRuntime, UpdateFails, ToldOK
  <2>4. event'[g].pc # "runtime" /\ \A h \in Listener \ {g} : event'[h] = event[h]
    <3>1. CASE event' = [event EXCEPT ![g] = NoEvent]
      BY <1>0, <3>1 DEF EventsOK, NoEvent
    <3>2. CASE event' = [event EXCEPT ![g].pc = "admin"]
      <4>. DEFINE e == [event[g] EXCEPT !.pc = "admin"]
      <4>1. event' = [event EXCEPT ![g] = e]
        BY <1>0, <3>2 DEF EventsOK
      <4>2. e.pc = "admin"
        BY <1>0 DEF EventsOK
      <4>. HIDE DEF e
      <4>. QED BY <1>0, <4>1, <4>2 DEF EventsOK
    <3>. QED BY <2>0, <3>1, <3>2 DEF LeaveRuntime
  <2>5. g \notin AboutToTell(p) /\ g \notin AboutToTell(p)'
    BY <1>3, <2>4 DEF AboutToTell, EventsOf
  <2>6. AboutToTell(p)' = AboutToTell(p) /\ \A h \in AboutToTell(p) : event'[h] = event[h]
    BY <2>4, <2>5 DEF AboutToTell, EventsOf
  <2>. QED BY <2>3, <2>6
<1>4. ASSUME NEW g \in Listener, TellRuntime(g), event[g].phone = {p}, session[p].pool = "up"
      PROVE  /\ AboutToTell(p)' \subseteq AboutToTell(p)
             /\ \A h \in AboutToTell(p)' : event'[h] = event[h]
             /\ told'[p].status = "ready"
  <2>1. p = CHOOSE r \in event[g].phone : TRUE
    BY <1>4
  <2>2. event[g].status = "ready"
    BY <1>4 DEF LastWord, AboutToTell, EventsOf, TellRuntime, LeaveRuntime
  <2>3. told' = [told EXCEPT ![p] = [status |-> event[g].status, ids |-> RowsOf(runtime, p)]]
    BY <1>4, <2>1 DEF TellRuntime
  <2>4. told'[p].status = "ready"
    BY <1>0, <2>2, <2>3 DEF ToldOK
  <2>5. event' = [event EXCEPT ![g].pc = "admin"]
    BY <1>4, <2>2 DEF TellRuntime, LeaveRuntime
  <2>6. event'[g].pc = "admin" /\ \A h \in Listener \ {g} : event'[h] = event[h]
    <3>. DEFINE e == [event[g] EXCEPT !.pc = "admin"]
    <3>1. event' = [event EXCEPT ![g] = e]
      BY <1>0, <2>5 DEF EventsOK
    <3>2. e.pc = "admin"
      BY <1>0 DEF EventsOK
    <3>. HIDE DEF e
    <3>. QED BY <1>0, <3>1, <3>2 DEF EventsOK
  <2>7. \A h \in AboutToTell(p)' : h # g /\ h \in AboutToTell(p)
    BY <2>6 DEF AboutToTell, EventsOf
  <2>. QED BY <2>4, <2>6, <2>7 DEF AboutToTell, EventsOf
<1>5. ASSUME NEW g \in Listener, TellBot(g)
      PROVE  /\ AboutToTell(p)' = AboutToTell(p) /\ UNCHANGED told
             /\ \A h \in AboutToTell(p) : event'[h] = event[h]
  <2>1. /\ event'[g].pc = "idle" /\ event[g].pc = "admin"
        /\ \A h \in Listener \ {g} : event'[h] = event[h]
    BY <1>0, <1>5 DEF TellBot, EventsOK, NoEvent
  <2>2. g \notin AboutToTell(p) /\ g \notin AboutToTell(p)'
    BY <2>1 DEF AboutToTell, EventsOf
  <2>3. AboutToTell(p)' = AboutToTell(p) /\ \A h \in AboutToTell(p) : event'[h] = event[h]
    BY <2>1, <2>2 DEF AboutToTell, EventsOf
  <2>. QED BY <1>5, <2>3 DEF TellBot
<1>6. ASSUME NEW g \in Listener, UpdateFails(g), session[p].pool = "up"
      PROVE  event[g].phone # {p}
  <2>1. event[g].pc = "runtime" /\ event' # event
    BY <1>0, <1>6 DEF UpdateFails, LeaveRuntime, EventsOK, NoEvent
  <2>2. event[g].status # "ready"
    BY <1>6, <2>1 DEF ConnectionIsTold, vars, rosterVars, rosterOnly
  <2>. QED BY <1>6, <2>1, <2>2 DEF LastWord, AboutToTell, EventsOf
<1>7. Upsert => told'[p].status = told[p].status /\ UNCHANGED event
  BY <1>0 DEF Upsert, ToldOK
<1>8. ~RestartDaemon
  BY DEF RestartDaemon, TypeInv, DaemonOK, IsSession
<1>9. CASE ~Connects(p)
  <2>1. session[p].pool = "up"
    BY <1>9, WhoConnects
  <2>2. /\ \A g \in AboutToTell(p) : event[g].status = "ready"
        /\ told[p].status = "ready" \/ AboutToTell(p) # {}
    BY <2>1 DEF LastWord
  <2>3. CASE told'[p].status = told[p].status /\ UNCHANGED event
    BY <2>2, <2>3 DEF AboutToTell, EventsOf
  <2>4. ASSUME NEW q \in Phone, LosesConnection(q) \/ Connects(q) \/ IsLoggedOut(q)
        PROVE  q # p
    <3>0. session = [r \in Phone |-> session[r]]
          /\ session[p] = [stored |-> session[p].stored, pool |-> session[p].pool,
                           client |-> session[p].client]
      BY DEF TypeInv, DaemonOK, IsSession
    <3>1. LosesConnection(p) => session'[p].pool = "down"
      BY <3>0 DEF LosesConnection, Happens
    <3>2. IsLoggedOut(p) => session'[p].pool = "dead"
      BY <3>0 DEF IsLoggedOut, Happens
    <3>. QED BY <1>9, <2>4, <3>1, <3>2
  <2>5. ASSUME NEW q \in Phone, LosesConnection(q) \/ Connects(q) \/ IsLoggedOut(q)
        PROVE  /\ \A g \in AboutToTell(p)' : event'[g].status = "ready"
               /\ told'[p].status = "ready" \/ AboutToTell(p)' # {}
    BY <1>2, <2>1, <2>2, <2>4, <2>5
  <2>6. ASSUME NEW g \in Listener, TellRuntime(g) \/ UpdateFails(g) \/ TellBot(g)
        PROVE  /\ \A h \in AboutToTell(p)' : event'[h].status = "ready"
               /\ told'[p].status = "ready" \/ AboutToTell(p)' # {}
    BY <1>3, <1>4, <1>5, <1>6, <2>1, <2>2, <2>6
  <2>. QED
    BY <1>7, <1>8, <2>3, <2>5, <2>6 DEF Next, RosterNext, Authorized, BeginDelete,
       GoOnWriting, WriterFails, SheetFails, Persist, Erase, ReadTable, ClearSheet, UpdateSheet,
       FormatSheet, Import, ReadSheet, ImportFails, RestartBot, BeginWithSync, rosterOnly,
       rosterVars, vars
<1>. QED BY <1>1, <1>9

(* A connected account whose events are handled is one the dispatcher      *)
(* takes for available, for every row that was there when its connection   *)
(* was told, unless an old client of the phone was still telling, too, or  *)
(* the update that told it failed (app.go): a connected account looks dead *)
(* for one of these two reasons, or because its row was imported later.    *)
THEOREM ThreeWaysToLookDead ==
  Spec /\ []OneClientSpeaks /\ [][ConnectionIsTold]_vars => []KnownIsAvailable
<1>1. Init => LastWord
  <2> SUFFICES ASSUME RosterInit PROVE LastWord
    BY DEF Init
  <2>1. \A p \in Phone : told[p].status = "ready" /\ AboutToTell(p) = {}
    BY DEF RosterInit, AboutToTell, EventsOf, NoEvent
  <2>. QED BY <2>1 DEF LastWord
<1>2. TypeInv /\ StatusInv /\ LastWord /\ OneClientSpeaks' /\ [ConnectionIsTold]_vars
      /\ [Next]_vars => LastWord'
  BY WordStep DEF LastWord
<1>3. StatusInv /\ LastWord => KnownIsAvailable
  BY DEF StatusInv, ToldIsSettled, LastWord, KnownIsAvailable, AboutToTell
<1>. QED BY <1>1, <1>2, <1>3, TypesInvariant, PTL DEF Spec

==============================================================================
