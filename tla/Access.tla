-------------------------------- MODULE Access --------------------------------
(***************************************************************************)
(* The administrators an owner adds and removes (admins_handlers.py): the  *)
(* table admins and the set that is_admin reads (access.py). Every change  *)
(* writes the table, waits, and then corrects the set. A list of admins    *)
(* keeps its buttons, so anyone can be removed at any time.                *)
(***************************************************************************)
EXTENDS FiniteSets

CONSTANTS
  Person,      \* people who may become admins; the owners are not among them
  Change       \* handlers of owners that can be at work at once

VARIABLES
  adminTable,  \* table admins
  adminSet,    \* _db_admin_ids
  change,      \* handlers at work
  crossed      \* history: people added and removed at the same time

accessVars == <<adminTable, adminSet, change, crossed>>

NoChange == [pc |-> "idle", who |-> {}]

AccessInit ==
  /\ adminTable = {}
  /\ adminSet = {}
  /\ change = [c \in Change |-> NoChange]
  /\ crossed = {}

ChangingAccess(p) == {c \in Change : change[c].who = {p}}

Begin(c, p, pc) ==
  /\ change[c].pc = "idle"
  /\ change' = [change EXCEPT ![c] = [pc |-> pc, who |-> {p}]]
  /\ crossed' = IF ChangingAccess(p) = {} THEN crossed ELSE crossed \union {p}
  /\ UNCHANGED <<adminTable, adminSet>>

(* Who is an admin already is not added again.                             *)
BeginAdd(c, p) == p \notin adminSet /\ Begin(c, p, "insert")
BeginRemove(c, p) == Begin(c, p, "delete")

(* The table first. A row that is there is left alone, unless it appears   *)
(* between the look and the insertion: that violates the primary key.      *)
WriteTable(c) ==
  /\ \/ /\ change[c].pc = "insert"
        /\ adminTable' = adminTable \union change[c].who
        /\ \/ change' = [change EXCEPT ![c].pc = "remember"]
           \/ change[c].who \subseteq adminTable /\ change' = [change EXCEPT ![c] = NoChange]
     \/ /\ change[c].pc = "delete"
        /\ adminTable' = adminTable \ change[c].who
        /\ change' = [change EXCEPT ![c].pc = "forget"]
  /\ UNCHANGED <<adminSet, crossed>>

(* Mutant: a removal leaves the set as it is.                              *)
RememberOnly(c) ==
  /\ \/ change[c].pc = "remember" /\ adminSet' = adminSet \union change[c].who
     \/ change[c].pc = "forget" /\ UNCHANGED adminSet
  /\ change' = [change EXCEPT ![c] = NoChange]
  /\ UNCHANGED <<adminTable, crossed>>

(* Then the set.                                                           *)
CorrectSet(c) ==
  /\ \/ change[c].pc = "remember" /\ adminSet' = adminSet \union change[c].who
     \/ change[c].pc = "forget" /\ adminSet' = adminSet \ change[c].who
  /\ change' = [change EXCEPT ![c] = NoChange]
  /\ UNCHANGED <<adminTable, crossed>>

(* A failing statement ends the handler.                                   *)
FailChange(c) ==
  /\ change[c].pc \in {"insert", "delete"}
  /\ change' = [change EXCEPT ![c] = NoChange]
  /\ UNCHANGED <<adminTable, adminSet, crossed>>

(* The bot restarts: load_db_admins.                                       *)
ReloadAdmins ==
  /\ adminSet' = adminTable
  /\ change' = [c \in Change |-> NoChange]
  /\ crossed' = {}
  /\ UNCHANGED adminTable

BeginChange == \E c \in Change, p \in Person : BeginAdd(c, p) \/ BeginRemove(c, p)
GoOnChanging == \E c \in Change : WriteTable(c) \/ CorrectSet(c) \/ FailChange(c)

------------------------------------------------------------------------------
(* Who has access is who is in the table: a removed admin loses it and an  *)
(* added one keeps it over a restart, as soon as the handler is done,      *)
(* unless one person was added and removed at the same time.               *)
AccessMatchesTable ==
  \A p \in Person \ crossed :
    ChangingAccess(p) = {} => (p \in adminSet <=> p \in adminTable)

==============================================================================
