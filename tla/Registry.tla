------------------------------- MODULE Registry -------------------------------
(***************************************************************************)
(* The bot and the daemon around the tables of accounts and administrators *)
(* (Roster, Access): the handlers of one process that a restart ends       *)
(* together, and one bound on what the world asks of them.                 *)
(***************************************************************************)
EXTENDS Roster, Access

vars == <<rosterVars, accessVars>>

Init == RosterInit /\ AccessInit

(* main: load_db_admins, then a sheet sync of its own.                     *)
RestartBot ==
  /\ Spend
  /\ ReloadAdmins
  /\ \E w \in Writer : BeginWithSync(w)

Next ==
  \/ RosterNext /\ UNCHANGED accessVars
  \/ BeginChange /\ Spend /\ UNCHANGED rosterOnly
  \/ GoOnChanging /\ UNCHANGED rosterVars
  \/ RestartBot

(* asyncio runs a task until it is done, the executor runs its thread, and *)
(* the import is on a ticker; Google is asked again at most Retries times. *)
Fairness ==
  /\ \A w \in Writer : WF_vars(GoOnWriting(w) /\ UNCHANGED accessVars)
  /\ WF_vars(Import /\ UNCHANGED accessVars)

Spec == Init /\ [][Next]_vars
FairSpec == Spec /\ Fairness

==============================================================================
