----------------------------- MODULE MCDispatcher -----------------------------
(***************************************************************************)
(* Values of the constants of Dispatcher for TLC: the plans an admin made. *)
(***************************************************************************)
EXTENDS Dispatcher

CONSTANTS a1, a2, a3

\* Two accounts, one day: opens with the window, a message and its reply.
PairPlan == [c \in Comm |-> [ring |-> <<a1, a2>>, start |-> WindowStart, days |-> 1]]

\* A ring of three: six messages, a drop leaves two survivors.
RingPlan == [c \in Comm |-> [ring |-> <<a1, a2, a3>>, start |-> WindowStart, days |-> 1]]

\* The same on two days.
TwoDayRingPlan == [c \in Comm |-> [ring |-> <<a1, a2, a3>>, start |-> WindowStart, days |-> 2]]

\* A short pause, then a day's pause and exclusion.
TwoStrikes == <<1, DayLength>>

==============================================================================
