------------------------------ MODULE MCPrograms ------------------------------
(* The demonstration programs for TLC, in one run: they share nothing, and *)
(* the initial state says which of them it is that runs.                   *)
EXTENDS TimerTest, TimeWheel, ChatClient, EpollModes, Signals, Urgent, Semaphore

VARIABLE program

testVars == <<stl, expire>>
vars == <<program, testVars, wheelVars, clientVars, modesVars, signalVars, urgentVars, semVars>>

MCInit ==
  /\ program \in {"timers", "wheel", "client", "modes", "signals", "urgent", "semaphore"}
  /\ TestInit /\ WheelInit /\ ClientInit /\ ModesInit /\ SignalsInit /\ UrgentInit /\ SemInit
  /\ program = "modes" \/ mode = "lt"             (* one of the two will do  *)
  /\ program = "urgent" \/ receiver = "select"    (* for the others          *)

NotTest == UNCHANGED <<program, wheelVars, clientVars, modesVars, signalVars, urgentVars, semVars>>
NotWheel == UNCHANGED <<program, testVars, clientVars, modesVars, signalVars, urgentVars, semVars>>
NotClient == UNCHANGED <<program, testVars, wheelVars, modesVars, signalVars, urgentVars, semVars>>
NotModes == UNCHANGED <<program, testVars, wheelVars, clientVars, signalVars, urgentVars, semVars>>
NotSignals == UNCHANGED <<program, testVars, wheelVars, clientVars, modesVars, urgentVars, semVars>>
NotUrgent == UNCHANGED <<program, testVars, wheelVars, clientVars, modesVars, signalVars, semVars>>
NotSem == UNCHANGED <<program, testVars, wheelVars, clientVars, modesVars, signalVars, urgentVars>>

MCNext ==
  \/ program = "timers" /\ Enter /\ NotTest
  \/ program = "wheel" /\ WheelNext /\ NotWheel
  \/ program = "client" /\ ClientNext /\ NotClient
  \/ program = "modes" /\ ModesNext /\ NotModes
  \/ program = "signals" /\ SignalsNext /\ NotSignals
  \/ program = "urgent" /\ UrgentNext /\ NotUrgent
  \/ program = "semaphore" /\ SemNext /\ NotSem

(* The fairness of each program's own specification.                       *)
MCSpec ==
  /\ MCInit /\ [][MCNext]_vars
  /\ WF_vars(program = "client" /\ Client /\ NotClient)
  /\ WF_vars(program = "modes" /\ ModesServer /\ NotModes)
  /\ WF_vars(program = "signals" /\ SignalsMain /\ NotSignals)
  /\ WF_vars(program = "urgent" /\ Receiver /\ NotUrgent)
  /\ WF_vars(program = "semaphore" /\ SemProgram /\ NotSem)

(* The type of every variable of every program.                            *)
ProgramTypesOK ==
  /\ expire \in [Timers -> Timeouts \cup {0}] /\ stl \in ListType
  /\ WheelTypeOK /\ ClientTypeOK /\ ModesTypeOK /\ SignalsTypeOK /\ UrgentTypeOK /\ SemTypeOK

MCTimeouts == 1..4
MCTwTimeouts == {0, 3, 4}
=============================================================================
