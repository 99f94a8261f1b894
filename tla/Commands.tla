-------------------------------- MODULE Commands --------------------------------
(***************************************************************************)
(* What a session of dict/pdictclient.c promises to those who issue        *)
(* commands, with no tag, tree, lock or socket: commands are numbered in   *)
(* the order of issue, the webservice takes each at most once, and the end *)
(* of each is reported at most once - as a success only if it is this very *)
(* command that the webservice has taken.                                  *)
(***************************************************************************)
EXTENDS Naturals

CONSTANTS MaxCommands  \* bound: commands in one behaviour

VARIABLES
    issued,    \* the number of the newest command
    executed,  \* the commands the webservice has taken
    outcome    \* what was reported of each: "none", "ok" or "failed"

vars == <<issued, executed, outcome>>

Init ==
    /\ issued = 0 /\ executed = {}
    /\ outcome = [n \in 1..MaxCommands |-> "none"]

Issues == issued' \in {issued, issued + 1} /\ issued' <= MaxCommands

Executes ==
    \/ UNCHANGED executed
    \/ \E n \in 1..issued :
          /\ n \notin executed
          /\ executed' = executed \cup {n}

\* Several commands may end in one step, when a handle or the socket closes.
Reports ==
    /\ DOMAIN outcome' = DOMAIN outcome
    /\ \A n \in DOMAIN outcome :
          outcome'[n] # outcome[n] =>
              /\ outcome[n] = "none" /\ n <= issued'
              /\ outcome'[n] = "ok" => n \in executed

Next == Issues /\ Executes /\ Reports

Spec == Init /\ [][Next]_vars
=============================================================================
