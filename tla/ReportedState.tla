---------------------------- MODULE ReportedState ----------------------------
(***************************************************************************)
(* What the application learns of a connection through ConnectionCallback, *)
(* as a state machine of its own: an attempt is online at most once, ends  *)
(* in an error, and a new attempt starts only after an error was reported. *)
(***************************************************************************)
Errors == {"ErrorConnecting", "ErrorAuthenticating", "ErrorUnknown"}

VARIABLE reported

Init == reported = "Connecting"

Online == /\ reported = "Connecting"
          /\ reported' = "Connected"

Failed == /\ reported \in {"Connecting", "Connected"}
          /\ reported' \in Errors

(* The IO thread ends after the failure it reported itself. *)
Ended == /\ reported = "ErrorAuthenticating"
         /\ reported' = "ErrorUnknown"

NewAttempt == /\ reported \in Errors
              /\ reported' = "Connecting"

Next == Online \/ Failed \/ Ended \/ NewAttempt

Spec == Init /\ [][Next]_reported
=============================================================================
