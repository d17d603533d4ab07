----------------------------- MODULE EchoServer -----------------------------
(***************************************************************************)
(* The handlers of the HTTP echo server (internal/server/http/server.go)   *)
(* that compute something: /delay/:s and /status/:code.  What follows the  *)
(* last slash of the path is a number, or Missing, or NotANumber.          *)
(***************************************************************************)
EXTENDS Integers

CONSTANTS
    Missing,    \* nothing follows the slash
    NotANumber, \* strconv.Atoi refuses it
    MaxDelay    \* the longest delay, in seconds: 60 in the code

ASSUME EchoAssumption == MaxDelay \in Nat /\ {Missing, NotANumber} \cap Int = {}

BadRequest == 400
Switching  == 101

IsNumber(arg) == arg \notin {Missing, NotANumber}

\* A reply: the status written, and the seconds the handler sleeps before.
Replies == [status : Nat, wait : 0 .. MaxDelay]
Refused == [status |-> BadRequest, wait |-> 0]

handleDelay(arg) ==
    IF IsNumber(arg) /\ arg >= 0
    THEN [status |-> 200, wait |-> IF arg > MaxDelay THEN MaxDelay ELSE arg]
    ELSE Refused

handleStatus(arg) ==
    IF IsNumber(arg) /\ arg \in 100 .. 599 THEN [status |-> arg, wait |-> 0] ELSE Refused

\* WriteHeader sends a status from 100 to 199, except 101, as informational;
\* writing the body then makes the final status 200.
Final(status) == IF status \in 100 .. 199 \ {Switching} THEN 200 ELSE status

handle(path, arg) ==
    CASE path = "/delay"  -> handleDelay(arg)
      [] path = "/status" -> handleStatus(arg)
=============================================================================
