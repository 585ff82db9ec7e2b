---------------------------- MODULE IntentPipeline ----------------------------
(***************************************************************************)
(* What the order pipeline of app/run_execution.py promises per            *)
(* idempotency key, for any number of service processes sharing the        *)
(* submitted_intents table: a key is checked against the table when its    *)
(* intent is made, passes the risk checks, is claimed atomically, and is   *)
(* sent at most once.  What the venue does with a request is left open.    *)
(* EMSXExecution is shown to implement this (module EMSXPipeline).         *)
(***************************************************************************)
EXTENDS Naturals

CONSTANTS Runners,  \* processes of the execution service
          Keys,     \* idempotency keys
          None      \* not a key

ASSUME PipelineAssumption == None \notin Keys

VARIABLES
  phase,    \* where each process is with its intent
  key,      \* the key of that intent
  claimed,  \* table submitted_intents
  live      \* requests of each key the venue has or may yet receive

vars == <<phase, key, claimed, live>>

Phases == {"idle", "validating", "claiming", "submitting"}

Init ==
  /\ phase = [r \in Runners |-> "idle"]
  /\ key = [r \in Runners |-> None]
  /\ claimed = {}
  /\ live = [k \in Keys |-> 0]

Move(r, p, k) == /\ phase' = [phase EXCEPT ![r] = p]
                 /\ key' = [key EXCEPT ![r] = k]

Generate(r, k) ==
  /\ phase[r] = "idle" /\ k \notin claimed
  /\ Move(r, "validating", k)
  /\ UNCHANGED <<claimed, live>>

Approve(r) ==
  /\ phase[r] = "validating"
  /\ Move(r, "claiming", key[r])
  /\ UNCHANGED <<claimed, live>>

(* Fault: the insert is not conditional on the key being absent.           *)
WinsFault(r) == TRUE

(* INSERT OR IGNORE: one statement, so one process wins.                   *)
Wins(r) == key[r] \notin claimed

Claim(r) ==
  /\ phase[r] = "claiming"
  /\ IF Wins(r)
       THEN /\ claimed' = claimed \cup {key[r]}
            /\ Move(r, "submitting", key[r])
       ELSE /\ Move(r, "idle", None)
            /\ UNCHANGED claimed
  /\ UNCHANGED live

Send(r) ==
  /\ phase[r] = "submitting"
  /\ live' = [live EXCEPT ![key[r]] = @ + 1]
  /\ Move(r, "idle", None)
  /\ UNCHANGED claimed

(* Rejected by the risk checks, aborted by an exception, or crashed.       *)
GiveUp(r) ==
  /\ phase[r] # "idle"
  /\ Move(r, "idle", None)
  /\ UNCHANGED <<claimed, live>>

(* The venue refuses a request.                                            *)
Refuse(k) ==
  /\ live[k] > 0
  /\ live' = [live EXCEPT ![k] = @ - 1]
  /\ UNCHANGED <<phase, key, claimed>>

Next ==
  \/ \E r \in Runners :
       \/ \E k \in Keys : Generate(r, k)
       \/ Approve(r) \/ Claim(r) \/ Send(r) \/ GiveUp(r)
  \/ \E k \in Keys : Refuse(k)

Spec == Init /\ [][Next]_vars

-----------------------------------------------------------------------------
TypeOK ==
  /\ phase \in [Runners -> Phases]
  /\ key \in [Runners -> Keys \cup {None}]
  /\ claimed \subseteq Keys
  /\ live \in [Keys -> Nat]

(* At most one request per key is ever live at the venue, whichever of the *)
(* processes race for it (idempotency_backend.py: "two concurrent          *)
(* processes racing on the same key see exactly one True").                *)
AtMostOneLive == \A k \in Keys : live[k] <= 1

(* Why it holds: a process about to send owns the claim alone, and no      *)
(* request of its key has been sent; a key with a request is claimed.      *)
ClaimIsExclusive ==
  /\ \A r \in Runners : phase[r] # "idle" => key[r] \in Keys
  /\ \A r \in Runners :
       phase[r] = "submitting" =>
         /\ key[r] \in claimed
         /\ live[key[r]] = 0
         /\ \A q \in Runners : phase[q] = "submitting" /\ key[q] = key[r] => q = r
  /\ \A k \in Keys : live[k] > 0 => k \in claimed

PipelineInv == TypeOK /\ ClaimIsExclusive /\ AtMostOneLive

(* A key whose order was refused or abandoned is never sent again: once it *)
(* is claimed, with no request live and no process past the claim, it      *)
(* stays so, even for processes still between their check and their claim. *)
Dead(k) ==
  /\ k \in claimed /\ live[k] = 0
  /\ \A r \in Runners : ~(phase[r] = "submitting" /\ key[r] = k)

DeadStaysDead == [][\A k \in Keys : Dead(k) => Dead(k)']_vars

=============================================================================
