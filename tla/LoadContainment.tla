-------------------------- MODULE LoadContainment ---------------------------
(***************************************************************************)
(* What the sentinel promises, without a file, a parser, a watchdog or a   *)
(* failing write: every module is trusted, on trial or suspected; only a   *)
(* module on trial can end the host, at most one is on trial, and a trial  *)
(* that the host does not outlive becomes a suspicion at the next boot     *)
(* unless the operator pays for it with a grant that is not spent.         *)
(***************************************************************************)
EXTENDS Integers

CONSTANTS Modules

VARIABLES status,    \* of every module: "trusted", "trial" or "suspected"
          spent,     \* grants that were honoured and are still listed
          up,        \* the host is past its boot's resolution
          crashes,   \* times the module ended the host
          granted    \* times a grant for it was honoured

vars == <<status, spent, up, crashes, granted>>

Settled == [m \in Modules |-> IF status[m] = "trial" THEN "trusted" ELSE status[m]]

Init == /\ status = [m \in Modules |-> "trusted"]
        /\ spent = {}
        /\ up = FALSE
        /\ crashes = [m \in Modules |-> 0]
        /\ granted = [m \in Modules |-> 0]

\* The operator lists the modules in r for another attempt.
Boot(r) ==
  /\ ~up /\ up' = TRUE
  /\ spent' = r
  /\ granted' = [m \in Modules |-> granted[m] + (IF m \in r \ spent THEN 1 ELSE 0)]
  /\ status' = [m \in Modules |-> CASE m \in r \ spent -> "trusted"
                                    [] m \notin r \ spent /\ status[m] = "trial" -> "suspected"
                                    [] OTHER -> status[m]]
  /\ UNCHANGED crashes

Try(m) == /\ up /\ status[m] = "trusted"
          /\ status' = [Settled EXCEPT ![m] = "trial"]
          /\ UNCHANGED <<spent, up, crashes, granted>>

Settle == /\ up /\ status' = Settled
          /\ UNCHANGED <<spent, up, crashes, granted>>

\* The module on trial ends the host, or the host ends on its own.
Crash(m) == /\ up /\ status[m] = "trial"
            /\ crashes' = [crashes EXCEPT ![m] = @ + 1]
            /\ up' = FALSE
            /\ UNCHANGED <<status, spent, granted>>

Stop == up /\ up' = FALSE /\ UNCHANGED <<status, spent, crashes, granted>>

Next == \/ \E r \in SUBSET Modules : Boot(r)
        \/ \E m \in Modules : Try(m) \/ Crash(m)
        \/ Settle \/ Stop

Spec == Init /\ [][Next]_vars
=============================================================================
