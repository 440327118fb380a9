---------------------------- MODULE ReplayFence ----------------------------
(***************************************************************************)
(* What the application coordinator promises of every cognition outcome    *)
(* (ADR-019): it is bound to a permit once, takes effect only while that   *)
(* permit is live and not yet settled, settles at most once, and can never *)
(* take effect again after it settled or its permit was retired, although  *)
(* only a bounded window of settled results is remembered.                 *)
(***************************************************************************)
CONSTANT Outcomes

VARIABLES fate,       \* [Outcomes -> {"unbound", "bound", "settled", "retired"}]
          effective   \* outcomes whose effects have begun

fenceVars == <<fate, effective>>

FenceInit == /\ fate = [o \in Outcomes |-> "unbound"]
             /\ effective = {}

\* Binding an outcome may retire the whole window, bound or settled.
Bind(o) ==
  /\ fate[o] = "unbound"
  /\ \/ fate' = [fate EXCEPT ![o] = "bound"]
     \/ fate' = [p \in Outcomes |-> IF p = o THEN "bound"
                                    ELSE IF fate[p] = "unbound" THEN "unbound"
                                    ELSE "retired"]
  /\ UNCHANGED effective

TakeEffect(o) ==
  /\ fate[o] = "bound"
  /\ effective' = effective \cup {o}
  /\ UNCHANGED fate

\* Settling may come with the last effect.
Settle(o) ==
  /\ fate[o] = "bound"
  /\ fate' = [fate EXCEPT ![o] = "settled"]
  /\ effective' \in {effective, effective \cup {o}}

FenceNext == \E o \in Outcomes : Bind(o) \/ TakeEffect(o) \/ Settle(o)

FenceSpec == FenceInit /\ [][FenceNext]_fenceVars
=============================================================================
