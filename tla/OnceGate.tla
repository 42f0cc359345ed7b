------------------------------ MODULE OnceGate ------------------------------
(***************************************************************************)
(* What an execution gate promises its caller, without threads, a chain or *)
(* a transport: a decision is spent before it is handed to the sender, it  *)
(* keeps the floor it was approved under, it is handed over at most once,  *)
(* and only a restart of the process forgets that (the docstring of        *)
(* core/gate.py).                                                          *)
(***************************************************************************)
EXTENDS Integers, Sequences

CONSTANT Allowed(_)     \* the decisions a gate may spend

VARIABLES
    spent,      \* decisions that can no longer be spent
    handed      \* decisions handed to the sender, in order

gate == <<spent, handed>>

Handed(d) == \E i \in 1 .. Len(handed) : handed[i] = d

Init == spent = {} /\ handed = <<>>

\* A decision that is not spent is spent; the sender has not been called yet.
Spend(d) ==
    /\ d \notin spent /\ Allowed(d)
    /\ spent' = spent \cup {d}
    /\ UNCHANGED handed

\* The sender is called; whether the call succeeds is not the gate's business.
Hand(d) ==
    /\ d \in spent /\ ~Handed(d)
    /\ handed' = Append(handed, d)
    /\ UNCHANGED spent

\* The process is started again.
Restart == spent' = {} /\ handed' = <<>>

Next ==
    \/ \E d \in spent' : Spend(d)
    \/ \E d \in spent : Hand(d)
    \/ Restart

Spec == Init /\ [][Next]_gate

=============================================================================
