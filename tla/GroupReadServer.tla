--------------------------- MODULE GroupReadServer ---------------------------
(***************************************************************************)
(* What the device promises to the KNX bus, as its driver serves it.  It   *)
(* listens to frames; a frame may be a group read it accepts, and then it  *)
(* owes exactly one attempt to answer.  It talks only to pay a debt, and   *)
(* only while it is not listening.  Which answer it sends, whether the     *)
(* answer gets through and which task or queue holds the debt in between   *)
(* is hidden: KnxStack is shown to implement this specification.           *)
(***************************************************************************)
EXTENDS Naturals

VARIABLES
    owed,   \* group reads accepted, whose answer is neither sent nor given up
    line    \* what the driver is doing on the bus

vars == <<owed, line>>

TypeOK ==
    /\ owed \in Nat
    /\ line \in {"free", "listening", "answering"}

Init ==
    /\ owed = 0
    /\ line = "free"

(* A frame begins on the bus and the device follows it. *)
Listen ==
    /\ line = "free"
    /\ line' = "listening"
    /\ UNCHANGED owed

(* The frame is a group read and the device takes it in. *)
Accept ==
    /\ line = "listening"
    /\ line' = "free"
    /\ owed' = owed + 1

(* The frame is damaged, or it is not a group read. *)
Pass ==
    /\ line = "listening"
    /\ line' = "free"
    /\ UNCHANGED owed

(* The device starts an answer: it must owe one. *)
Talk ==
    /\ line = "free"
    /\ owed > 0
    /\ line' = "answering"
    /\ UNCHANGED owed

(* The answer is out, confirmed or not, or its transmission has failed and  *)
(* is given up: nothing tries it again, so the debt is settled either way.  *)
Answer ==
    /\ line = "answering"
    /\ owed > 0
    /\ line' = "free"
    /\ owed' = owed - 1

Next == Listen \/ Accept \/ Pass \/ Talk \/ Answer

Spec == Init /\ [][Next]_vars
=============================================================================
