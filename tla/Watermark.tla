------------------------------- MODULE Watermark -------------------------------
(***************************************************************************)
(* A shared high-water mark: what the location of a database or WAL file   *)
(* promises to the threads that write, truncate and remove it.  A call     *)
(* takes effect at one instant between its invocation and its return: a    *)
(* write raises the mark to its end unless it is higher already, a         *)
(* truncation or a removal sets it.                                        *)
(***************************************************************************)
EXTENDS Naturals

CONSTANTS Threads, Ends

Kinds == {"write", "truncate", "remove"}
NoCall == [kind |-> "none", new |-> 0, applied |-> FALSE]

VARIABLES
    mark,
    call     \* the call each thread is in

vars == <<mark, call>>

Init == mark = 0 /\ call = [t \in Threads |-> NoCall]

Invoke(t, kind, new) ==
    /\ call[t] = NoCall
    /\ call' = [call EXCEPT ![t] = [kind |-> kind, new |-> new, applied |-> FALSE]]
    /\ UNCHANGED mark

Effect(c, m) == IF c.kind = "write" /\ c.new < m THEN m ELSE c.new

Applied(c) == [kind |-> c.kind, new |-> c.new, applied |-> TRUE]

Apply(t) ==
    /\ call[t].kind # "none" /\ ~call[t].applied
    /\ mark' = Effect(call[t], mark)
    /\ call' = [call EXCEPT ![t] = Applied(call[t])]

Return(t) ==
    /\ call[t].applied
    /\ call' = [call EXCEPT ![t] = NoCall]
    /\ UNCHANGED mark

Next ==
    \E t \in Threads :
        \/ \E kind \in Kinds, new \in Ends : Invoke(t, kind, new)
        \/ Apply(t)
        \/ Return(t)

Spec == Init /\ [][Next]_vars
================================================================================
