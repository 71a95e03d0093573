---------------------------- MODULE PipeChannel -----------------------------
(***************************************************************************)
(* What a pipe promises to the processes at its ends: the bytes come out   *)
(* in the order in which they went in, none is lost or made up while the   *)
(* pipe has an end, and at most PIPE_CAP are under way.  Module Pipe shows  *)
(* that the ring buffer of Kernel/ipc/pipe.c keeps the promise.            *)
(***************************************************************************)
EXTENDS Integers, Sequences

CONSTANTS Pipes, Bytes, PIPE_CAP

VARIABLES
    ch,     \* the bytes under way in each pipe
    ends,   \* which kinds of end of each pipe are open
    moved   \* the bytes that the step just taken has put in or taken out

vars == <<ch, ends, moved>>

Init ==
    /\ ch = [q \in Pipes |-> <<>>]
    /\ ends = [q \in Pipes |-> {}]
    /\ moved = <<>>

\* Somebody who has a write end puts bytes in.
Send(q) ==
    /\ ends[q] = {"read", "write"}
    /\ \E n \in 1 .. PIPE_CAP - Len(ch[q]) : \E bytes \in [1 .. n -> Bytes] :
        ch' = [ch EXCEPT ![q] = @ \o bytes] /\ moved' = bytes
    /\ UNCHANGED ends

\* Somebody who has a read end takes the oldest bytes.
Receive(q) ==
    /\ "read" \in ends[q]
    /\ \E n \in 1 .. Len(ch[q]) :
        ch' = [ch EXCEPT ![q] = SubSeq(@, n + 1, Len(@))] /\ moved' = SubSeq(ch[q], 1, n)
    /\ UNCHANGED ends

\* Ends are opened and closed; only a pipe without ends drops its bytes.
Reattach ==
    /\ ends' \in [Pipes -> SUBSET {"read", "write"}]
    /\ \E Q \in SUBSET {q \in Pipes : ends'[q] = {}} :
        ch' = [q \in Pipes |-> IF q \in Q THEN <<>> ELSE ch[q]]
    /\ moved' = <<>>

Next == Reattach \/ \E q \in Pipes : Send(q) \/ Receive(q)

Spec == Init /\ [][Next]_vars
=============================================================================
