----------------------------- MODULE ByteStream -----------------------------
(***************************************************************************)
(* What one direction of a net.Conn promises: the bytes written come out   *)
(* at the other end in the order they were written, none of them twice and *)
(* none of them left out.  Bytes are numbered in the order they are        *)
(* written.  The connection may stop at any moment, and once it is broken  *)
(* nothing is promised.                                                    *)
(***************************************************************************)
EXTENDS Naturals, Sequences

VARIABLES
    sent,       \* how many bytes were written
    received,   \* the bytes read, in the order they were read
    broken      \* an end has closed or given up the connection

Init ==
    /\ sent = 0
    /\ received = <<>>
    /\ broken = FALSE

\* One or more bytes are written.
Send ==
    /\ sent' > sent
    /\ UNCHANGED <<received, broken>>

\* The next byte is read.
Receive ==
    /\ Len(received) < sent
    /\ received' = Append(received, Len(received) + 1)
    /\ UNCHANGED <<sent, broken>>

\* The connection breaks, for good.
Break ==
    /\ broken'
    /\ UNCHANGED <<sent, received>>

Broken == broken /\ broken'

Next == Send \/ Receive \/ Break \/ Broken

Spec == Init /\ [][Next]_<<sent, received, broken>>

=============================================================================
