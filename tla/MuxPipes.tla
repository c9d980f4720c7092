------------------------------ MODULE MuxPipes ------------------------------
(***************************************************************************)
(* What a multiplexed stream promises to the two ends that use it: in each *)
(* direction a FIFO of chunks, read in the order they were written, whose  *)
(* end is seen when the writer has closed and everything has been read.    *)
(* An end that closes its own side, or whose session is lost, may see the  *)
(* end sooner, and never anything else.                                    *)
(***************************************************************************)
EXTENDS Naturals, Sequences

CONSTANTS Ends, Streams

VARIABLES
    written,  \* chunks put into the pipe towards an end
    fin,      \* its writer has closed
    read,     \* the chunks that end has read, numbered as written
    over,     \* that end has seen the end of the pipe
    excused   \* that end has closed its side or lost the session

vars == <<written, fin, read, over, excused>>

Init ==
    /\ written = [e \in Ends |-> [k \in Streams |-> 0]]
    /\ fin = [e \in Ends |-> [k \in Streams |-> FALSE]]
    /\ read = [e \in Ends |-> [k \in Streams |-> <<>>]]
    /\ over = [e \in Ends |-> [k \in Streams |-> FALSE]]
    /\ excused = [e \in Ends |-> [k \in Streams |-> FALSE]]

Put(e, k) ==
    /\ ~fin[e][k]
    /\ written' = [written EXCEPT ![e][k] = @ + 1]
    /\ UNCHANGED <<fin, read, over, excused>>

\* Closing one side ends what that side writes and excuses what it reads:
\* closer is the end towards which the pipe is finished.
Finish(e, f, k) ==
    /\ e # f
    /\ ~fin[e][k]
    /\ fin' = [fin EXCEPT ![e][k] = TRUE]
    /\ excused' = [excused EXCEPT ![f][k] = TRUE]
    /\ UNCHANGED <<written, read, over>>

Take(e, k) ==
    /\ ~over[e][k]
    /\ \E m \in 1 .. written[e][k] - Len(read[e][k]) :
          read' = [read EXCEPT ![e][k] = @ \o [i \in 1 .. m |-> Len(@) + i]]
    /\ UNCHANGED <<written, fin, over, excused>>

End(e, k) ==
    /\ ~over[e][k]
    /\ excused[e][k] \/ (fin[e][k] /\ Len(read[e][k]) = written[e][k])
    /\ over' = [over EXCEPT ![e][k] = TRUE]
    /\ UNCHANGED <<written, fin, read, excused>>

Lose ==
    /\ excused' = [e \in Ends |-> [k \in Streams |-> TRUE]]
    /\ UNCHANGED <<written, fin, read, over>>

Next ==
    \/ Lose
    \/ \E e \in Ends, k \in Streams :
          \/ Put(e, k) \/ Take(e, k) \/ End(e, k)
          \/ \E f \in Ends : Finish(e, f, k)

Spec == Init /\ [][Next]_vars
=============================================================================
