------------------------------ MODULE BytePipe ------------------------------
(* What one direction of a copy loop promises, whatever its buffering: bytes  *)
(* are taken from a source in order, at most Cap of them are held at a time,  *)
(* they come out in the same order, and the sink is closed only after the     *)
(* source has ended and every byte taken from it has come out.                *)
(* The k-th byte of the source is the number k.                               *)
EXTENDS Naturals, Sequences

CONSTANT Cap

VARIABLES taken,      \* number of bytes taken from the source
          ended,      \* the end of the source has been seen
          out,        \* the bytes put into the sink, in order
          closed      \* the sink has been closed

pipeVars == <<taken, ended, out, closed>>

PipeInit == taken = 0 /\ ended = FALSE /\ out = <<>> /\ closed = FALSE

Take(n) == /\ ~ended
           /\ taken + n <= Len(out) + Cap
           /\ taken' = taken + n
           /\ UNCHANGED <<ended, out, closed>>

Give(n) == /\ ~closed
           /\ Len(out) + n <= taken
           /\ out' = [k \in 1..(Len(out) + n) |-> k]
           /\ UNCHANGED <<taken, ended>>
           /\ closed' \in IF ended /\ Len(out) + n = taken THEN BOOLEAN
                                                           ELSE {FALSE}

SourceEnds == /\ ~ended
              /\ ended' = TRUE
              /\ closed' \in IF Len(out) = taken THEN BOOLEAN ELSE {FALSE}
              /\ UNCHANGED <<taken, out>>

PipeNext == \/ \E n \in 1..Cap : Take(n) \/ Give(n)
            \/ SourceEnds

PipeSpec == PipeInit /\ [][PipeNext]_pipeVars
=============================================================================
