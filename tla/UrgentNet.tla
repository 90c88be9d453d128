----------------------------- MODULE UrgentNet ------------------------------
(* TCP as the two heartbeat programs use it: connections that carry nothing   *)
(* but urgent marks of one byte, each end able to hold one mark unread.       *)
(* External code: modelled from the calls the programs make.                  *)
EXTENDS Integers, Sequences

CONSTANTS Conns,      \* connections that may exist at one time
          None

ASSUME NetAssumption == None \notin Conns

VARIABLES link,       \* the state of each connection
          backlog,    \* connections accept() has not returned yet
          alive       \* does the server process run?

netVars == <<link, backlog, alive>>

(* cl, sv: the client's and the server's end; owned: F_SETOWN was called for  *)
(* the server's end; up, down: marks in flight; upSlot, downSlot: a mark has  *)
(* arrived and has not been read.                                             *)
Link == [cl : {"none", "syn", "open", "closed"},
         sv : {"none", "queued", "open", "closed"},
         owned : BOOLEAN, up : 0..2, down : 0..2,
         upSlot : BOOLEAN, downSlot : BOOLEAN]
NoLink == [cl |-> "none", sv |-> "none", owned |-> FALSE,
           up |-> 0, down |-> 0, upSlot |-> FALSE, downSlot |-> FALSE]

NetInit == link = [k \in Conns |-> NoLink] /\ backlog = <<>> /\ alive = TRUE
NetTypeOK == /\ link \in [Conns -> Link]
             /\ backlog \in Seq(Conns) /\ alive \in BOOLEAN

(* A connection both ends are done with is forgotten.                         *)
Tidy(l) == IF l.cl \in {"none", "closed"} /\ l.sv \in {"none", "closed"}
             THEN NoLink ELSE l

CloseClient(k) == IF k = None THEN link
                  ELSE [link EXCEPT ![k] = Tidy([@ EXCEPT !.cl = "closed"])]
CloseServer(k) == [link EXCEPT ![k] = Tidy([@ EXCEPT !.sv = "closed"])]

SendUp(k) == IF k = None THEN link ELSE [link EXCEPT ![k].up = @ + 1]
SendDown(k) == IF k = None THEN link ELSE [link EXCEPT ![k].down = @ + 1]

(* A FIN is seen after the marks sent before it.                              *)
FinAtClient(k) == link[k].sv = "closed" /\ link[k].down = 0
FinAtServer(k) == link[k].cl = "closed" /\ link[k].up = 0
=============================================================================
