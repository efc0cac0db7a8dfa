--------------------------- MODULE ConnectionSets ---------------------------
(***************************************************************************)
(* What the connection pool of cSQLPool promises to its worker threads: a  *)
(* worker that got a connection has it to itself until it gives it back,   *)
(* a connection is opened only when no spare one can be lent, and none is  *)
(* closed before Shutdown but a spare one found dead or one its worker     *)
(* gives up.                                                               *)
(***************************************************************************)
CONSTANTS Conns, Workers, Null

VARIABLES
  spare,        (* open connections no worker has                          *)
  lent          (* lent[w]: the connection worker w has, or Null           *)

csVars == <<spare, lent>>

CSInit == spare = {} /\ lent = [w \in Workers |-> Null]

Lend(w, c) ==
  /\ c \in spare
  /\ spare' = spare \ {c}
  /\ lent' = [lent EXCEPT ![w] = c]

(* At most one spare connection, a dead one, is closed to open another.    *)
OpenFor(w, closed, c) ==
  /\ closed \subseteq spare
  /\ IF spare = {} THEN closed = {} ELSE \E d \in spare : closed = {d}
  /\ \A v \in Workers : lent[v] # c
  /\ c \notin spare \ closed
  /\ spare' = spare \ closed
  /\ lent' = [lent EXCEPT ![w] = c]

OpenFails(closed) ==
  /\ closed \subseteq spare
  /\ IF spare = {} THEN closed = {} ELSE \E d \in spare : closed = {d}
  /\ spare' = spare \ closed
  /\ UNCHANGED lent

GiveBack(w, kept) ==
  /\ lent[w] # Null
  /\ spare' = spare \cup (IF kept THEN {lent[w]} ELSE {})
  /\ lent' = [lent EXCEPT ![w] = Null]

CloseAll == spare' = {} /\ UNCHANGED lent

CSNext ==
  \/ \E w \in Workers : lent[w] = Null /\ \E c \in Conns :
       \/ Lend(w, c)
       \/ \E closed \in SUBSET spare : OpenFor(w, closed, c)
  \/ \E closed \in SUBSET spare : OpenFails(closed)
  \/ \E w \in Workers, kept \in BOOLEAN : GiveBack(w, kept)
  \/ CloseAll

CSSpec == CSInit /\ [][CSNext]_csVars
=============================================================================
