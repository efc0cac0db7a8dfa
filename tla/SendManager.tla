---------------------------- MODULE SendManager -----------------------------
(***************************************************************************)
(* The handles of SendManager (net/SendManager.h, .cpp) over the pool of   *)
(* SendOrRecvMngBase: got by a caller, given to asio by PostSend, released *)
(* by SendComplete, which an io thread runs when the write is over, failed *)
(* or not.  The io thread and the socket belong to who uses the module.    *)
(***************************************************************************)
CONSTANT SendHandles    (* handles the pool has memory for                 *)

VARIABLE place
(* place[h]: "free"; "user", in the hands of a caller; "sending", given to *)
(* asio; "written" or "aborted", its completion not yet run; "lost", with  *)
(* nobody left to release it; "dropped" with its io_service.               *)

Places == {"free", "user", "sending", "written", "aborted", "lost", "dropped"}

SendInit == place = [h \in SendHandles |-> "free"]

Move(h, from, to) == place[h] = from /\ place' = [place EXCEPT ![h] = to]

(* The three GetData, which return NULL where no handle is free.           *)
GetData(h) == Move(h, "free", "user")

(* PostSend of a packet that fits into the buffer, ...                     *)
PostSend(h) == Move(h, "user", "sending")

(* ... and of one that does not: FAILED, and no way to give the handle     *)
(* back.                                                                   *)
PostSendFails(h) == Move(h, "user", "lost")

(* PostError gets a handle and posts it, or returns FAILED without one.    *)
PostError(h) == Move(h, "free", "sending")

(* The write is over.                                                      *)
Written(h) == Move(h, "sending", "written")

(* The handles whose completions wait for an io thread.                    *)
Completed == {h \in SendHandles : place[h] \in {"written", "aborted"}}

(* A socket was closed with writes under way.                              *)
Aborted(p) ==
  [h \in SendHandles |-> IF p[h] = "sending" THEN "aborted" ELSE p[h]]

(* An io_service is destroyed: what it had not run is never run.           *)
Dropped(p) ==
  [h \in SendHandles |->
     IF p[h] \in {"sending", "written", "aborted"} THEN "dropped" ELSE p[h]]

(* SendComplete looks neither at the error nor at how much was written.    *)
SendComplete(h) == h \in Completed /\ place' = [place EXCEPT ![h] = "free"]
=============================================================================
