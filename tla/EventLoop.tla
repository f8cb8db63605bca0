------------------------------ MODULE EventLoop ------------------------------
(***************************************************************************)
(* The loop every part of inkstand runs on: inkwell's, an external         *)
(* library, modelled from how src/ uses it (inkwell_loop_add_fd,           *)
(* inkwell_loop_remove_fd, callbacks of the form `int cb(fd, events, ud)`).*)
(*                                                                         *)
(* One poll collects every watched descriptor that is ready into a batch;  *)
(* the callbacks of the batch then run one at a time, and nothing is       *)
(* polled again until the batch is empty.  A descriptor readied, or a      *)
(* readiness taken away, by an earlier callback of a batch leaves the      *)
(* batch as it is: a callback can run for a readiness that is gone.  A     *)
(* descriptor removed from the loop is not called any more.  Nothing in    *)
(* src/ settles the order of a batch, so any order is possible.            *)
(***************************************************************************)

VARIABLES
  watched,    (* The descriptors registered on the loop.                   *)
  batch       (* Those found ready by the last poll and not yet served.    *)

LoopInit == watched = {} /\ batch = {}

(* inkwell_loop polls: everything watched and ready, all at once. *)
Collect(ready) ==
  /\ batch = {}
  /\ ready \intersect watched # {}
  /\ batch' = ready \intersect watched
  /\ UNCHANGED watched

(* It is fd's turn in the batch. *)
Turn(fd) == fd \in batch

(* The batch goes on without fd, which has been served. *)
Served(fd) == batch' = batch \ {fd}

(* Slip: a removed descriptor is still called for the batch it is in. *)
UnwatchLater(fds) ==
  /\ watched' = watched \ fds
  /\ UNCHANGED batch

(* inkwell_loop_remove_fd for each of fds, a pending readiness with it. *)
Unwatch(fds) ==
  /\ watched' = watched \ fds
  /\ batch'   = batch \ fds

(* inkwell_loop_add_fd for each of fds. *)
Watch(fds) ==
  /\ watched' = watched \union fds
  /\ UNCHANGED batch
=============================================================================
