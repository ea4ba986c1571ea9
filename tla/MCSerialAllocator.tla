-------------------------- MODULE MCSerialAllocator --------------------------
(***************************************************************************)
(* The worlds SerialAllocator is checked in.                               *)
(***************************************************************************)
EXTENDS SerialAllocator

CONSTANTS w1, w2, c1, c2

World(windows, contacts, reserve) ==
  [windows |-> windows, contacts |-> contacts, reserve |-> reserve,
   faults |-> 0, opens |-> 0, modes |-> 0]

(* Reservations of two windows cross, requests and sockets fail.            *)
Reserving == [World({w1, w2}, {c1, c2}, TRUE) EXCEPT !.faults = 1]

(* A window is left or reloaded in the middle of a request.                 *)
Leaving == [World({w1}, {c1, c2}, TRUE) EXCEPT !.faults = 1, !.opens = 2]

(* Without reservations: contacts cross the requests for the state.         *)
Counting == [World({w1, w2}, {c1, c2}, FALSE) EXCEPT !.faults = 2, !.modes = 1]

(* Without reservations: a window is left, or reloaded, with contacts that  *)
(* wait for the backend.                                                    *)
Revisiting == [World({w1}, {c1, c2}, FALSE) EXCEPT !.faults = 1, !.opens = 2]

Worlds == {Reserving, Leaving, Counting, Revisiting}

=============================================================================
