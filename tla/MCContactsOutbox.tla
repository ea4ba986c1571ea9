-------------------------- MODULE MCContactsOutbox --------------------------
(***************************************************************************)
(* The worlds ContactsOutbox is checked in.  Each brings out one kind of   *)
(* difficulty; a run that takes several starts in any of them.             *)
(***************************************************************************)
EXTENDS ContactsOutbox, TLC

CONSTANTS w1, w2, q1, q2, b1, b2

OneWindow == w1 :> b1
TwoBrowsers == w1 :> b1 @@ w2 :> b2
World(browserOf, newest, ops, maxRows) ==
  [browserOf |-> browserOf, newest |-> newest, rejected |-> {},
   filters |-> {ToSet(newest)}, ops |-> ops, backlog |-> 3, rows |-> maxRows,
   edits |-> 0, losses |-> 0, reloads |-> 0, refreshes |-> 0]

(* One window: a search, refreshes, a dropped socket and a lost answer.     *)
Searching ==
  [World(OneWindow, <<q2, q1>>, {"refresh", "disconnect"}, 4)
     EXCEPT !.filters = {{q1, q2}, {q1}}, !.losses = 1, !.refreshes = 1]

(* The page is reloaded, and an answer may be lost as well.                 *)
Reloading ==
  [World(OneWindow, <<q2, q1>>, {}, 3) EXCEPT !.losses = 1, !.reloads = 1]

(* A contact the backend refuses beside one it takes, and deletions.        *)
Refusing ==
  [World(OneWindow, <<q2, q1>>, {"delete"}, 2) EXCEPT !.rejected = {q1}, !.losses = 1]

(* Two windows edit and delete one contact; one event at most waits.        *)
Crossing ==
  [World(TwoBrowsers, <<q1>>, {"edit", "delete"}, 1) EXCEPT !.edits = 1, !.backlog = 1]

(* A commit changes the score of the other window's contact.                *)
Rescoring == World(TwoBrowsers, <<q2, q1>>, {"rescore"}, 2)

(* A deletion frees a row id, and the next contact takes it.                *)
Reusing == World(OneWindow, <<q2, q1>>, {"delete"}, 2)

SafeWorlds == {Searching, Reloading, Refusing, Crossing, Rescoring, Reusing}

(* The names of the windows and of the browsers mean nothing.               *)
Names == Permutations({w1, w2}) \cup Permutations({b1, b2})
=============================================================================
