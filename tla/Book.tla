-------------------------------- MODULE Book --------------------------------
(***************************************************************************)
(* What a book of positions promises about an account whose trades it     *)
(* follows: a trade is first taken over, and a trade taken over is posted  *)
(* at most once, wholly, to the position it names. A trade may be taken    *)
(* over and never posted. PositionBooks is shown to implement this.        *)
(***************************************************************************)
EXTENDS Naturals

CONSTANTS
  Trade,   \* the trades of the account
  Place    \* the positions a trade can name (symbol and side)

VARIABLES
  taken,   \* trades the book has taken over
  posted,  \* trades it has posted
  held     \* held[p]: the quantity the book holds at place p

bookVars == <<taken, posted, held>>

BookInit ==
  /\ taken = {}
  /\ posted = {}
  /\ held = [p \in Place |-> 0]

Take(t) ==
  /\ t \notin taken
  /\ taken' = taken \union {t}
  /\ UNCHANGED <<posted, held>>

(* A trade either adds its quantity to its place or takes it off, and a    *)
(* place never owes: a trade larger than what is held empties it.          *)
Post(t, p, kind, qty) ==
  /\ t \in taken \ posted
  /\ posted' = posted \union {t}
  /\ held' = [held EXCEPT ![p] = IF kind = "open" THEN @ + qty
                                 ELSE IF qty < @ THEN @ - qty ELSE 0]
  /\ UNCHANGED taken
=============================================================================
