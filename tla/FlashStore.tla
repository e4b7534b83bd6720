----------------------------- MODULE FlashStore -----------------------------
(***************************************************************************)
(* What the users of the NAND driver may rely on: a store of cells that    *)
(* serves one request at a time.  A write or an erase reaches the cells    *)
(* in the order it names them, perhaps in several steps, and nobody else   *)
(* is served between its first step and its end; a read is answered with   *)
(* what the cells hold at one moment.                                      *)
(***************************************************************************)
EXTENDS Naturals, Sequences

CONSTANTS
  Users,      (* who may ask                                               *)
  Cells,      (* the places of the store                                   *)
  Blank,      (* what a cell holds at first                                *)
  Requests,   (* what they may ask: [put, get], sequences of cells, put    *)
              (* with the value each is given                              *)
  Nobody,     (* no user                                                   *)
  Idle        (* no request                                                *)

VARIABLES
  cells,      (* what each cell holds                                      *)
  todo,       (* of each user, what is left of its request                 *)
  turn,       (* the user whose request has begun to change cells          *)
  answer      (* of each user, what its last request returned              *)

vars == <<cells, todo, turn, answer>>

Init ==
  /\ cells = [c \in Cells |-> Blank]
  /\ todo = [u \in Users |-> Idle]
  /\ turn = Nobody
  /\ answer = [u \in Users |-> <<>>]

(* The cells once the pairs of s, a cell and a value, have been laid down. *)
Laid(s) ==
  [c \in Cells |-> LET hits == {k \in DOMAIN s : s[k][1] = c} IN
     IF hits = {} THEN cells[c] ELSE s[CHOOSE k \in hits : TRUE][2]]

Ask(u) ==
  /\ todo[u] = Idle
  /\ \E r \in Requests : todo' = [todo EXCEPT ![u] = r]
  /\ UNCHANGED <<cells, turn, answer>>

Put(u) ==
  /\ todo[u] # Idle
  /\ turn \in {Nobody, u}
  /\ turn' = u
  /\ \E n \in 1 .. Len(todo[u].put) :
       /\ cells' = Laid(SubSeq(todo[u].put, 1, n))
       /\ todo' = [todo EXCEPT ![u].put = SubSeq(@, n + 1, Len(@))]
  /\ UNCHANGED answer

Answer(u) ==
  /\ todo[u] # Idle
  /\ todo[u].put = <<>>
  /\ turn \in {Nobody, u}
  /\ answer' = [answer EXCEPT ![u] =
       [k \in DOMAIN todo[u].get |-> cells[todo[u].get[k]]]]
  /\ todo' = [todo EXCEPT ![u] = Idle]
  /\ turn' = Nobody
  /\ UNCHANGED cells

Next == \E u \in Users : Ask(u) \/ Put(u) \/ Answer(u)

Spec == Init /\ [][Next]_vars
=============================================================================
