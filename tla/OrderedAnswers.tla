--------------------------- MODULE OrderedAnswers ---------------------------
(***************************************************************************)
(* What a server on a stream of lines promises: every line is dealt with   *)
(* once, in the order of the lines, with one of the replies that are       *)
(* proper for it.  A reply is a sequence of answers: it may be empty.      *)
(***************************************************************************)
EXTENDS Sequences

CONSTANTS
  Lines,    \* what may be on a line
  Proper(_) \* the replies that are proper for a line

VARIABLES
  todo,     \* the lines not dealt with
  answered  \* the answers given

Init == todo \in Seq(Lines) /\ answered = <<>>

Answer ==
  /\ todo # <<>>
  /\ todo' = Tail(todo)
  /\ \E reply \in Proper(Head(todo)) : answered' = answered \o reply

Spec == Init /\ [][Answer]_<<todo, answered>>

=============================================================================
