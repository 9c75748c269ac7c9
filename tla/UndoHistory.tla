----------------------------- MODULE UndoHistory -----------------------------
(***************************************************************************)
(* What undo, redo and discarding promise the user of a briefcase, told    *)
(* without Txns, ids or files: a line of recorded states.  Undo goes back  *)
(* to an earlier one, redo returns to exactly the states undo left,        *)
(* discarding gives the version the briefcase started from; each takes     *)
(* effect at once or not at all.                                           *)
(***************************************************************************)
EXTENDS Integers, Sequences, SequencesExt

CONSTANT States

VARIABLES
    current,    (* the state that is recorded                               *)
    past,       (* the states before it that undo can go back to            *)
    future,     (* what was undone, one element for each undo: the states   *)
                (* it left, in the order they were recorded                 *)
    base,       (* the version of the iModel local changes are made to      *)
    command     (* what the user has asked for                              *)

line == <<current, past, future>>
vars == <<line, base, command>>

Commands == {"None", "Reverse", "Reinstate", "Discard", "DeleteAll"}

Init ==
    /\ current \in States /\ base = current
    /\ past = <<>> /\ future = <<>> /\ command = "None"

(* The user asks.  Who gives up all changes cannot have them back.         *)
Begin(op) ==
    /\ command = "None" /\ command' = op
    /\ future' = IF op = "Discard" THEN <<>> ELSE future
    /\ UNCHANGED <<current, past, base>>

(* Undo goes back n states.  The states it leaves can be had again, unless *)
(* it was asked to cancel them.                                            *)
Undone(n) == Append(SubSeq(past, Len(past) - n + 2, Len(past)), current)

Undo ==
    /\ command = "Reverse" /\ command' = "None"
    /\ \E n \in 1..Len(past) :
          /\ current' = past[Len(past) - n + 1]
          /\ past' = SubSeq(past, 1, Len(past) - n)
          /\ future' \in {Append(future, Undone(n)), <<>>}
    /\ UNCHANGED base

Redo ==
    /\ command = "Reinstate" /\ command' = "None"
    /\ future # <<>>
    /\ current' = Last(Last(future))
    /\ past' = Append(past, current) \o Front(Last(future))
    /\ future' = Front(future)
    /\ UNCHANGED base

Discard ==
    /\ command = "Discard" /\ command' = "DeleteAll"
    /\ current' = base
    /\ past' = <<>>
    /\ UNCHANGED <<future, base>>

(* The command is over; it may have failed, and changed nothing.           *)
End ==
    /\ command # "None" /\ command' = "None"
    /\ future' \in {future, <<>>}
    /\ UNCHANGED <<current, past, base>>

(* A save records a state and ends what could be redone.  It may also end  *)
(* what can be undone: before it, or before a part of it.                  *)
Save ==
    /\ command = "None"
    /\ current' \in States
    /\ past' \in {Append(past, current), <<current>>, <<>>}
    /\ future' = <<>>
    /\ UNCHANGED command

(* A failed save forgets what could be redone, a new session what could be *)
(* undone too.  Nothing is recorded then.                                  *)
Forget ==
    /\ command = "None"
    /\ past' \in {past, <<>>} /\ future' = <<>>
    /\ UNCHANGED <<current, command>>

(* Changes that were pushed are part of the version.  Those made since may *)
(* be saved, or a session ended, by the same call, or without a push.      *)
Push ==
    /\ base' \in States
    /\ UNCHANGED <<line, command>> \/ Save \/ Forget

Restart ==
    /\ past' = <<>> /\ future' = <<>> /\ command' = "None"
    /\ UNCHANGED <<current, base>>

Next ==
    \/ Push
    \/ \E op \in {"Reverse", "Reinstate", "Discard"} : Begin(op)
    \/ Undo \/ Redo \/ Discard \/ End \/ Restart

Spec == Init /\ [][Next]_vars
===============================================================================
