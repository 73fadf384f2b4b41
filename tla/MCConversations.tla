-------------------------- MODULE MCConversations --------------------------
(* Three requests of two devices on one thread and one workspace file.     *)
EXTENDS Conversations, TLC

CONSTANTS x, y

MCDocs == {NoFile, [Blank EXCEPT ![x] = 1]}

MCProposals ==
    {[op |-> "write_file", text |-> [Blank EXCEPT ![x] = 1]],
     [op |-> "render_document", text |-> [Blank EXCEPT ![y] = 1]],
     [op |-> "edit_file", old |-> x, new |-> {x, y}, count |-> 1],
     [op |-> "delete_file"]}

Number(k, of) == Cardinality({a \in Actor : k[a] = of})

(* One run among any two other requests, or two runs by themselves: more   *)
(* runs at a time are out of TLC's reach.                                  *)
MCWorkloads ==
    {k \in [Actor -> Kinds \cup {"none"}] :
        \/ Number(k, "run") = 1 /\ Number(k, "none") = 0
        \/ Number(k, "run") = 2 /\ Number(k, "none") = 1}

Requests == Permutations(Actor)
=============================================================================
