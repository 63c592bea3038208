------------------------------ MODULE MCDeletion ------------------------------
(* The project and its deletions on small sets; one kind of request at a time. *)
EXTENDS Deletion

MCUrls == <<"u", "v">>
MCWindows == {<<1, 3>>, <<0, 2>>, <<2, 4>>}

MCScopes ==
    {[kinds |-> {"add"}, atOnce |-> 2, sites |-> 0, invites |-> 1, prompts |-> 0],
     [kinds |-> {"edit", "remove"}, atOnce |-> 2, sites |-> 2, invites |-> 2, prompts |-> 0],
     [kinds |-> {"window"}, atOnce |-> 2, sites |-> 1, invites |-> 1, prompts |-> 0],
     [kinds |-> {"check", "pause", "remove"}, atOnce |-> 2, sites |-> 2, invites |-> 1,
      prompts |-> 0],
     [kinds |-> {"edit"}, atOnce |-> 1, sites |-> 1, invites |-> 1, prompts |-> 1],
     [kinds |-> {}, atOnce |-> 0, sites |-> 1, invites |-> 0, prompts |-> 3],
     [kinds |-> {}, atOnce |-> 0, sites |-> 2, invites |-> 1, prompts |-> 2]}
=============================================================================
