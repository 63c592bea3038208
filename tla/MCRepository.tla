---------------------------- MODULE MCRepository ----------------------------
(* The shapes of functions of db.py: get_site_role(), create_project_invite(), which
   may refuse, add_user_feedback_message() when the conversation does not wait, and
   start_site_incident(), which writes twice with a fetch in between. *)
EXTENDS Repository

MCFunctions ==
    {<<"read", "fetch">>,
     <<"lock", "fetch", "rollback">>,
     <<"lock", "fetch", "write", "fetch", "commit">>,
     <<"write", "fetch", "rollback">>,
     <<"write", "fetch", "write", "commit">>}
=============================================================================
