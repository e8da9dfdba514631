---------------------------- MODULE MC_Session ----------------------------
(* Two names that the server has and one that it has not.                  *)
EXTENDS Session

MCSearchLists == { << "r", "p" >> }
MCLists == { << "p" >>, << "p", "q" >> }
MCAddLists == { << "p" >> }
=============================================================================
