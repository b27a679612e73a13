----------------------------- MODULE MCAppShell -----------------------------
(***************************************************************************)
(* The shell and its sidebar for TLC. They share no variable, so their     *)
(* state spaces are searched side by side: "part" says which one moves and *)
(* the other stays where it starts. The shell's is searched in two parts:  *)
(* "shell" without the failed writes of the session and those of another   *)
(* window, and "session" with them but with the one connection of the      *)
(* tables.                                                                 *)
(* For the shell: two tables of a database, and a query console of another *)
(* connection. The other window has one table open.                        *)
(***************************************************************************)
EXTENDS AppShell, Sidebar

Table(name) == [kind |-> "table", connection |-> "c1", database |-> "d", table |-> name]
MCRoutes == {Table("t1"), Table("t2"),
             [kind |-> "query", connection |-> "c2", database |-> ""]}

MCOtherSessions ==
  {[tabs |-> <<[id |-> IdOf(Table("t2"), 0), route |-> Table("t2")]>>,
    active |-> IdOf(Table("t2"), 0)]}

VARIABLE part

pageVars == <<part, shellVars, treeVars>>

PageInit ==
  /\ part \in {"shell", "session", "tree"}
  /\ ShellInit
  /\ SidebarInit /\ (part # "tree" => known = {})

PageNext ==
  \/ part = "shell" /\ WindowNext /\ ~unsaved' /\ UNCHANGED <<part, treeVars>>
  \/ part = "session" /\ ShellNext /\ connections' \subseteq {"c1"}
     /\ UNCHANGED <<part, treeVars>>
  \/ part = "tree" /\ SidebarNext /\ UNCHANGED <<part, shellVars>>

PageSpec == PageInit /\ [][PageNext]_pageVars /\ WF_shellVars(RunEffects)
=============================================================================
