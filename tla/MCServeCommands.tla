-------------------------- MODULE MCServeCommands ---------------------------
(***************************************************************************)
(* Names and environments for ServeCommands: one name of the user's, the   *)
(* two of the default zone and one that only the wildcard would match, in  *)
(* several spellings (all with the last dot, which a key leaves out); no   *)
(* entry, each entry alone, and pairs of entries in both orders: of one    *)
(* name in two spellings and of one or two types, of two names, with the   *)
(* default zone's name, and with one that does not parse.                  *)
(***************************************************************************)
EXTENDS ServeCommands

App == "app.test."
Web == "web.sidequest.local."
Local == "sidequest.local."
Star == "*.sidequest.local."

MCSpellings == {App, "App.Test.", "App_Test.", "app_test.", Web,
                Local, "SideQuest_Local.", "sidequest_local.", Star}
MCCanonical == [s \in MCSpellings |->
    CASE s \in {"App.Test.", "App_Test.", "app_test."} -> App
      [] s \in {"SideQuest_Local.", "sidequest_local."} -> Local
      [] OTHER -> s]
MCLower == [s \in MCSpellings |->
    CASE s = "App.Test." -> App
      [] s = "App_Test." -> "app_test."
      [] s = "SideQuest_Local." -> "sidequest_local."
      [] OTHER -> s]

E(key, type, parses) == [key |-> key, type |-> type, parses |-> parses]
AppA == E(App, "A", TRUE)
MCEntries == {AppA, E("App_Test.", "A", TRUE), E("App.Test.", "TXT", TRUE),
              E("app_test.", "A", FALSE), E("SideQuest_Local.", "A", TRUE), E(App, "SRV", TRUE)}
MCEnvirons == {<<>>} \union {<<e>> : e \in MCEntries}
    \union UNION {{<<AppA, e>>, <<e, AppA>>} : e \in MCEntries \ {AppA}}

MCArguments == {Missing, NotANumber, -1, 0, 1, 2, 3, 9, 99, 100, 101, 599, 600}
=============================================================================
