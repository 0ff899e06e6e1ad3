------------------------------ MODULE MCPlatform ------------------------------
(* Finite instances of Platform.                                           *)
EXTENDS Platform

MCOffered ==
  [cdp       |-> {Object("e1", Text("t"), "yes"), Object("e2", Placeholder, "yes"),
                  Object("keyless", Text("t"), "yes"), OtherValue},
   logging   |-> {Object("debug", NoSecret, "yes"), Object("badlevel", NoSecret, "yes"),
                  Object("baddirectory", NoSecret, "yes")},
   telegram  |-> {Object("chat", Text("bot"), "yes"), Object("chat", Placeholder, "yes")},
   webhook   |-> {Object("url", NoSecret, "no")},
   admin     |-> {Object("admin", NoSecret, "yes"), Object("admin", Text("p"), "yes")}]

(* One PUT of the browser row, with a token. *)
MCToken == [k \in Keys |-> IF k = "cdp" THEN {Object("e1", Text("t"), "yes")} ELSE {}]

MCPasswords == {"admin", "p"}

MCTexts == {"", "admin", "default", "keyless", "e1", "e2", "t", "debug", "badlevel", "baddirectory",
            "chat", "bot", "url"} \cup MCPasswords

MCImports == [x \in {"v1", "v2", "uses", "raises", "misdeclared", "unparsable"} |->
               IF x = "uses" THEN "lib" ELSE "absent"]

Mix(kinds, n) == [kinds |-> kinds, requests |-> n]

MCWorkloads ==
  {Mix({"settings"}, 3), Mix({"sources", "files"}, 5), Mix({"packages"}, 3), Mix({"sources", "packages"}, 3),
   Mix({"settings", "attempts"}, 2), Mix({"probe"}, 1)}

MCOnePut == {Mix({"settings"}, 1)}
=============================================================================
