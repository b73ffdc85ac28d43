--------------------------- MODULE MCSharedFiles ---------------------------
(***************************************************************************)
(* Constants of the run of SharedFiles: two savers of bundles of different *)
(* lengths and a reader; a saver and a reader of a file being edited, and  *)
(* its hash; and a command that looks up its credentials while their files *)
(* are edited.                                                             *)
(***************************************************************************)
EXTENDS SharedFiles

MCSize == [p \in {"anchor1", "anchor2"} |-> IF p = "anchor1" THEN 3 ELSE 2]
MCContents == {<<"a", "b", "a">>, <<"b">>}

Line(name, value) == [name |-> name, value |-> value]
Comment == Line(Unset, Unset)
MCLines ==
  {<<>>, <<Comment, Line("api_key", "k1"), Line("api_url", "u1")>>,
   <<Line("api_url", "u2"), Line("api_key", "k2"), Line("api_key", "k3"), Line("api_url", "u3")>>,
   <<Line("api_key", Empty)>>}

(* Flags and variables that are given, empty or not there: the two of the  *)
(* key in every way, then those of the endpoint; and the directories.      *)
Texts(given) == {Unset, Empty, given}
Setting(k, e, u, v, c, h, p) ==
  [flags |-> [key |-> k, url |-> u],
   env |-> [key |-> e, url |-> v, configHome |-> c, home |-> h, userProfile |-> p]]
Flagged == Setting("flag", Unset, "flag", Unset, Unset, Unset, Unset)
MCSettings ==
  {Setting(k, e, Unset, Unset, c, h, "home") :
     k \in Texts("flag"), e \in Texts("env"), c \in Texts("work"), h \in {Unset, "home"}}
  \union
  {Setting(Unset, Unset, u, v, c, Unset, p) :
     u \in Texts("flag"), v \in Texts("env"), c \in Texts("work"), p \in {Unset, "home"}}

Cast(processes, settings, homes, contents, changes) ==
  [processes |-> processes, settings |-> settings, homes |-> homes,
   contents |-> contents, edits |-> changes]

MCCasts ==
  {Cast({"anchor1", "anchor2", "verify"}, {Flagged}, {}, {<<"b">>}, [file |-> 0, config |-> 0]),
   Cast({"anchor2", "verify"}, {Flagged}, {}, {<<"b">>}, [file |-> 2, config |-> 0]),
   Cast({"hash"}, {Flagged}, {}, MCContents, [file |-> 3, config |-> 0]),
   Cast({"anchor1"}, MCSettings, {"home", "work"}, {<<>>}, [file |-> 0, config |-> 1])}

=============================================================================
