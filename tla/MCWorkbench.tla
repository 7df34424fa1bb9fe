---------------------------- MODULE MCWorkbench ----------------------------
(* Three webhooks on pages of two; fixtures with a label twice, with one  *)
(* and with none; two reviews of one pull request; a tree with a link out *)
(* of the workspace, a skipped directory and a file that is too large.    *)
EXTENDS Workbench

MCHooks == [i \in 1..3 |-> [id |-> i, ours |-> i \in {1, 3}]]
MCFixtures == <<<<"a", "a", "b">>, <<"a">>, <<>>>>
Symmetry == Permutations(Operators) \cup Permutations(Callers)
            \cup Permutations(Scopes) \cup Permutations(Reviews)
MCBaselines ==
    {[fixtures |-> 3, successes |-> n, found |-> 4, mean |-> 1, median |-> 1, p99 |-> 1,
      labels |-> [labelled |-> l, matched |-> 2, missed |-> 2, spurious |-> 1]] :
        n \in {2, 3}, l \in BOOLEAN}

MCPrOf == [r \in Reviews |-> "p1"]
Model(url, model) == [url |-> url, model |-> model]
MCModelOf == [t \in {"reasoning", "embedding"} |->
                 IF t = "embedding" THEN Model("u", "small") ELSE Model("u", "large")]
MCDefaults == Model("none", "large") :> [input |-> 2, output |-> 3]
MCOverrides == Model("u", "large") :> [input |-> 1, output |-> 1]
               @@ Model("none", "small") :> [input |-> 1, output |-> 2]
MCAmounts == {<<3, 1>>}

Dir(parent, name) == [parent |-> parent, name |-> name, kind |-> "dir",
                      target |-> "missing", lines |-> <<>>]
File(parent, name, lines) == [Dir(parent, name) EXCEPT !.kind = "file", !.lines = lines]
Link(parent, name, to) == [Dir(parent, name) EXCEPT !.kind = "link", !.target = to]

MCNodes == {"top", "ws", "src", "deep", "target", "a", "b", "c", "large", "out", "secret",
            "same", "dangling"}
MCNode ==
    [n \in MCNodes |->
        CASE n = "top" -> Dir("none", "/")
          [] n = "ws" -> Dir("top", "ws")
          [] n = "src" -> Dir("ws", "src")
          [] n = "deep" -> Dir("src", "deep")
          [] n = "target" -> Dir("ws", "target")
          [] n = "a" -> File("src", "a", <<TRUE, FALSE, TRUE>>)
          [] n = "b" -> File("deep", "b", <<TRUE>>)
          [] n = "c" -> File("target", "c", <<TRUE>>)
          [] n = "large" -> File("src", "large", <<TRUE, TRUE, TRUE, TRUE, TRUE>>)
          [] n = "secret" -> File("top", "secret", <<TRUE>>)
          [] n = "out" -> Link("ws", "out", "secret")
          [] n = "same" -> Link("ws", "same", "a")
          [] n = "dangling" -> Link("ws", "dangling", "missing")]
MCRequests ==
    [absolute : BOOLEAN,
     parts : {<<>>, <<"src">>, <<"src", "a">>, <<"src", "large">>, <<"src", "deep">>,
              <<"target">>, <<"out">>, <<"same">>, <<"dangling">>, <<"src", "gone">>,
              <<"..", "secret">>, <<"src", "a", "x">>}]

MCSettings ==
    LET good == [urls |-> TRUE, reasoning |-> "named", cheap |-> "named",
                 embedding |-> "named", bare |-> "on", bot |-> "fine", ci |-> "unset",
                 secret |-> "good"]
    IN  {good,
         [good EXCEPT !.urls = FALSE, !.secret = "unset", !.reasoning = "unset",
                      !.bare = "odd"],
         [good EXCEPT !.bare = "off", !.cheap = "elsewhere", !.embedding = "unset"],
         [good EXCEPT !.bot = "blank", !.ci = "short", !.embedding = "malformed"],
         [good EXCEPT !.reasoning = "blank", !.secret = "short", !.cheap = "unset",
                      !.ci = "strong"]}
=============================================================================
