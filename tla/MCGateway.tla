----------------------------- MODULE MCGateway -----------------------------
(***************************************************************************)
(* Instances of Gateway for TLC.  Every kind of environment is launched,   *)
(* one thing wrong at a time; traffic of each sort meets the environments  *)
(* that switch its parts on and off.                                       *)
(***************************************************************************)
EXTENDS Gateway

Plain == [flag |-> FALSE, bare |-> "unset", external |-> FALSE,
          paths |-> "packaged", required |-> "set", model |-> "unset",
          bot |-> "unset", token |-> "unset", rate |-> FALSE, burst |-> FALSE,
          dedup |-> "sqlite"]
Bare == [Plain EXCEPT !.bare = "on"]
Full == [Bare EXCEPT !.rate = TRUE, !.burst = TRUE, !.token = "strong"]
NoDedup == [Full EXCEPT !.dedup = "disabled", !.burst = FALSE]

Launches ==
    {Plain, Bare, [Plain EXCEPT !.flag = TRUE], [Plain EXCEPT !.bare = "off"],
     [Plain EXCEPT !.bare = "odd"], [Plain EXCEPT !.bare = "odd", !.flag = TRUE],
     [Plain EXCEPT !.external = TRUE], [Plain EXCEPT !.paths = "stray"],
     [Plain EXCEPT !.paths = "unset"], [Plain EXCEPT !.required = "blank"],
     [Bare EXCEPT !.required = "blank"], [Bare EXCEPT !.required = "missing"],
     [Bare EXCEPT !.model = "blank"], [Plain EXCEPT !.bot = "blank"],
     [Plain EXCEPT !.token = "short"]}

MCEnvironments == Launches \cup {Full, NoDedup}

Webhook(delivery, signature, event, payload) ==
    [route |-> "webhook", delivery |-> delivery,
     signature |-> signature, event |-> event, payload |-> payload]
Ci(authorised, wellformed, head) ==
    [route |-> "ci", authorised |-> authorised, wellformed |-> wellformed,
     head |-> head]

MCKind ==
    [w1 |-> Webhook("d1", "good", "issue_comment", "mention"),
     w2 |-> Webhook("d1", "good", "issue_comment", "mention"),
     w3 |-> Webhook("d2", "good", "issue_comment", "mention"),
     w4 |-> Webhook("d1", "missing", "issue_comment", "mention"),
     w5 |-> Webhook("d3", "good", "issue_comment", "broken"),
     w6 |-> Webhook("none", "good", "ping", "inert"),
     w7 |-> Webhook("d4", "malformed", "pull_request", "inert"),
     w8 |-> Webhook("d5", "good", "issue_comment", "inert"),
     w9 |-> Webhook("d5", "good", "other", "inert"),
     w10 |-> Webhook("none", "good", "pull_request", "inert"),
     c1 |-> Ci(TRUE, TRUE, 1), c2 |-> Ci(TRUE, TRUE, 2),
     c3 |-> Ci(FALSE, TRUE, 1), c4 |-> Ci(TRUE, FALSE, 1),
     r1 |-> [route |-> "ready"], r2 |-> [route |-> "ready"],
     r3 |-> [route |-> "ready"],
     s1 |-> [route |-> "metrics"]]

Traffic == {{"w1", "w2", "w4"}, {"w1", "w3"}, {"w5", "w6", "w7"},
            {"c1", "c2"}, {"c3", "c4"}, {"r1", "r2", "r3"}, {"s1", "t1", "t2"}}
Acknowledged == {"w8", "w9", "w10"}
MCLoads == Traffic \cup {{}, Acknowledged}
MCScenarios == (Launches \X {{}}) \cup ({Full} \X Traffic)
               \cup {<<NoDedup, {"w1", "w2", "w4"}>>, <<Bare, {"c3", "c4"}>>,
                     <<Bare, Acknowledged>>}
=============================================================================
