---------------------------- MODULE MCConversation ----------------------------
(* Small instances of RecallPipeline: scenarios of a few calls each.        *)
EXTENDS RecallPipeline

CONSTANTS p1, p2, s1, s2, s3

MCFact == {"tea", "coffee", "oslo", "rome", "paris", "joke", "tone", "mood",
           "rain", "snow"}

MCTopicOf ==
    [f \in MCFact |-> CASE f \in {"tea", "coffee"} -> "drink"
                        [] f \in {"oslo", "rome", "paris"} -> "home"
                        [] f \in {"tone", "mood"} -> "style"
                        [] OTHER -> f]
MCRoleOf == [f \in MCFact |-> IF f \in {"joke", "tone", "mood"} THEN "assistant" ELSE "user"]
MCTTLOf == [f \in MCFact |-> IF f = "oslo" THEN 1 ELSE None]

Old == <<"old", "oslo">>
Pin == <<"pin", "tone">>

\* What a call of ann is by default.
By(op) == [op |-> op, proc |-> p1, user |-> "ann", owner |-> "ann", agent |-> "bot",
           session |-> None, fresh |-> None, speaks |-> {}, target |-> None,
           trusted |-> FALSE, long |-> FALSE, compacts |-> FALSE, finds |-> FALSE,
           after |-> {}, faults |-> {}]

Says(facts) == [By("remember") EXCEPT !.session = s1, !.speaks = facts]
Event == [By("ingest") EXCEPT !.agent = None, !.speaks = {"rain"}]
Asks == [By("recall") EXCEPT !.session = s1, !.fresh = s2]

Jobs ==
    [ tea     |-> Says({"tea"}),
      coffee  |-> [Says({"coffee"}) EXCEPT !.compacts = TRUE,
                      !.faults = {"extract", "embed", "dedup", "compact"}],
      anyone  |-> [Says({"tea", "joke"}) EXCEPT !.session = None, !.agent = None,
                      !.faults = {"store"}],
      learn   |-> [By("infer") EXCEPT !.speaks = {"coffee"}, !.long = TRUE,
                      !.faults = {"extract", "embed", "store", "artifact"}],
      both    |-> [Says({"coffee", "joke"}) EXCEPT !.long = TRUE, !.trusted = TRUE,
                      !.faults = {"row", "artifact", "store"}],
      put     |-> [By("direct") EXCEPT !.speaks = {"joke"}, !.long = TRUE,
                      !.faults = {"artifact", "embed"}],
      move    |-> [Says({"rome"}) EXCEPT !.faults = {"store", "dedup"}],
      edit    |-> [By("update") EXCEPT !.speaks = {"paris"}, !.target = Old],
      fix     |-> [By("update") EXCEPT !.speaks = {"mood"}, !.target = Pin],
      drop    |-> [By("delete") EXCEPT !.target = Old],
      core    |-> By("core"),
      again   |-> [By("core") EXCEPT !.after = {"core"}, !.faults = {"core"}],
      there   |-> [By("core") EXCEPT !.proc = p2],
      later   |-> [By("core") EXCEPT !.proc = p2, !.after = {"there", "fix"}],
      guest   |-> [By("core") EXCEPT !.user = "bob"],
      greet   |-> [Asks EXCEPT !.session = None],
      ask     |-> [Asks EXCEPT !.speaks = {"tea"}, !.after = {"move"}, !.finds = TRUE],
      ask2    |-> [Asks EXCEPT !.session = s2, !.speaks = {"tea"}, !.after = {"greet"}, !.fresh = s3,
                      !.faults = {"core", "query", "find"}],
      search  |-> [By("search") EXCEPT !.agent = None],
      hint    |-> [Asks EXCEPT !.proc = p2, !.session = None,
                      !.fresh = s3, !.speaks = {"tea"}],
      tell    |-> Event,
      twin    |-> [Event EXCEPT !.proc = p2],
      twist   |-> [Event EXCEPT !.speaks = {"snow"}],
      slow    |-> [Event EXCEPT !.proc = p2, !.faults = {"slow", "embed"}],
      nudge   |-> [Asks EXCEPT !.proc = p2, !.session = s3,
                      !.speaks = {"tea"}, !.after = {"hint"}] ]

MCCall == DOMAIN Jobs
MCJobOf == [c \in MCCall |-> Jobs[c]]

\* tell and twin deliver one event, and so does twist, with another content.
MCRootOf == [c \in {"tell", "twin", "twist", "slow"} |->
                 IF c \in {"tell", "twin", "twist"} THEN "e1" ELSE "e2"]

MCLineageOf ==
    [c \in MCCall |-> [f \in MCJobOf[c].speaks |->
        <<IF c \in DOMAIN MCRootOf THEN "event" ELSE c, f>>]]

Drawn == {"tea", "coffee", "anyone", "learn", "both", "put", "move"}

MCPrior ==
    [m \in {Old, Pin} \cup {<<"event", "rain">>, <<"event", "snow">>}
            \cup UNION {{<<c, f>> : f \in MCJobOf[c].speaks} : c \in Drawn} |->
        CASE m = Old -> Inserted("oslo", "ann", "ann", None, "raw", FALSE, {}, 0)
          [] m = Pin -> Inserted("tone", "ann", "ann", "bot", "consolidated", TRUE, {}, 0)
          [] OTHER -> NoRow]

MCRevision == (DOMAIN MCPrior) \X Nat

MCOpened == {s1}

Scene(calls, ticks, restarts) == [calls |-> calls, ticks |-> ticks, restarts |-> restarts]

MCScenarios ==
    { Scene({"tea", "coffee"}, 0, {p1}), Scene({"anyone", "move"}, 0, {}),
      Scene({"move", "edit"}, 0, {}), Scene({"learn", "both"}, 0, {}),
      Scene({"drop", "edit"}, 0, {}), Scene({"put", "drop", "core"}, 0, {}),
      Scene({"core", "fix", "again"}, 1, {}), Scene({"there", "fix", "later"}, 2, {}),
      Scene({"move", "ask"}, 2, {p1}), Scene({"greet", "ask2"}, 1, {p1}),
      Scene({"greet", "both", "ask2"}, 0, {}), Scene({"search", "drop"}, 2, {}),
      Scene({"hint", "nudge"}, 2, {}), Scene({"guest", "fix"}, 2, {}),
      Scene({"tell", "slow"}, 0, {p1}), Scene({"tell", "twin", "twist"}, 0, {p1}),
      Scene({"tell", "twin", "slow"}, 0, {p1}) }

\* The scenarios meet the hypothesis of the proofs, and the bound on sessions.
ASSUME ScenarioHypotheses == EditsAreNotRetold /\ SessionsAtHome
===============================================================================
