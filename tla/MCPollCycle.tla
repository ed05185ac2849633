---------------------------- MODULE MCPollCycle ----------------------------
(* A catalog of three providers, one of them with an alias, and Devin.     *)
EXTENDS PollCycle

MCDefaultOrder == <<"codex", "claude_code", "devin">>
MCPluginOrder == <<"claude", "codex">>
MCCanonical == [id \in {"codex", "claude", "claude_code", "devin", "windsurf", "kimi"} |->
                   CASE id = "claude" -> "claude_code" [] id = "windsurf" -> "devin" [] OTHER -> id]

Plain == [kind |-> "", unit |-> "percent", utilization |-> None, used |-> None, limit |-> None,
          remaining |-> None, available |-> None, clock |-> None, seconds |-> None]
Session(used) == <<"session", 1>> :> [Plain EXCEPT !.utilization = used, !.clock = "later"]
Weekly(used) == <<"weekly", 1>> :> [Plain EXCEPT !.used = used]
Noisy == <<"api", 1>> :> [Plain EXCEPT !.limit = 10, !.remaining = 4]
Raw(stale, resources) == [stale |-> stale, resources |-> resources]
Limits(providers, errors) == [kind |-> "limits", env |-> [providers |-> providers, errors |-> errors]]
Body(body, devin) == [mode |-> "body", body |-> body, devin |-> devin]
Line(label, used) == [type |-> "progress", label |-> label, format |-> "percent", used |-> used,
                      limit |-> 100, clock |-> None, seconds |-> None]

Fails == [kind |-> "error"]
\* The binary refuses to answer for all plugins at once; Codex fails.
OneByOne == [mode |-> "binary", all |-> Fails, devin |-> None,
             each |-> [id \in {"claude", "codex"} |->
                         IF id = "claude"
                         THEN Limits(("claude" :> Raw(FALSE, Session(60))) @@ ("claude_code" :> Raw(FALSE, <<>>)), {"kimi"})
                         ELSE Limits("codex" :> Raw(FALSE, <<>>), {"codex", "claude"})]]

MCUpstreams == {
    Body(None, None),
    Body([kind |-> "junk"], None),
    OneByOne,
    \* Claude is current under one name and stale under the other, Codex has an
    \* error beside its windows, Devin has no balance.
    Body(Limits(("claude" :> Raw(FALSE, Session(60))) @@ ("claude_code" :> Raw(TRUE, Weekly(20) @@ Noisy))
                @@ ("codex" :> Raw(FALSE, Session(130))) @@ ("kimi" :> Raw(FALSE, Weekly(5))), {"codex"}),
         [balance |-> None]),
    \* Codex is stale and has nothing to show, Claude is not in the report,
    \* Devin is collected by itself.
    Body([kind |-> "lines", lines |-> <<[id |-> "codex", stale |-> TRUE, lines |-> <<>>],
             [id |-> "windsurf", stale |-> FALSE, lines |-> <<Line("weekly", 1), Line("weekly", 30)>>]>>],
         [balance |-> [used |-> 3, available |-> 9, clock |-> None, seconds |-> None]])}

\* An earlier version stored providers under their raw ids, and twice.
Entries(id, windows) == [id |-> id, stale |-> FALSE, error |-> FALSE, windows |-> windows, credits |-> None]
MCStored == {None,
    [at |-> 0, stale |-> FALSE, providers |->
        <<Entries("claude", Windows(Session(10))), Entries("kimi", Windows(Weekly(5))),
          Entries("claude_code", Windows(Session(50) @@ Weekly(50)))>>]}
=============================================================================
