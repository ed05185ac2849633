----------------------------- MODULE MCSettings -----------------------------
(* Two handlers, a catalog of three providers, an alias and an unknown id. *)
EXTENDS SettingsStore

MCDefaultOrder == <<"cursor", "codex", "claude_code">>
MCCanonical == [id \in {"cursor", "codex", "claude_code", "claude", "kimi"} |->
                   IF id = "claude" THEN "claude_code" ELSE id]

Quiet(enabled, start, end, offset) ==
    [enabled |-> enabled, start |-> start, end |-> end, offset |-> offset]

\* defaultSettings, on a day of six minutes.
Fresh == [k \in Key |->
    CASE k = "poll_interval" -> 5
      [] k = "provider_order" -> MCDefaultOrder
      [] k = "enabled" -> TRUE
      [] k \in {"early", "danger"} -> 10
      [] k = "repeat" -> 0
      [] k = "quiet_hours" -> Quiet(FALSE, 5, 2, 0)
      [] OTHER -> <<>>]

\* Lists of a version that knew other providers.
Legacy == [Fresh EXCEPT !["provider_order"] = <<"kimi", "codex">>,
                        !["hidden_providers"] = <<"kimi", "claude", "claude_code">>]
MCStarts == {Fresh, Legacy}

RuleFor(p) == [provider |-> p, window |-> "", rule |-> [early |-> 20, danger |-> 5, repeat |-> 60]]

MCRequests == {
    <<>>,
    [provider_order |-> <<"claude", "cursor">>, hidden_providers |-> <<"codex">>],
    [provider_order |-> <<"codex">>],
    [hidden_providers |-> <<"claude">>, quiet_hours |-> Quiet(TRUE, 4, 1, 3)],
    [poll_interval |-> 15, overrides |-> <<RuleFor("codex")>>],
    [poll_interval |-> 2],
    [quiet_hours |-> Quiet(TRUE, 3, 3, 0)],
    [overrides |-> <<RuleFor("codex"), RuleFor("codex")>>]}
=============================================================================
