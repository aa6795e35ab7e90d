----------------------------- MODULE MCCommands -----------------------------
(* Instances of Commands for TLC. *)
EXTENDS Commands

\* Numbers at the borders of the fields, names inside and outside their tables.
Numbers == {0, 1, 6, 7, 8, 12, 13, 23, 24, 31, 32, 59, 60}
Tokens == [v: Numbers \cup {Junk}, named: {FALSE}] \cup [v: {0, 1, 5, 12}, named: {TRUE}]
Zero == [v |-> 0, named |-> FALSE]
Steps == {NoStep, Junk, 0, 1, 7}

Parts ==
  [kind: {"star", "blank"}, from: {Zero}, to: {Zero}, step: Steps]
    \cup [kind: {"value"}, from: Tokens, to: {Zero}, step: {NoStep, 0, 7}]
    \cup [kind: {"range"}, from: Tokens, to: Tokens, step: {NoStep, Junk, 7}]

Star == [kind |-> "star", from |-> Zero, to |-> Zero, step |-> NoStep]

MCInputs == [
  cron |-> [fields: {5}, at: 1..5, parts: {<<p>> : p \in Parts}]
             \cup [fields: {5}, at: {3, 5}, parts: {<<Star, p>> : p \in {q \in Parts : q.step = NoStep}}]
             \cup [fields: {1, 4, 6}, at: {1}, parts: {<<Star>>}],
  url |-> [scheme: {"https", "http", "other"}, host: {"none", "localhost", "remote", "["},
           tail: {<<>>, <<"slash">>, <<"slash", "slash">>, <<"blank", "slash">>,
                 <<"slash", "blank", "slash">>},
           at: BOOLEAN, dots: BOOLEAN, long: BOOLEAN, padded: BOOLEAN],
  key |-> [shape: {"key", "plain", "edge", "foreign"}, capitals: BOOLEAN, long: BOOLEAN,
           padded: BOOLEAN],
  jql |-> [words: SUBSET {"and", "order", "project", ""}, forbidden: BOOLEAN, long: BOOLEAN,
           opened: 0..2, closed: 0..2, padded: BOOLEAN],
  estimate |-> [confidence: {0, 100, 101, 255}, points: {-1, 0, 5}],
  criteria |-> [filled: {0, 1, 30, 31}, blank: {0, 1, 30}, long: BOOLEAN],
  prompt |-> [blank: BOOLEAN, long: BOOLEAN]]
=============================================================================
