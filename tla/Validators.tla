------------------------------ MODULE Validators ----------------------------
(***************************************************************************)
(* The validators of src-tauri/src/validation/ and the argument checks of  *)
(* the stores.  A text is the record of what they look at in it; each      *)
(* validator accepts or refuses it, and yields the text that is kept.      *)
(***************************************************************************)
EXTENDS Integers, Sequences

CONSTANTS
  NoStep, Junk   \* a cron part without a step; a token that is no number and no name

Verdict(ok, kept) == [ok |-> ok, kept |-> kept]

(***************************************************************************)
(* Cron (cron.rs): five fields, each a list of parts.  A text is the       *)
(* number of its fields, the place of the one that is not "*", and that    *)
(* one's parts.                                                            *)
(***************************************************************************)
CronTokens == [v: Nat \cup {Junk}, named: BOOLEAN]
CronParts == [kind: {"star", "blank", "value", "range"}, from: CronTokens, to: CronTokens,
              step: Nat \cup {NoStep, Junk}]
CronTexts == [fields: Nat, at: 1..5, parts: Seq(CronParts)]

FieldMin == <<0, 0, 1, 1, 0>>
FieldMax == <<59, 23, 31, 12, 7>>                 \* 0 and 7 are both Sunday
FieldNames == <<{}, {}, {}, 1..12, 0..6>>         \* jan..dec, sun..sat

ResolveToken(token, i) ==
  IF token.named /\ token.v \notin FieldNames[i] THEN Junk ELSE token.v

InField(v, i) == v \in FieldMin[i] .. FieldMax[i]

\* Mutant: a range may run backwards.
RangeWraps(from, to, i) == InField(from, i) /\ InField(to, i)

RangeIsValid(from, to, i) == InField(from, i) /\ InField(to, i) /\ from <= to

StepIsValid(step) == step \notin {Junk, 0}

PartIsValid(part, i) ==
  /\ part.kind # "blank"
  /\ StepIsValid(part.step)
  /\ part.kind = "value" => InField(ResolveToken(part.from, i), i)
  /\ part.kind = "range" => RangeIsValid(ResolveToken(part.from, i), ResolveToken(part.to, i), i)

ValidateField(parts, i) == \A n \in DOMAIN parts : PartIsValid(parts[n], i)

ValidateCron(text) ==
  Verdict(text.fields = 5 /\ ValidateField(text.parts, text.at), text)

(***************************************************************************)
(* Base URLs (url.rs): the scheme, what is written for the host before a   *)
(* "/" or ":" (of "[::1]" that is "["), and the slashes and blanks at the  *)
(* end.  A blank there belongs to the host when no slash stands before it. *)
(***************************************************************************)
UrlTexts ==
  [scheme: STRING, host: STRING, tail: Seq({"slash", "blank"}), at: BOOLEAN, dots: BOOLEAN,
   long: BOOLEAN, padded: BOOLEAN]

LocalHosts == {"localhost"}

CutAtEnd(tail, c) ==
  LET kept == CHOOSE n \in 0..Len(tail) :
                /\ n > 0 => tail[n] # c
                /\ \A m \in n + 1 .. Len(tail) : tail[m] = c
  IN SubSeq(tail, 1, kept)

Trim(url) == [url EXCEPT !.tail = CutAtEnd(url.tail, "blank"), !.padded = FALSE]

Host(url) == IF url.tail # <<>> /\ Head(url.tail) = "blank" THEN "blank" ELSE url.host

\* Mutant: whatever follows the scheme is taken for a host.
HostIsValidAny(url) == url.host # "none" \/ url.tail # <<>>

HostIsValid(url) == Host(url) # "none"

ValidateBaseUrl(raw) ==
  LET url == Trim(raw)
  IN Verdict(/\ ~url.long
             /\ url.scheme \in {"https", "http"}
             /\ HostIsValid(url)
             /\ url.scheme = "http" => Host(url) \in LocalHosts
             /\ ~url.at                            \* credentials
             /\ ~url.dots,                         \* ".." anywhere
             [url EXCEPT !.tail = CutAtEnd(url.tail, "slash")])

(***************************************************************************)
(* JQL (jql.rs): words, a forbidden pattern, and the two parentheses, of   *)
(* which only the number counts.  A word is what is left of it without the *)
(* punctuation around it: "" of a parenthesis that stands alone.           *)
(***************************************************************************)
JqlTexts ==
  [words: SUBSET STRING, forbidden: BOOLEAN, long: BOOLEAN, opened: Nat, closed: Nat,
   padded: BOOLEAN]

JqlKeywords == {"and", "or", "not", "order", "by", "asc", "desc"}

ValidateJql(jql) ==
  Verdict(/\ ~jql.long /\ ~jql.forbidden
          /\ \E w \in jql.words : w \notin JqlKeywords
          /\ jql.opened = jql.closed,
          [jql EXCEPT !.padded = FALSE])

(***************************************************************************)
(* Ticket keys (normalize_ticket_key): PROJECT-123 in capitals.  A key is  *)
(* the shape of its text and whether it is trimmed and in capitals yet.    *)
(***************************************************************************)
KeyTexts == [shape: STRING, capitals: BOOLEAN, long: BOOLEAN, padded: BOOLEAN]

NormalizeTicketKey(key) ==
  Verdict(~key.long /\ key.shape = "key",
          [key EXCEPT !.capitals = TRUE, !.padded = FALSE])

EstimateTexts == [confidence: 0..255, points: Int]
CriteriaTexts == [filled: Nat, blank: Nat, long: BOOLEAN]
PromptTexts == [blank: BOOLEAN, long: BOOLEAN]

\* set_effort_estimate: confidence is one byte; points may be left out (none: 0).
ValidateEstimate(e) == Verdict(e.confidence <= 100 /\ e.points >= 0, e)

\* set_acceptance_criteria: blank criteria are dropped after the items were counted.
CriteriaMax == 30
ValidateCriteria(c) ==
  Verdict(c.filled + c.blank <= CriteriaMax /\ ~c.long, [c EXCEPT !.blank = 0])

\* LlmGateway: a model must not be blank when a provider is configured, nor a prompt
\* blank or too long when it is invoked.
ValidatePrompt(p) == Verdict(~p.blank /\ ~p.long, p)
=============================================================================
