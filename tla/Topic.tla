------------------------------- MODULE Topic -------------------------------
(***************************************************************************)
(* Topic filters, topic.rs: the check the dispatchers make of a filter as  *)
(* they receive it (is_valid, a loop over its bytes), the parsed filter    *)
(* the application works with (TopicFilter), and the two matching          *)
(* functions. A text is a sequence of characters, and a step reads the     *)
(* next character, so that the states are the texts and the state of the   *)
(* loop after each of them.                                                *)
(***************************************************************************)
EXTENDS Naturals, Sequences

CONSTANTS
    Chars,     \* characters, with "/", "+", "#" and "$" among them
    MaxLen,    \* bound on the length of a text
    Topics,    \* the topic names, and
    Filters    \* the texts of the filters, that the text read is compared with

ASSUME TopicAssumption ==
    /\ {"/", "+", "#", "$"} \subseteq Chars
    /\ MaxLen \in Nat
    /\ Topics \subseteq Seq(Chars)
    /\ Filters \subseteq Seq(Chars)

VARIABLES
    text,       \* what has been read
    previous    \* is_valid's variable, "invalid" after it has returned false

vars == <<text, previous>>

-----------------------------------------------------------------------------
(* is_valid *)

Starts == previous \in {"None", "LevelSep"}

\* Mutant: a level may go on after "+".
after_loose(c) ==
    IF previous \in {"invalid", "MultiWildcard"} THEN "invalid"
    ELSE IF c = "+" THEN IF Starts THEN "SingleWildcard" ELSE "invalid"
    ELSE IF c = "#" THEN IF Starts THEN "MultiWildcard" ELSE "invalid"
    ELSE IF c = "/" THEN "LevelSep" ELSE "Other"

\* The body of the loop.
after(c) ==
    IF previous \in {"invalid", "MultiWildcard"} THEN "invalid"
    ELSE IF c = "+" THEN IF Starts THEN "SingleWildcard" ELSE "invalid"
    ELSE IF c = "#" THEN IF Starts THEN "MultiWildcard" ELSE "invalid"
    ELSE IF c = "/" THEN "LevelSep"
    ELSE IF previous = "SingleWildcard" THEN "invalid" ELSE "Other"

is_valid == text # <<>> /\ previous # "invalid"

Init == text = <<>> /\ previous = "None"

Read(c) ==
    /\ Len(text) < MaxLen
    /\ text' = Append(text, c)
    /\ previous' = after(c)

Next == \E c \in Chars : Read(c)

Spec == Init /\ [][Next]_vars

-----------------------------------------------------------------------------
(* Parsing and printing. *)

\* str::split('/'), a character at a time.
put(names, c) ==
    IF c = "/" THEN Append(names, <<>>) ELSE [names EXCEPT ![Len(names)] = Append(@, c)]

split(s) ==
    LET upto[k \in 0 .. Len(s)] == IF k = 0 THEN << <<>> >> ELSE put(upto[k - 1], s[k])
    IN  upto[Len(s)]

is_system(name) == name # <<>> /\ name[1] = "$"

Wildcards(name) == \E i \in 1 .. Len(name) : name[i] \in {"+", "#"}

Level(k, name) == [kind |-> k, name |-> name]
SingleWildcard == Level("SingleWildcard", <<>>)
MultiWildcard == Level("MultiWildcard", <<>>)
Blank == Level("Blank", <<>>)

\* One level; "InvalidLevel" for the error.
level(index, name) ==
    IF name = <<"+">> THEN SingleWildcard
    ELSE IF name = <<"#">> THEN MultiWildcard
    ELSE IF name = <<>> THEN Blank
    ELSE IF Wildcards(name) THEN Level("InvalidLevel", name)
    ELSE Level(IF index = 1 /\ is_system(name) THEN "System" ELSE "Normal", name)

levels_valid(f) ==
    \A i \in 1 .. Len(f) :
        /\ f[i].kind \in {"Normal", "System"} => ~Wildcards(f[i].name)
        /\ f[i].kind = "MultiWildcard" => i = Len(f)
        /\ f[i].kind = "System" => i = 1

\* TryFrom<ByteString>: the levels, or <<>> for an error.
try_from(s) ==
    LET names == split(s)
        f == [i \in 1 .. Len(names) |-> level(i, names[i])]
    IN  IF s # <<>> /\ (\A i \in 1 .. Len(f) : f[i].kind # "InvalidLevel") /\ levels_valid(f)
        THEN f ELSE <<>>

shown(l) ==
    IF l.kind = "SingleWildcard" THEN <<"+">>
    ELSE IF l.kind = "MultiWildcard" THEN <<"#">> ELSE l.name

\* Mutant: the separator of a blank level is left out.
to_string_short(f) ==
    LET upto[k \in 1 .. Len(f)] ==
            IF k = 1 THEN shown(f[1])
            ELSE IF f[k] = Blank THEN upto[k - 1] ELSE upto[k - 1] \o <<"/">> \o shown(f[k])
    IN  upto[Len(f)]

\* Display, and write_topic.
to_string(f) ==
    LET upto[k \in 1 .. Len(f)] ==
            IF k = 1 THEN shown(f[1]) ELSE upto[k - 1] \o <<"/">> \o shown(f[k])
    IN  upto[Len(f)]

-----------------------------------------------------------------------------
(* Matching. *)

\* match_topic's loop: the first level at which it returns decides. m[i] says whether
\* level i of the subset matches the one of the superset.
match_topic(superset, len, m) ==
    LET loop[i \in 1 .. len + 1] ==
            IF i > len
            THEN i > Len(superset) \/ superset[i] = MultiWildcard
            ELSE /\ i <= Len(superset)
                 /\ m[i]
                 /\ superset[i] = MultiWildcard \/ loop[i + 1]
    IN  loop[1]

\* A level of another filter.
match_level_impl(sub, sup) ==
    CASE sup.kind \in {"Normal", "System", "Blank"} -> sub = sup
      [] sup.kind = "SingleWildcard" -> sub # MultiWildcard
      [] sup.kind = "MultiWildcard" -> TRUE

\* Mutant: wildcards match the levels of the server.
match_level_any(name, sup, index) ==
    CASE sup.kind = "Normal" -> sup.name = name
      [] sup.kind = "System" -> is_system(name) /\ sup.name = name
      [] sup.kind = "Blank" -> name = <<>>
      [] sup.kind \in {"SingleWildcard", "MultiWildcard"} -> TRUE

\* A level of a topic name.
match_level(name, sup, index) ==
    CASE sup.kind = "Normal" -> sup.name = name
      [] sup.kind = "System" -> is_system(name) /\ sup.name = name
      [] sup.kind = "Blank" -> name = <<>>
      [] sup.kind \in {"SingleWildcard", "MultiWildcard"} -> ~(index = 1 /\ is_system(name))

\* Mutant: a filter matches every extension of itself.
matches_filter_prefix(f, g) ==
    \A i \in 1 .. Len(f) : i <= Len(g) /\ match_level_impl(g[i], f[i])

matches_filter(f, g) ==
    match_topic(f, Len(g), [i \in DOMAIN f \cap DOMAIN g |-> match_level_impl(g[i], f[i])])

matches_topic(f, s) ==
    LET names == split(s)
    IN  match_topic(f, Len(names), [i \in DOMAIN f \cap DOMAIN names |-> match_level(names[i], f[i], i)])

-----------------------------------------------------------------------------
(* What is expected of them. *)

\* The dispatchers let a filter pass exactly when the application can parse it
\* (is_valid and TryFrom of topic.rs, two unrelated checks).
ValidIffParsed == is_valid <=> try_from(text) # <<>>

\* Printing a parsed filter gives its text back.
RoundTrip == try_from(text) # <<>> => to_string(try_from(text)) = text

\* The rules of MQTT for a filter and a topic name, level by level: "+" is any level,
\* a last "#" any number of them, and neither is a first level that starts with "$".
Specified(s, t) ==
    LET F == split(s)
        T == split(t)
        n == IF F[Len(F)] = <<"#">> THEN Len(F) - 1 ELSE Len(F)
    IN  /\ IF n < Len(F) THEN Len(T) >= n ELSE Len(T) = n
        /\ \A i \in 1 .. n : F[i] \in {<<"+">>, T[i]}
        /\ is_system(T[1]) => F[1] \notin {<<"+">>, <<"#">>}

\* matches_topic decides as MQTT's rules say.
MatchesAsSpecified ==
    try_from(text) # <<>> => \A t \in Topics : matches_topic(try_from(text), t) <=> Specified(text, t)

ParsedFilters == {try_from(s) : s \in Filters} \ {<<>>}

Covers(f, g) == \A t \in Topics : matches_topic(g, t) => matches_topic(f, t)

\* A filter that matches another one matches every topic name the other matches, for
\* filters that do not start with a level of the server ("$...").
FilterCovers ==
    LET f == try_from(text)
    IN  f # <<>> => \A g \in ParsedFilters : g[1].kind # "System" /\ matches_filter(f, g) => Covers(f, g)
=============================================================================
