---------------------------- MODULE SplitScript ----------------------------
(***************************************************************************)
(* How a script is cut into the statements that run one by one: the loop   *)
(* of splitStatements (ddl.go) over the characters, one action per state   *)
(* of the loop, and scriptStatements (multi.go), which drops what is only  *)
(* line comments.  A text is a sequence of characters, put together from   *)
(* the pieces that matter to the loop.                                     *)
(***************************************************************************)
EXTENDS Naturals, SequencesExt

CONSTANT MaxPieces \* bound: the pieces a script is made of

ASSUME SplitAssumption == MaxPieces \in Nat

NL == "\n"
Pieces == {<<"'">>, <<"\"">>, <<"-", "-">>, <<"/", "*">>, <<"*", "/">>, <<"$", "$">>,
           <<"$", "x", "$">>, <<"$">>, <<"x">>, <<";">>, <<NL>>}
Texts == {FlattenSeq(p) : p \in BoundedSeq(Pieces, MaxPieces)}

VARIABLES text,  \* the script
          at,    \* the position of the loop
          mode,  \* "normal", or what the position is inside of
          tag,   \* the delimiter of the dollar quote it is inside of
          cur,   \* the statement being collected
          stmts  \* the statements so far
splitVars == <<text, at, mode, tag, cur, stmts>>

Blanks == {" ", NL}
Identifier(c) == c \in {"x"}

At(t, i) == IF i \in DOMAIN t THEN t[i] ELSE ""
Begins(t, i, word) == i + Len(word) - 1 <= Len(t) /\ SubSeq(t, i, i + Len(word) - 1) = word

TrimSpace(t) ==
    LET solid == {i \in DOMAIN t : t[i] \notin Blanks}
    IN  IF solid = {} THEN <<>> ELSE SubSeq(t, Min(solid), Max(solid))

\* The delimiter that starts at position i, or <<>>.
DollarQuoteTag(t, i) ==
    LET ends == {j \in i + 1 .. Len(t) : t[j] = "$" /\ \A k \in i + 1 .. j - 1 : Identifier(t[k])}
    IN  IF At(t, i) = "$" /\ ends # {} THEN SubSeq(t, i, Min(ends)) ELSE <<>>

Flush(c) == IF TrimSpace(c) = <<>> THEN stmts ELSE Append(stmts, TrimSpace(c))

\* Only line comments that come first are taken off.
StripLeadingComments(t) ==
    LET Strip[u \in {SubSeq(t, i, Len(t)) : i \in 1 .. Len(t) + 1}] ==
            LET nl == {j \in DOMAIN u : u[j] = NL}
            IN  IF ~Begins(u, 1, <<"-", "-">>) THEN u
                ELSE IF nl = {} THEN <<>> ELSE Strip[TrimSpace(SubSeq(u, Min(nl) + 1, Len(u)))]
    IN  Strip[t]

\* What of the script is run.
ScriptStatements(s) ==
    FlattenSeq([k \in DOMAIN s |-> IF StripLeadingComments(TrimSpace(s[k])) = <<>> THEN <<>> ELSE <<s[k]>>])

-----------------------------------------------------------------------------
(* One round of the loop: n characters are taken.                          *)

Take(n, next) ==
    /\ cur' = cur \o SubSeq(text, at, at + n - 1) /\ at' = at + n /\ mode' = next
    /\ UNCHANGED <<text, stmts>>

Opens_AfterWord(i) ==
    CASE text[i] \in {"'", "\""}           -> [mode |-> IF text[i] = "'" THEN "single" ELSE "double", n |-> 1]
      [] Begins(text, i, <<"-", "-">>)    -> [mode |-> "line", n |-> 2]
      [] Begins(text, i, <<"/", "*">>)    -> [mode |-> "block", n |-> 2]
      [] DollarQuoteTag(text, i) # <<>>   -> [mode |-> "dollar", n |-> Len(DollarQuoteTag(text, i))]
      [] OTHER                            -> [mode |-> "normal", n |-> 1]

Opens(i) ==
    CASE text[i] = "'"                    -> [mode |-> "single", n |-> 1]
      [] text[i] = "\""                   -> [mode |-> "double", n |-> 1]
      [] Begins(text, i, <<"-", "-">>)    -> [mode |-> "line", n |-> 2]
      [] Begins(text, i, <<"/", "*">>)    -> [mode |-> "block", n |-> 2]
      [] /\ ~Identifier(At(text, i - 1))
         /\ DollarQuoteTag(text, i) # <<>> -> [mode |-> "dollar", n |-> Len(DollarQuoteTag(text, i))]
      [] OTHER                            -> [mode |-> "normal", n |-> 1]

InNormal ==
    /\ mode = "normal" /\ at <= Len(text) /\ text[at] # ";"
    /\ Take(Opens(at).n, Opens(at).mode)
    /\ tag' = IF Opens(at).mode = "dollar" THEN DollarQuoteTag(text, at) ELSE tag

AtSemicolon ==
    /\ mode = "normal" /\ at <= Len(text) /\ text[at] = ";"
    /\ stmts' = Flush(cur) /\ cur' = <<>> /\ at' = at + 1
    /\ UNCHANGED <<text, mode, tag>>

\* Inside: one character at a time, up to what closes.
Closer == CASE mode = "single" -> <<"'">>       [] mode = "double" -> <<"\"">>
            [] mode = "line" -> <<NL>>          [] mode = "block" -> <<"*", "/">>
            [] mode = "dollar" -> tag

Inside ==
    /\ mode \notin {"normal", "done"} /\ at <= Len(text) /\ UNCHANGED tag
    /\ IF Begins(text, at, Closer) THEN Take(Len(Closer), "normal") ELSE Take(1, mode)

AtEnd ==
    /\ mode # "done" /\ at > Len(text)
    /\ stmts' = Flush(cur) /\ cur' = <<>> /\ mode' = "done"
    /\ UNCHANGED <<text, at, tag>>

SplitInit(texts) ==
    /\ text \in texts /\ at = 1 /\ mode = "normal" /\ tag = <<>> /\ cur = <<>> /\ stmts = <<>>

SplitNext == InNormal \/ AtSemicolon \/ Inside \/ AtEnd

SplitSpec == SplitInit(Texts) /\ [][SplitNext]_splitVars
-----------------------------------------------------------------------------
(* How the server reads text t: the lexeme at position i, and the lexemes  *)
(* from there on.                                                          *)

Past(t, from, close) ==
    LET ends == {j \in from .. Len(t) : Begins(t, j, close)}
    IN  IF ends = {} THEN Len(t) + 1 ELSE Min(ends) + Len(close)

LexemeEnd(t, i) ==
    LET quote == DollarQuoteTag(t, i)
        after == {j \in i + 1 .. Len(t) : ~Identifier(t[j]) /\ t[j] # "$"}
    IN  CASE t[i] \in {"'", "\""}         -> Past(t, i + 1, <<t[i]>>)
          [] Begins(t, i, <<"-", "-">>)   -> Past(t, i + 2, <<NL>>)
          [] Begins(t, i, <<"/", "*">>)   -> Past(t, i + 2, <<"*", "/">>)
          [] quote # <<>>                 -> Past(t, i + Len(quote), quote)
          [] Identifier(t[i])             -> Min(after \cup {Len(t) + 1})
          [] OTHER                        -> i + 1

Lexemes(t) ==
    LET From[i \in 1 .. Len(t) + 1] ==
            IF i > Len(t) THEN {} ELSE {<<i, LexemeEnd(t, i) - 1>>} \cup From[LexemeEnd(t, i)]
    IN  From[1]

\* Two liberties of the server the loop does not know: a comment inside a
\* comment, and a name that has $$ in it.
Odd(t) == \E l \in Lexemes(t) : \E j \in l[1] + 1 .. l[2] - 1 :
            \/ Begins(t, l[1], <<"/", "*">>) /\ Begins(t, j, <<"/", "*">>)
            \/ Identifier(t[l[1]]) /\ Begins(t, j, <<"$", "$">>)

\* The stretches between the semicolons, of t or of a text such as one.
Stretches(t) ==
    LET cuts == {0, Len(t) + 1} \cup {i \in DOMAIN t : t[i] = ";" /\ <<i, i>> \in Lexemes(t)}
    IN  [k \in 1 .. Cardinality(cuts) - 1 |->
           LET b == CHOOSE c \in cuts : Cardinality({d \in cuts : d < c}) = k - 1
           IN  SubSeq(t, b + 1, Min({c \in cuts : c > b}) - 1)]

OnlyLineComments(t) == \A l \in Lexemes(t) : t[l[1]] \in Blanks \/ Begins(t, l[1], <<"-", "-">>)

\* What is run of a stretch.
Kept(t) == IF TrimSpace(t) = <<>> \/ OnlyLineComments(TrimSpace(t)) THEN <<>> ELSE <<TrimSpace(t)>>

(* What is run of a script are the statements the server reads in it but   *)
(* those of nothing but line comments: a semicolon inside of a literal, a  *)
(* name, a comment or a dollar quote does not cut, every other one does    *)
(* (splitStatements, scriptStatements).                                    *)
SplitAsServer ==
    mode = "done" /\ ~Odd(text) =>
      ScriptStatements(stmts) = FlattenSeq([k \in DOMAIN Stretches(text) |-> Kept(Stretches(text)[k])])

SplitTypeOK ==
    /\ at \in 1 .. Len(text) + 1
    /\ mode \in {"normal", "single", "double", "line", "block", "dollar", "done"}
    /\ mode = "dollar" => tag # <<>>
=============================================================================
