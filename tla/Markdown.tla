------------------------------- MODULE Markdown -------------------------------
(***************************************************************************)
(* The text of a message, down to what Telegram's MarkdownV2 tells apart.  *)
(* A "letter" stands for any characters without a meaning, a "mark" for a  *)
(* reserved character that must be escaped (a full stop, a hyphen, an      *)
(* exclamation mark ...), a "tick" for the one that opens and closes a     *)
(* code entity, and a "backslash" escapes the character after it.  The     *)
(* asterisk and the underscore delimit entities as well, in which a mark   *)
(* stays reserved: they count as marks, so that a word with a pair of them *)
(* is refused here although Telegram would take it.                        *)
(***************************************************************************)
EXTENDS Naturals, SequencesExt

Chars == {"letter", "mark", "tick", "backslash"}

(* What the reader of a text has understood so far.  Inside a code entity  *)
(* a mark is an ordinary character.                                        *)
Blank == [at |-> "plain", escaped |-> FALSE, shown |-> <<>>]

ReadChar(r, c) ==
    IF r.at = "refused" THEN r
    ELSE IF r.escaped
    THEN [r EXCEPT !.escaped = FALSE, !.shown = Append(@, c)]
    ELSE CASE c = "backslash" -> [r EXCEPT !.escaped = TRUE]
           [] c = "tick" ->
                [r EXCEPT !.at = IF @ = "plain" THEN "entity" ELSE "plain"]
           [] c = "mark" /\ r.at = "plain" -> [r EXCEPT !.at = "refused"]
           [] OTHER -> [r EXCEPT !.shown = Append(@, c)]

\* What is understood after each character.
Reading(text) ==
    LET r[i \in 0..Len(text)] ==
            IF i = 0 THEN Blank ELSE ReadChar(r[i - 1], text[i])
    IN  r

Read(text) == Reading(text)[Len(text)]

(* A text is refused at a reserved character that is not escaped, and at   *)
(* an entity that is not closed.                                           *)
Accepts(text) == Read(text).at = "plain"
Shown(text) == Read(text).shown

-----------------------------------------------------------------------------
\* Mutant: the delimiters are left out.
EscapeMarks(s) ==
    FlattenSeq([i \in DOMAIN s |->
        IF s[i] = "mark" THEN <<"backslash", s[i]>> ELSE <<s[i]>>])

(* escapeMarkdown of the forwarding handler: every reserved character and  *)
(* every delimiter, but not the backslash.                                 *)
EscapeMarkdown(s) ==
    FlattenSeq([i \in DOMAIN s |->
        IF s[i] \in {"mark", "tick"} THEN <<"backslash", s[i]>> ELSE <<s[i]>>])

\* A text written in the source with its full stops escaped, one written
\* without, and the texts that quote the user: a full stop follows his name.
Stop == <<"backslash", "mark">>
Prompt == <<"letter">> \o Stop
BarePrompt == <<"letter", "mark">>
Thank(name) == <<"letter">> \o name \o Stop \o Prompt
InTicks(words) == <<"tick">> \o words \o <<"tick">>
=============================================================================
