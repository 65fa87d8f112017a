---------------------------- MODULE Dialogue_proofs ----------------------------
(***************************************************************************)
(* What the conversation keeps for any set of countries, any spelling of   *)
(* the user's words and any number of policy messages.  Three parts: what  *)
(* a reader makes of a text of any length, by induction over the text;     *)
(* what every reply of every handler has in common (Answers); and the      *)
(* invariant of the screen, which follows from it step by step.            *)
(***************************************************************************)
EXTENDS Dialogue, Induction, FiniteSetTheorems

(* The text of a message: what a reader has understood after each          *)
(* character is given by what he had understood before it.                 *)
Readers == [at: {"plain", "entity", "refused"}, escaped: BOOLEAN,
            shown: Seq(Chars)]

LEMMA ReadCharType ==
  ASSUME NEW r \in Readers, NEW c \in Chars
  PROVE  ReadChar(r, c) \in Readers
  <1>1. Append(r.shown, c) \in Seq(Chars)
    BY AppendProperties DEF Readers
  <1> QED BY <1>1 DEF Readers, ReadChar, Chars

LEMMA BlankType == Blank \in Readers
  BY DEF Blank, Readers

LEMMA ReadIs ==
  ASSUME NEW text \in Seq(Chars), NEW f \in [0..Len(text) -> Readers],
         f[0] = Blank, \A i \in 1..Len(text) : f[i] = ReadChar(f[i - 1], text[i])
  PROVE  Read(text) = f[Len(text)]
  <1> DEFINE n == Len(text)
  <1> DEFINE Made(h) == h = [i \in 0..n |-> IF i = 0 THEN Blank
                                            ELSE ReadChar(h[i - 1], text[i])]
  <1> DEFINE F == CHOOSE h : Made(h)
  <1>1. n \in Nat
    BY LenProperties
  <1>2. Read(text) = F[n]
    BY Zenon DEF Read, Reading
  <1> DEFINE h0 == [i \in 0..n |-> f[i]]
  <1>3. Made(h0)
    <2>1. \A i \in 0..n : i # 0 => i - 1 \in 0..n /\ i \in 1..n
      BY <1>1
    <2>2. ASSUME NEW i \in 0..n
          PROVE  f[i] = IF i = 0 THEN Blank ELSE ReadChar(h0[i - 1], text[i])
      BY <2>1, Zenon
    <2> QED BY <2>2, Zenon
  <1>4. Made(F)
    BY <1>3, Zenon
  <1> HIDE DEF F
  <1>5. \A i \in 0..n : F[i] = IF i = 0 THEN Blank
                               ELSE ReadChar(F[i - 1], text[i])
    BY <1>4, Zenon
  <1> DEFINE S == {i \in Nat : F[i] = f[i]}
  <1>6. 0 \in S
    <2>1. 0 \in 0..n
      BY <1>1
    <2> QED BY <1>5, <2>1
  <1>7. ASSUME NEW i \in Nat, 0 <= i, i < n, i \in S
        PROVE  i + 1 \in S
    <2>1. /\ i + 1 \in 0..n /\ i + 1 \in 1..Len(text)
          /\ i + 1 # 0 /\ (i + 1) - 1 = i
      BY <1>1, <1>7
    <2>2. F[i + 1] = ReadChar(F[i], text[i + 1])
      BY <1>5, <2>1
    <2>3. f[i + 1] = ReadChar(f[i], text[i + 1])
      BY <2>1
    <2>4. F[i + 1] = f[i + 1]
      BY <1>7, <2>2, <2>3, Zenon
    <2> QED BY <2>4
  <1> HIDE DEF S, n
  <1>8. 0..n \subseteq S
    BY <1>1, <1>6, <1>7, RangeInduction
  <1>9. n \in 0..n
    BY <1>1
  <1> QED BY <1>2, <1>8, <1>9 DEF n, S

LEMMA ReadingRuns ==
  ASSUME NEW text \in Seq(Chars)
  PROVE  \E f \in [0..Len(text) -> Readers] :
            /\ f[0] = Blank
            /\ \A i \in 1..Len(text) : f[i] = ReadChar(f[i - 1], text[i])
  <1> DEFINE n == Len(text)
  <1> DEFINE g == [p \in (1..n) \X Readers |-> ReadChar(p[2], text[p[1]])]
  <1>1. n \in Nat /\ \A i \in 1..n : text[i] \in Chars
    BY LenProperties, ElementOfSeq
  <1>2. g \in Steps(n, Readers)
    <2>1. ASSUME NEW p \in (1..n) \X Readers
          PROVE  ReadChar(p[2], text[p[1]]) \in Readers
      BY <1>1, ReadCharType
    <2> QED BY <2>1 DEF Steps
  <1>3. \A i \in 1..n, r \in Readers : g[<<i, r>>] = ReadChar(r, text[i])
    OBVIOUS
  <1> HIDE DEF g, n
  <1>4. PICK f : f \in Runs(n, Readers, Blank, g)
    BY <1>1, <1>2, BlankType, Recursion, Zenon
  <1>5. /\ f \in [0..n -> Readers] /\ f[0] = Blank
        /\ \A i \in 1..n : f[i] = g[<<i, f[i - 1]>>]
    BY <1>4 DEF Runs
  <1>6. ASSUME NEW i \in 1..n
        PROVE  f[i] = ReadChar(f[i - 1], text[i])
    <2>1. f[i - 1] \in Readers
      BY <1>1, <1>5
    <2> QED BY <1>3, <1>5, <2>1
  <1> QED BY <1>5, <1>6 DEF n

LEMMA ReadEmpty == Read(<<>>) = Blank
  <1> DEFINE e == <<>>
  <1>1. e \in Seq(Chars) /\ Len(e) = 0
    OBVIOUS
  <1>2. PICK f \in [0..Len(e) -> Readers] :
            /\ f[0] = Blank
            /\ \A i \in 1..Len(e) : f[i] = ReadChar(f[i - 1], e[i])
    BY <1>1, ReadingRuns
  <1>3. Read(e) = f[Len(e)]
    BY <1>1, <1>2, ReadIs
  <1> QED BY <1>1, <1>2, <1>3

LEMMA ReadAppend ==
  ASSUME NEW s \in Seq(Chars), NEW c \in Chars
  PROVE  Read(s) \in Readers /\ Read(Append(s, c)) = ReadChar(Read(s), c)
  <1> DEFINE t == Append(s, c)
  <1> DEFINE n == Len(s)
  <1>1. /\ n \in Nat /\ t \in Seq(Chars) /\ Len(t) = n + 1
        /\ \A i \in 1..n : t[i] = s[i]
        /\ t[n + 1] = c
    BY LenProperties, AppendProperties
  <1>2. PICK f \in [0..Len(t) -> Readers] :
            /\ f[0] = Blank
            /\ \A i \in 1..Len(t) : f[i] = ReadChar(f[i - 1], t[i])
    BY <1>1, ReadingRuns
  <1> HIDE DEF t
  <1>3. Read(t) = f[n + 1]
    BY <1>1, <1>2, ReadIs
  <1> DEFINE h == [i \in 0..n |-> f[i]]
  <1>4. \A i \in 1..(n + 1) : f[i] = ReadChar(f[i - 1], t[i])
    BY <1>1, <1>2
  <1>5. n + 1 \in 1..(n + 1) /\ (n + 1) - 1 = n
    BY <1>1
  <1>6. h \in [0..n -> Readers] /\ h[0] = Blank /\ h[n] = f[n]
    BY <1>1, <1>2
  <1>7. ASSUME NEW i \in 1..n
        PROVE  h[i] = ReadChar(h[i - 1], s[i])
    <2>1. i \in 1..(n + 1) /\ i \in 0..n /\ i - 1 \in 0..n
      BY <1>1
    <2>2. h[i] = f[i] /\ h[i - 1] = f[i - 1] /\ t[i] = s[i]
      BY <1>1, <2>1
    <2> QED BY <1>4, <2>1, <2>2
  <1> HIDE DEF h
  <1>8. Read(s) = h[n]
    BY <1>6, <1>7, ReadIs
  <1>9. Read(t) = ReadChar(Read(s), c)
    BY <1>1, <1>3, <1>4, <1>5, <1>6, <1>8
  <1>10. h[n] \in Readers
    BY <1>1, <1>6
  <1> QED BY <1>8, <1>9, <1>10 DEF t

-----------------------------------------------------------------------------
(* A text that is accepted or lacks the end of an entity, and what it      *)
(* shows.                                                                  *)
Reads(text, at, shown) ==
    /\ text \in Seq(Chars) /\ shown \in Seq(Chars)
    /\ at \in {"plain", "entity"}
    /\ Read(text) = [at |-> at, escaped |-> FALSE, shown |-> shown]

LEMMA FourChars ==
  /\ "letter" \in Chars /\ "mark" \in Chars
  /\ "tick" \in Chars /\ "backslash" \in Chars
  BY DEF Chars

LEMMA ConcatOne ==
  ASSUME NEW T, NEW s \in Seq(T), NEW c \in T
  PROVE  s \o <<c>> = Append(s, c) /\ s \o <<c>> \in Seq(T)
  <1>1. Append(s, c) = s \o <<c>> /\ Append(s, c) \in Seq(T)
    BY AppendIsConcat, AppendProperties
  <1> QED BY <1>1, Zenon

LEMMA ReadsNothing == Reads(<<>>, "plain", <<>>)
  <1>1. <<>> \in Seq(Chars)
    OBVIOUS
  <1> QED BY <1>1, ReadEmpty DEF Blank, Reads

LEMMA ReadsLetter ==
  ASSUME NEW p, NEW a, NEW w, Reads(p, a, w)
  PROVE  Reads(p \o <<"letter">>, a, w \o <<"letter">>)
  <1> DEFINE r == [at |-> a, escaped |-> FALSE, shown |-> w]
  <1>1. p \in Seq(Chars) /\ w \in Seq(Chars) /\ Read(p) = r
    BY DEF Reads
  <1>2. /\ p \o <<"letter">> = Append(p, "letter") /\ p \o <<"letter">> \in Seq(Chars)
        /\ w \o <<"letter">> = Append(w, "letter") /\ w \o <<"letter">> \in Seq(Chars)
    BY <1>1, FourChars, ConcatOne, Zenon
  <1>3. Read(Append(p, "letter")) = ReadChar(r, "letter")
    BY <1>1, FourChars, ReadAppend, Zenon
  <1>4. a \in {"plain", "entity"}
    BY DEF Reads
  <1>5. ReadChar(r, "letter") =
          [at |-> a, escaped |-> FALSE, shown |-> Append(w, "letter")]
    BY <1>4 DEF ReadChar
  <1> QED BY <1>2, <1>3, <1>4, <1>5, Zenon DEF Reads

(* A delimiter opens an entity, and closes it.                             *)
LEMMA ReadsTick ==
  ASSUME NEW p, NEW a, NEW w, Reads(p, a, w)
  PROVE  /\ a = "plain" => Reads(p \o <<"tick">>, "entity", w)
         /\ a = "entity" => Reads(p \o <<"tick">>, "plain", w)
  <1> DEFINE r == [at |-> a, escaped |-> FALSE, shown |-> w]
  <1>1. p \in Seq(Chars) /\ w \in Seq(Chars) /\ Read(p) = r
    BY DEF Reads
  <1>2. p \o <<"tick">> = Append(p, "tick") /\ p \o <<"tick">> \in Seq(Chars)
    BY <1>1, FourChars, ConcatOne, Zenon
  <1>3. Read(Append(p, "tick")) = ReadChar(r, "tick")
    BY <1>1, FourChars, ReadAppend, Zenon
  <1>4. ASSUME a = "plain"
        PROVE  ReadChar(r, "tick") =
                   [at |-> "entity", escaped |-> FALSE, shown |-> w]
    BY <1>4 DEF ReadChar
  <1>5. ASSUME a = "entity"
        PROVE  ReadChar(r, "tick") =
                   [at |-> "plain", escaped |-> FALSE, shown |-> w]
    BY <1>5 DEF ReadChar
  <1>6. Read(p \o <<"tick">>) = ReadChar(r, "tick")
    BY <1>2, <1>3, Zenon
  <1>7. ASSUME a = "plain"
        PROVE  Reads(p \o <<"tick">>, "entity", w)
    BY <1>1, <1>2, <1>4, <1>6, <1>7 DEF Reads
  <1>8. ASSUME a = "entity"
        PROVE  Reads(p \o <<"tick">>, "plain", w)
    BY <1>1, <1>2, <1>5, <1>6, <1>8 DEF Reads
  <1> QED BY <1>7, <1>8

(* A character after a backslash is shown, whatever it is.                 *)
LEMMA ReadsEscaped ==
  ASSUME NEW p, NEW a, NEW w, Reads(p, a, w), NEW c \in Chars
  PROVE  Reads(p \o <<"backslash", c>>, a, w \o <<c>>)
  <1> DEFINE r == [at |-> a, escaped |-> FALSE, shown |-> w]
  <1> DEFINE e == [at |-> a, escaped |-> TRUE, shown |-> w]
  <1> DEFINE q == Append(p, "backslash")
  <1>1. p \in Seq(Chars) /\ w \in Seq(Chars) /\ Read(p) = r
    BY DEF Reads
  <1>2. a \in {"plain", "entity"}
    BY DEF Reads
  <1>3. q \in Seq(Chars) /\ Read(q) = ReadChar(r, "backslash")
    <2>1. Read(q) = ReadChar(Read(p), "backslash")
      BY <1>1, FourChars, ReadAppend
    <2>2. q \in Seq(Chars)
      BY <1>1, FourChars, AppendProperties
    <2> QED BY <1>1, <2>1, <2>2, Zenon
  <1>4. ReadChar(r, "backslash") = e
    BY <1>2 DEF ReadChar
  <1>5. Read(Append(q, c)) = ReadChar(e, c)
    BY <1>3, <1>4, ReadAppend, Zenon
  <1>6. ReadChar(e, c) = [at |-> a, escaped |-> FALSE, shown |-> Append(w, c)]
    BY <1>2 DEF ReadChar
  <1>7. w \o <<c>> = Append(w, c) /\ w \o <<c>> \in Seq(Chars)
    BY <1>1, ConcatOne, Zenon
  <1>8. p \o <<"backslash", c>> = Append(q, c)
    BY <1>1, FourChars
  <1>9. Append(q, c) \in Seq(Chars)
    BY <1>3, AppendProperties, Zenon
  <1> HIDE DEF q
  <1> QED BY <1>2, <1>5, <1>6, <1>7, <1>8, <1>9, Zenon DEF Reads

LEMMA ReadsStop ==
  ASSUME NEW p, NEW w, Reads(p, "plain", w)
  PROVE  Reads(p \o Stop, "plain", w \o <<"mark">>)
  BY FourChars, ReadsEscaped, Zenon DEF Stop

LEMMA ReadsPrompt ==
  ASSUME NEW p, NEW w, Reads(p, "plain", w)
  PROVE  Accepts(p \o Prompt)
  <1> DEFINE v == w \o <<"letter">>
  <1> DEFINE q == p \o <<"letter">>
  <1>1. p \in Seq(Chars)
    BY DEF Reads
  <1>2. Reads(q, "plain", v)
    BY ReadsLetter, Zenon
  <1>3. Reads(q \o Stop, "plain", v \o <<"mark">>)
    BY <1>2, ReadsStop, Zenon
  <1>4. q \o Stop = p \o Prompt
    BY <1>1, FourChars DEF Prompt, Stop
  <1> HIDE DEF v, q
  <1>5. Read(p \o Prompt) = [at |-> "plain", escaped |-> FALSE,
                             shown |-> v \o <<"mark">>]
    BY <1>3, <1>4, Zenon DEF Reads
  <1> QED BY <1>5 DEF Accepts

-----------------------------------------------------------------------------
(* A sequence at the end of another, one element at a time.                *)
LEMMA ConcatTexts ==
  ASSUME NEW x \in Seq(Chars), NEW y \in Seq(Chars), NEW z \in Seq(Chars)
  PROVE  (x \o y) \o z = x \o (y \o z)
  BY ConcatAssociative

LEMMA ConcatAppend ==
  ASSUME NEW T, NEW p \in Seq(T), NEW s \in Seq(T), NEW c \in T
  PROVE  p \o Append(s, c) = (p \o s) \o <<c>>
  <1>1. <<c>> \in Seq(T)
    OBVIOUS
  <1>2. (p \o s) \o <<c>> = p \o (s \o <<c>>)
    BY <1>1, ConcatAssociative
  <1>3. s \o <<c>> = Append(s, c)
    BY ConcatOne, Zenon
  <1> QED BY <1>2, <1>3, Zenon

(* Words without a special character are shown as they are.                *)
LEMMA ReadsLetters ==
  ASSUME NEW p, NEW a, NEW w, Reads(p, a, w), NEW s \in Seq({"letter"})
  PROVE  Reads(p \o s, a, w \o s)
  <1> DEFINE L == {"letter"}
  <1> DEFINE S == {t \in Seq(L) : Reads(p \o t, a, w \o t)}
  <1>1. p \in Seq(Chars) /\ w \in Seq(Chars)
    BY DEF Reads
  <1>2. <<>> \in S
    BY <1>1, ConcatEmptySeq
  <1>3. ASSUME NEW t \in Seq(L), NEW c \in L, t \in S
        PROVE  Append(t, c) \in S
    <2>1. t \in Seq(Chars)
      BY FourChars, SeqMonotonic
    <2>2. c = "letter" /\ c \in Chars
      BY FourChars
    <2>3. Reads((p \o t) \o <<c>>, a, (w \o t) \o <<c>>)
      BY <1>3, <2>2, ReadsLetter
    <2>4. /\ p \o Append(t, c) = (p \o t) \o <<c>>
          /\ w \o Append(t, c) = (w \o t) \o <<c>>
      BY <1>1, <2>1, <2>2, ConcatAppend
    <2>5. Append(t, c) \in Seq(L)
      BY AppendProperties
    <2> QED BY <2>3, <2>4, <2>5, Zenon
  <1> HIDE DEF S
  <1>4. Seq(L) \subseteq S
    BY <1>2, <1>3, SeqInduction
  <1> QED BY <1>4 DEF S

(* What escapeMarkdown makes of one more character.                        *)
Escape(c) == IF c \in {"mark", "tick"} THEN <<"backslash", c>> ELSE <<c>>

LEMMA EscapeEmpty == EscapeMarkdown(<<>>) = <<>>
  <1> DEFINE E(t) == [i \in DOMAIN t |->
                        IF t[i] \in {"mark", "tick"}
                        THEN <<"backslash", t[i]>> ELSE <<t[i]>>]
  <1>1. EscapeMarkdown(<<>>) = FlattenSeq(E(<<>>))
    BY Zenon DEF EscapeMarkdown
  <1>2. E(<<>>) = <<>>
    OBVIOUS
  <1> QED BY <1>1, <1>2, FlattenEmpty, Zenon

LEMMA EscapeType ==
  ASSUME NEW c \in Chars
  PROVE  Escape(c) \in Seq(Chars)
  BY FourChars DEF Escape

LEMMA EscapeAppend ==
  ASSUME NEW s \in Seq(Chars), NEW c \in Chars
  PROVE  /\ EscapeMarkdown(s) \in Seq(Chars)
         /\ EscapeMarkdown(Append(s, c)) = EscapeMarkdown(s) \o Escape(c)
  <1> DEFINE E(t) == [i \in DOMAIN t |-> Escape(t[i])]
  <1>1. \A t : EscapeMarkdown(t) = FlattenSeq(E(t))
    BY Zenon DEF EscapeMarkdown, Escape
  <1>2. E(s) \in Seq(Seq(Chars))
    <2>1. DOMAIN s = 1..Len(s) /\ Len(s) \in Nat
      BY LenProperties
    <2>2. \A i \in 1..Len(s) : Escape(s[i]) \in Seq(Chars)
      BY EscapeType, ElementOfSeq
    <2> QED BY <2>1, <2>2
  <1>3. E(Append(s, c)) = Append(E(s), Escape(c))
    <2> DEFINE n == Len(s)
    <2>1. /\ n \in Nat /\ DOMAIN s = 1..n /\ DOMAIN Append(s, c) = 1..(n + 1)
          /\ \A i \in 1..n : Append(s, c)[i] = s[i]
          /\ Append(s, c)[n + 1] = c
      BY LenProperties, AppendProperties
    <2>2. /\ DOMAIN E(s) = 1..n /\ Len(E(s)) = n
          /\ DOMAIN Append(E(s), Escape(c)) = 1..(n + 1)
      BY <2>1, <1>2, EscapeType, LenProperties, AppendProperties
    <2> QED BY <2>1, <2>2, <1>2, EscapeType
  <1> HIDE DEF E
  <1>4. /\ FlattenSeq(E(s)) \in Seq(Chars)
        /\ FlattenSeq(Append(E(s), Escape(c))) = FlattenSeq(E(s)) \o Escape(c)
    BY <1>2, EscapeType, FlattenAppend
  <1> QED BY <1>1, <1>3, <1>4

(* escapeMarkdown does its work on words without a backslash: they are     *)
(* shown as they were written, inside an entity and outside.               *)
LEMMA ReadsEscape ==
  ASSUME NEW p, NEW a, NEW w, Reads(p, a, w), NEW s \in Seq(Chars \ {"backslash"})
  PROVE  Reads(p \o EscapeMarkdown(s), a, w \o s)
  <1> DEFINE C == Chars \ {"backslash"}
  <1> DEFINE S == {t \in Seq(C) : Reads(p \o EscapeMarkdown(t), a, w \o t)}
  <1>1. p \in Seq(Chars) /\ w \in Seq(Chars)
    BY DEF Reads
  <1>2. <<>> \in S
    <2>1. p \o <<>> = p /\ w \o <<>> = w
      BY <1>1, ConcatEmptySeq
    <2>2. Reads(p \o EscapeMarkdown(<<>>), a, w \o <<>>)
      BY <2>1, EscapeEmpty, Zenon
    <2> QED BY <2>2
  <1>3. ASSUME NEW t \in Seq(C), NEW c \in C, t \in S
        PROVE  Append(t, c) \in S
    <2> DEFINE e == EscapeMarkdown(t)
    <2> DEFINE q == p \o e
    <2> DEFINE v == w \o t
    <2>1. t \in Seq(Chars) /\ c \in Chars
      BY SeqMonotonic
    <2>2. e \in Seq(Chars) /\ EscapeMarkdown(Append(t, c)) = e \o Escape(c)
      BY <2>1, EscapeAppend, Zenon
    <2>3. Reads(q, a, v)
      BY <1>3
    <2> HIDE DEF e
    <2>4. p \o (e \o Escape(c)) = q \o Escape(c)
      <3> DEFINE u == Escape(c)
      <3>1. u \in Seq(Chars)
        BY <2>1, EscapeType
      <3>2. e \in Seq(Chars)
        BY <2>2
      <3> HIDE DEF u
      <3>3. (p \o e) \o u = p \o (e \o u)
        BY <1>1, <3>1, <3>2, ConcatTexts, Zenon
      <3> QED BY <3>3, Zenon DEF u
    <2> HIDE DEF q, v
    <2>5. Reads(q \o Escape(c), a, v \o <<c>>)
      <3>1. CASE c \in {"mark", "tick"}
        BY <2>1, <2>3, <3>1, ReadsEscaped, Zenon DEF Escape
      <3>2. CASE c = "letter"
        BY <2>3, <3>2, ReadsLetter DEF Escape
      <3> QED BY <3>1, <3>2 DEF Chars
    <2>6. w \o Append(t, c) = v \o <<c>>
      BY <1>1, <2>1, ConcatAppend DEF v
    <2>7. Append(t, c) \in Seq(C)
      BY AppendProperties
    <2>8. Reads(p \o EscapeMarkdown(Append(t, c)), a, w \o Append(t, c))
      BY <2>2, <2>4, <2>5, <2>6, Zenon DEF e
    <2> QED BY <2>7, <2>8
  <1> HIDE DEF S
  <1>4. Seq(C) \subseteq S
    BY <1>2, <1>3, SeqInduction
  <1> QED BY <1>4 DEF S

-----------------------------------------------------------------------------
(* The texts the bot sends.                                                *)
LEMMA PromptAccepted == Accepts(Prompt)
  <1>1. Prompt \in Seq(Chars)
    BY DEF Prompt, Stop, Chars
  <1>2. <<>> \o Prompt = Prompt
    BY <1>1, ConcatEmptySeq
  <1>3. Accepts(<<>> \o Prompt)
    BY ReadsNothing, ReadsPrompt, Zenon
  <1> QED BY <1>2, <1>3

LEMMA ReadsOne ==
  /\ Reads(<<"letter">>, "plain", <<"letter">>)
  /\ Reads(<<"tick">>, "entity", <<>>)
  <1>1. <<>> \o <<"letter">> = <<"letter">> /\ <<>> \o <<"tick">> = <<"tick">>
    OBVIOUS
  <1>2. Reads(<<>> \o <<"letter">>, "plain", <<>> \o <<"letter">>)
    BY ReadsNothing, ReadsLetter, Zenon
  <1>3. Reads(<<>> \o <<"tick">>, "entity", <<>>)
    BY ReadsNothing, ReadsTick, Zenon
  <1> QED BY <1>1, <1>2, <1>3, Zenon

LEMMA ThankAccepted ==
  ASSUME NEW name \in Seq({"letter"})
  PROVE  Accepts(Thank(name))
  <1> DEFINE p == <<"letter">> \o name
  <1>1. Reads(p, "plain", <<"letter">> \o name)
    BY ReadsOne, ReadsLetters, Zenon
  <1> HIDE DEF p
  <1>2. Reads(p \o Stop, "plain", (<<"letter">> \o name) \o <<"mark">>)
    BY <1>1, ReadsStop, Zenon
  <1>3. Accepts((p \o Stop) \o Prompt)
    BY <1>2, ReadsPrompt, Zenon
  <1> QED BY <1>3, Zenon DEF Thank, p

LEMMA QuoteAccepted ==
  ASSUME NEW words \in Seq({"letter"})
  PROVE  Accepts(InTicks(words) \o Prompt)
  <1>1. Reads(<<"tick">> \o words, "entity", <<>> \o words)
    BY ReadsOne, ReadsLetters, Zenon
  <1>2. Reads((<<"tick">> \o words) \o <<"tick">>, "plain", <<>> \o words)
    BY <1>1, ReadsTick, Zenon
  <1> QED BY <1>2, ReadsPrompt, Zenon DEF InTicks

LEMMA CaptionShows ==
  ASSUME NEW name \in Seq(Chars \ {"backslash"}),
         NEW id \in Seq(Chars \ {"backslash"})
  PROVE  Reads(<<"letter">> \o EscapeMarkdown(name) \o <<"letter">>
                   \o InTicks(EscapeMarkdown(id)),
               "plain", <<"letter">> \o name \o <<"letter">> \o id)
  <1> DEFINE l == <<"letter">>
  <1> DEFINE t == <<"tick">>
  <1> DEFINE e == EscapeMarkdown(name)
  <1> DEFINE f == EscapeMarkdown(id)
  <1> DEFINE p == (l \o e) \o l
  <1> DEFINE v == (l \o name) \o l
  <1>1. f \in Seq(Chars) /\ t \in Seq(Chars)
    <2>1. id \in Seq(Chars)
      BY SeqMonotonic
    <2> QED BY <2>1, FourChars, EscapeAppend
  <1>2. Reads(p, "plain", v)
    BY ReadsOne, ReadsEscape, ReadsLetter, Zenon
  <1>3. Reads(((p \o t) \o f) \o t, "plain", v \o id)
    <2>1. Reads(p \o t, "entity", v)
      BY <1>2, ReadsTick, Zenon
    <2>2. Reads((p \o t) \o f, "entity", v \o id)
      BY <2>1, ReadsEscape, Zenon
    <2> QED BY <2>2, ReadsTick, Zenon
  <1> HIDE DEF f, t
  <1>4. p \o ((t \o f) \o t) = ((p \o t) \o f) \o t
    <2>1. p \in Seq(Chars)
      BY <1>2 DEF Reads
    <2> HIDE DEF p
    <2>2. t \o f \in Seq(Chars)
      BY <1>1, ConcatProperties, Zenon
    <2>3. (p \o (t \o f)) \o t = p \o ((t \o f) \o t)
      BY <1>1, <2>1, <2>2, ConcatTexts, Zenon
    <2>4. (p \o t) \o f = p \o (t \o f)
      BY <1>1, <2>1, ConcatTexts, Zenon
    <2> QED BY <2>3, <2>4, Zenon
  <1> HIDE DEF p
  <1>5. Reads(p \o ((t \o f) \o t), "plain", v \o id)
    BY <1>3, <1>4, Zenon
  <1> QED BY <1>5, Zenon DEF InTicks, p, t, f

-----------------------------------------------------------------------------
(* The titles of the countries, in the order of their buttons: each once.  *)
LEMMA CountryTitles ==
  /\ Cardinality(Countries) \in Nat \ {0}
  /\ SetToSeq(Countries) \in [1..Cardinality(Countries) -> Countries]
  /\ \A x \in Countries : \E i \in 1..Cardinality(Countries) :
        SetToSeq(Countries)[i] = x
  <1> DEFINE n == Cardinality(Countries)
  <1> DEFINE t == SetToSeq(Countries)
  <1>1. n \in Nat /\ ExistsBijection(1..n, Countries)
    BY FS_CardinalityType, CountriesAssumption
  <1>2. n # 0
    BY FS_EmptySet, CountriesAssumption
  <1>3. \E f \in [1..n -> Countries] : IsInjective(f)
    BY <1>1 DEF ExistsBijection, Bijection, Injection
  <1>4. t \in [1..n -> Countries] /\ IsInjective(t)
    BY <1>3, Zenon DEF SetToSeq
  <1> HIDE DEF t, n
  <1>5. t \in Injection(1..n, Countries)
    BY <1>4 DEF Injection
  <1>6. Cardinality(1..n) = n
    BY <1>1, FS_Interval
  <1>7. t \in Surjection(1..n, Countries)
    BY <1>5, <1>6, FS_Injection, CountriesAssumption DEF n
  <1>8. \A x \in Countries : \E i \in 1..n : t[i] = x
    BY <1>7 DEF Surjection
  <1> QED BY <1>1, <1>2, <1>4, <1>8 DEF t, n

LEMMA MinOfTwo ==
  ASSUME NEW x \in Nat, NEW y \in Nat
  PROVE  /\ Min({x, y}) \in Nat /\ Min({x, y}) <= x /\ Min({x, y}) <= y
         /\ \A i \in Nat : i <= x /\ i <= y => i <= Min({x, y})
  <1>1. \E m \in {x, y} : \A k \in {x, y} : m <= k
    <2>1. CASE x <= y
      BY <2>1
    <2>2. CASE y <= x
      BY <2>2
    <2> QED BY <2>1, <2>2
  <1>2. Min({x, y}) \in {x, y} /\ \A k \in {x, y} : Min({x, y}) <= k
    BY <1>1, Zenon DEF Min
  <1> QED BY <1>2

(* The keyboard of the countries has a button for each of them and no      *)
(* other button.                                                           *)
LEMMA CountryKeyboard == ButtonsOn(CountryButtons) = Countries
  <1> DEFINE n == Cardinality(Countries)
  <1> DEFINE t == SetToSeq(Countries)
  <1> DEFINE R == (n + 1) \div 2
  <1> DEFINE Line(r) == SubSeq(t, (r - 1) * 2 + 1, Min({r * 2, n}))
  <1>1. /\ n \in Nat \ {0} /\ t \in [1..n -> Countries]
        /\ \A x \in Countries : \E i \in 1..n : t[i] = x
    BY CountryTitles
  <1> HIDE DEF t, n
  <1>2. t \in Seq(Countries) /\ Len(t) = n
    BY <1>1
  <1>3. CountryButtons = [r \in 1..R |-> Line(r)]
    <2>1. Len(t) + 2 - 1 = n + 1
      BY <1>1, <1>2
    <2> QED BY <1>2, <2>1, Zenon DEF CountryButtons, Grid, t
  <1>4. R \in Nat /\ \A i \in 1..n : \E r \in 1..R :
                        (r - 1) * 2 + 1 <= i /\ i <= r * 2
    <2>1. R \in Nat /\ 2 * R <= n + 1 /\ n + 1 < 2 * R + 2
      BY <1>1
    <2>2. ASSUME NEW i \in 1..n
          PROVE  \E r \in 1..R : (r - 1) * 2 + 1 <= i /\ i <= r * 2
      <3> DEFINE r == (i + 1) \div 2
      <3>1. r \in Nat /\ 2 * r <= i + 1 /\ i + 1 < 2 * r + 2
        BY <1>1
      <3> HIDE DEF r, R
      <3>2. r \in 1..R
        BY <1>1, <2>1, <3>1
      <3>3. (r - 1) * 2 + 1 <= i /\ i <= r * 2
        BY <1>1, <3>1, <3>2
      <3> QED BY <3>2, <3>3
    <2> QED BY <2>1, <2>2
  <1>a. ASSUME NEW r \in 1..R
        PROVE  /\ r \in Nat \ {0} /\ (r - 1) * 2 + 1 \in Nat \ {0}
               /\ Min({r * 2, n}) \in Nat /\ Min({r * 2, n}) <= n
               /\ \A i \in Nat : i <= r * 2 /\ i <= n => i <= Min({r * 2, n})
    <2> HIDE DEF R
    <2>1. r \in Nat \ {0} /\ r * 2 \in Nat /\ (r - 1) * 2 + 1 \in Nat \ {0}
      BY <1>4
    <2> QED BY <1>1, <2>1, MinOfTwo
  <1>5. ASSUME NEW r \in 1..R
        PROVE  Range(Line(r)) = {t[i] : i \in (r - 1) * 2 + 1 .. Min({r * 2, n})}
    <2> DEFINE a == (r - 1) * 2 + 1
    <2> DEFINE b == Min({r * 2, n})
    <2>1. a \in Nat \ {0} /\ b \in Nat /\ b <= n
      BY <1>a
    <2> HIDE DEF a, b
    <2>2. \A i \in a..b : t[i] \in Countries
      BY <1>1, <2>1
    <2>3. /\ SubSeq(t, a, b) \in Seq(Countries)
          /\ Len(SubSeq(t, a, b)) = IF a <= b THEN b - a + 1 ELSE 0
          /\ \A i \in 1..(b - a + 1) : SubSeq(t, a, b)[i] = t[a + i - 1]
      BY <2>1, <2>2, SubSeqProperties
    <2>4. Range(SubSeq(t, a, b)) = {t[i] : i \in a..b}
      <3> DEFINE s == SubSeq(t, a, b)
      <3>1. Range(s) = {s[i] : i \in 1..Len(s)}
        BY <2>3, LenProperties DEF Range
      <3>2. ASSUME NEW i \in 1..Len(s)
            PROVE  s[i] \in {t[j] : j \in a..b}
        BY <2>1, <2>3
      <3>3. ASSUME NEW j \in a..b
            PROVE  t[j] \in {s[i] : i \in 1..Len(s)}
        <4>1. j - a + 1 \in 1..Len(s) /\ s[j - a + 1] = t[j]
          BY <2>1, <2>3
        <4> QED BY <4>1
      <3> QED BY <3>1, <3>2, <3>3
    <2> QED BY <2>4 DEF a, b
  <1> HIDE DEF R
  <1>6. ButtonsOn(CountryButtons) = UNION {Range(Line(r)) : r \in 1..R}
    BY <1>3 DEF ButtonsOn
  <1> HIDE DEF Line
  <1>7. \A r \in 1..R : Range(Line(r)) \subseteq Countries
    <2> SUFFICES ASSUME NEW r \in 1..R, NEW x \in Range(Line(r))
                 PROVE  x \in Countries
      BY Zenon
    <2>1. PICK i \in (r - 1) * 2 + 1 .. Min({r * 2, n}) : x = t[i]
      BY <1>5
    <2>2. i \in 1..n
      BY <1>1, <1>a
    <2> QED BY <1>1, <2>1, <2>2
  <1>8. ASSUME NEW x \in Countries
        PROVE  \E r \in 1..R : x \in Range(Line(r))
    <2>1. PICK i \in 1..n : t[i] = x
      BY <1>1
    <2>2. PICK r \in 1..R : (r - 1) * 2 + 1 <= i /\ i <= r * 2
      BY <1>4, <2>1
    <2>3. r \in Nat /\ Min({r * 2, n}) \in Nat /\ i <= Min({r * 2, n})
      BY <1>1, <1>a, <2>2
    <2>4. i \in (r - 1) * 2 + 1 .. Min({r * 2, n})
      BY <1>1, <1>a, <2>2, <2>3
    <2> QED BY <1>5, <2>1, <2>4
  <1> QED BY <1>6, <1>7, <1>8, Zenon

(* What is on the other keyboards tells them apart from it.                *)
LEMMA KeyboardsDiffer ==
  /\ ButtonsOn(CountryButtons) = Countries
  /\ CountryButtons # <<>> /\ CountryButtons # ContactButton
  /\ CountryButtons # PolicyButtons
  /\ ContactButton # <<>> /\ ContactButton # PolicyButtons /\ PolicyButtons # <<>>
  <1>1. ButtonsOn(<<>>) = {}
    BY DEF ButtonsOn
  <1>2. ButtonsOn(ContactButton) = {"share_contact"}
    <2>1. DOMAIN ContactButton = {1} /\ ContactButton[1] = <<"share_contact">>
      BY DEF ContactButton
    <2>2. Range(<<"share_contact">>) = {"share_contact"}
      BY DEF Range
    <2> QED BY <2>1, <2>2 DEF ButtonsOn
  <1>3. ButtonsOn(PolicyButtons) = {"policy_accept", "policy_decline"}
    <2>1. DOMAIN PolicyButtons = {1} /\ PolicyButtons[1] = <<"policy_accept", "policy_decline">>
      BY DEF PolicyButtons
    <2>2. Range(<<"policy_accept", "policy_decline">>) = {"policy_accept", "policy_decline"}
      <3>1. \A f : DOMAIN f = 1..2 => Range(f) = {f[1], f[2]}
        BY DEF Range
      <3> QED BY <3>1
    <2> QED BY <2>1, <2>2 DEF ButtonsOn
  <1>4. /\ Countries # {} /\ Countries # {"share_contact"}
        /\ Countries # {"policy_accept", "policy_decline"}
    BY CountriesAssumption
  <1>5. "share_contact" # "policy_accept"
    OBVIOUS
  <1> QED BY <1>1, <1>2, <1>3, <1>4, <1>5, CountryKeyboard

-----------------------------------------------------------------------------
(* The messages the handlers build.                                        *)
Markups == {<<>>, ContactButton, PolicyButtons, CountryButtons}
Msgs == [asks: Wordings \cup {"silence", "panic"}, text: Seq(Chars),
         mode: {"MarkdownV2", ""}, remove: BOOLEAN, markup: Markups]

Is(m, asks, remove, markup) ==
    /\ m \in Msgs /\ m.asks = asks /\ m.remove = remove /\ m.markup = markup

LEMMA TextTypes ==
  /\ Prompt \in Seq(Chars) /\ BarePrompt \in Seq(Chars) /\ <<>> \in Seq(Chars)
  /\ \A s \in Seq(Chars) : /\ Thank(s) \in Seq(Chars)
                           /\ InTicks(s) \o Prompt \in Seq(Chars)
  <1>1. /\ Prompt \in Seq(Chars) /\ BarePrompt \in Seq(Chars) /\ <<>> \in Seq(Chars)
        /\ <<"letter">> \in Seq(Chars) /\ <<"tick">> \in Seq(Chars)
        /\ Stop \in Seq(Chars)
    BY FourChars DEF Prompt, Stop, BarePrompt
  <1>2. ASSUME NEW s \in Seq(Chars)
        PROVE  Thank(s) \in Seq(Chars) /\ InTicks(s) \o Prompt \in Seq(Chars)
    <2>1. <<"letter">> \o s \in Seq(Chars) /\ <<"tick">> \o s \in Seq(Chars)
      BY <1>1, ConcatProperties
    <2>2. (<<"tick">> \o s) \o <<"tick">> \in Seq(Chars)
      BY <1>1, <2>1, ConcatProperties
    <2>3. (<<"letter">> \o s) \o Stop \in Seq(Chars)
      BY <1>1, <2>1, ConcatProperties
    <2> QED BY <1>1, <2>2, <2>3, ConcatProperties DEF Thank, InTicks
  <1> QED BY <1>1, <1>2

LEMMA Built ==
  ASSUME NEW asks \in Wordings \cup {"silence", "panic"}, NEW text \in Seq(Chars)
  PROVE  /\ Is(NewBuilder(asks, text), asks, FALSE, <<>>)
         /\ Arrives(NewBuilder(asks, text)) <=> Accepts(text)
  BY DEF Is, NewBuilder, Msgs, Markups, Arrives

LEMMA Asked ==
  ASSUME NEW asks \in Wordings
  PROVE  Is(Ask(asks), asks, FALSE, <<>>) /\ Arrives(Ask(asks))
  BY Built, TextTypes, PromptAccepted DEF Ask

LEMMA PlainAsked ==
  ASSUME NEW asks \in Wordings
  PROVE  Is(Plain(asks), asks, FALSE, <<>>) /\ Arrives(Plain(asks))
  BY TextTypes DEF Plain, WithParseMode, NewBuilder, Is, Msgs, Markups, Arrives

LEMMA Removing ==
  ASSUME NEW m \in Msgs
  PROVE  /\ Is(WithRemoveKeyboard(m), m.asks, TRUE, <<>>)
         /\ Arrives(WithRemoveKeyboard(m)) <=> Arrives(m)
  BY DEF WithRemoveKeyboard, Is, Msgs, Markups, Arrives

LEMMA Offering ==
  ASSUME NEW m \in Msgs, NEW markup \in Markups
  PROVE  /\ Is(WithMarkup(m, markup), m.asks, FALSE, markup)
         /\ Arrives(WithMarkup(m, markup)) <=> Arrives(m)
  BY DEF WithMarkup, Is, Msgs, Markups, Arrives

LEMMA Questions ==
  /\ Is(AskPhone, "awaiting_phone_number", FALSE, ContactButton)
  /\ Arrives(AskPhone)
  /\ Is(AskDoc, "awaiting_identity_doc", FALSE, <<>>) /\ Arrives(AskDoc)
  /\ Is(AskPolicy, "awaiting_policy_approval", FALSE, PolicyButtons)
  /\ Arrives(AskPolicy)
  /\ Is(Silence, "silence", FALSE, <<>>)
  /\ Is(Panic, "panic", FALSE, <<>>)
  /\ Is(Error, "error", FALSE, <<>>) /\ Arrives(Error)
  <1>1. /\ "awaiting_phone_number" \in Wordings
        /\ "awaiting_identity_doc" \in Wordings
        /\ "awaiting_policy_approval" \in Wordings
    BY DEF Wordings, States
  <1>2. ContactButton \in Markups /\ PolicyButtons \in Markups
    BY DEF Markups
  <1>3. /\ Is(AskPhone, "awaiting_phone_number", FALSE, ContactButton)
        /\ Arrives(AskPhone)
    <2>1. /\ Is(Ask("awaiting_phone_number"), "awaiting_phone_number", FALSE, <<>>)
          /\ Arrives(Ask("awaiting_phone_number"))
      BY <1>1, Asked
    <2> QED BY <1>2, <2>1, Offering DEF AskPhone, WithContactButton, Is
  <1>4. Is(AskDoc, "awaiting_identity_doc", FALSE, <<>>) /\ Arrives(AskDoc)
    BY <1>1, Asked DEF AskDoc
  <1>5. /\ Is(AskPolicy, "awaiting_policy_approval", FALSE, PolicyButtons)
        /\ Arrives(AskPolicy)
    <2>1. /\ Is(Ask("awaiting_policy_approval"), "awaiting_policy_approval", FALSE, <<>>)
          /\ Arrives(Ask("awaiting_policy_approval"))
      BY <1>1, Asked
    <2> QED BY <1>2, <2>1, Offering DEF AskPolicy, WithInlineButtons, Is
  <1>6. /\ Is(Silence, "silence", FALSE, <<>>)
        /\ Is(Panic, "panic", FALSE, <<>>)
    BY Built, TextTypes DEF Silence, Panic
  <1>7. Is(Error, "error", FALSE, <<>>) /\ Arrives(Error)
    BY PlainAsked DEF Error, Wordings
  <1> QED BY <1>3, <1>4, <1>5, <1>6, <1>7

(* The chat a handler is given, and what comes in.                         *)
Spelled == Spellings \cup {<<>>}
Saids == [first_name: Spelled, government_id: Spelled]
Chats == [row: Rows, said: Saids, uploaded: BOOLEAN, msg: Msgs]

LEMMA SpelledType == Spelled \subseteq Seq(Chars)
  BY SpellingsAssumption, TextTypes DEF Spelled

LEMMA InputType ==
  ASSUME NEW in \in Inputs
  PROVE  /\ in.words \in Spelled
         /\ in.kind \in Texts \cup Contacts \cup {"photo", "start"} \cup Taps
         /\ in.kind \in {"start"} \cup Taps => in.words = <<>>
  BY DEF Inputs, Spelled, Texts, Contacts, Taps

(* Words are letters only when none of their characters is special.        *)
LEMMA NotSpecial ==
  ASSUME NEW c \in Chats, NEW in \in Inputs, ~Special(c, in)
  PROVE  c.said.first_name \in Seq({"letter"}) /\ in.words \in Seq({"letter"})
  <1> DEFINE f == c.said.first_name
  <1> DEFINE w == in.words
  <1>1. f \in Seq(Chars) /\ w \in Seq(Chars)
    BY InputType, SpelledType DEF Chats, Saids
  <1>2. \A i \in DOMAIN (f \o w) : (f \o w)[i] = "letter"
    BY DEF Special
  <1> HIDE DEF f, w
  <1>3. /\ Len(f) \in Nat /\ Len(w) \in Nat
        /\ f \o w \in Seq(Chars) /\ Len(f \o w) = Len(f) + Len(w)
        /\ DOMAIN (f \o w) = 1..(Len(f) + Len(w))
        /\ \A i \in 1..(Len(f) + Len(w)) :
              (f \o w)[i] = IF i <= Len(f) THEN f[i] ELSE w[i - Len(f)]
    BY <1>1, ConcatProperties, LenProperties
  <1>4. ASSUME NEW i \in 1..Len(f)
        PROVE  f[i] = "letter"
    <2>1. i \in 1..(Len(f) + Len(w)) /\ i <= Len(f)
      BY <1>3
    <2> QED BY <1>2, <1>3, <2>1
  <1>5. ASSUME NEW i \in 1..Len(w)
        PROVE  w[i] = "letter"
    <2>1. /\ i + Len(f) \in 1..(Len(f) + Len(w)) /\ ~(i + Len(f) <= Len(f))
          /\ (i + Len(f)) - Len(f) = i
      BY <1>3
    <2> QED BY <1>2, <1>3, <2>1
  <1>6. f \in Seq({"letter"}) /\ w \in Seq({"letter"})
    BY <1>1, <1>4, <1>5
  <1> QED BY <1>6 DEF f, w

(* A reply that quotes the first name, if there is one.                    *)
LEMMA Quoted ==
  ASSUME NEW c \in Chats, NEW in \in Inputs, NEW asks \in Wordings
  PROVE  LET q == Quote(asks, c)
         IN  /\ "first_name" \notin c.row.filled => q = Panic
             /\ "first_name" \in c.row.filled =>
                   /\ Is(q, asks, FALSE, <<>>)
                   /\ Arrives(q) \/ Special(c, in)
  <1>1. c.said.first_name \in Seq(Chars)
    BY SpelledType DEF Chats, Saids
  <1>2. CASE "first_name" \in c.row.filled
    <2>1. Quote(asks, c) = NewBuilder(asks, Thank(c.said.first_name))
      BY <1>2 DEF Quote
    <2>2. Is(Quote(asks, c), asks, FALSE, <<>>)
      BY <1>1, <2>1, TextTypes, Built
    <2>3. ASSUME ~Special(c, in)
          PROVE  Arrives(Quote(asks, c))
      BY <1>1, <2>1, <2>3, TextTypes, Built, NotSpecial, ThankAccepted
    <2> QED BY <1>2, <2>2, <2>3
  <1>3. CASE "first_name" \notin c.row.filled
    BY <1>3 DEF Quote
  <1> QED BY <1>2, <1>3

-----------------------------------------------------------------------------
(* What every handler does with a chat: it asks for what the row it saves  *)
(* awaits, or breaks off; a text that Telegram refuses quotes a special    *)
(* character or is the prompt for a photo; the country buttons come with   *)
(* the question for the country, and go with its answer, unless that is an *)
(* error.                                                                  *)
Question(m, after) ==
    \/ /\ m.asks = after.state
       /\ after.state = "awaiting_phone_number" =>
             m.markup = ContactButton /\ ~m.remove
       /\ after.state = "awaiting_location" =>
             m.markup = CountryButtons /\ ~m.remove
       /\ after.state = "awaiting_policy_approval" => m.markup = PolicyButtons
    \/ m.asks \in {"support", "decide", "error"}
    \/ after.status = "level_1" /\ m.asks = "wait"

Answers(c, in, r) ==
    /\ r \in Chats
    /\ r.msg.markup = PolicyButtons => r.msg = AskPolicy
    /\ r.msg.markup = CountryButtons => r.row.state = "awaiting_location"
    /\ ~Unsent(r.msg) =>
          /\ \/ Arrives(r.msg)
             \/ r.msg.asks = "awaiting_identity_doc"
             \/ r.msg.asks \in {"awaiting_location", "wait"} /\ Special(c, in)
          /\ r.row.state = "none" \/ Question(r.msg, r.row)
    /\ c.row.state = "awaiting_location" /\ in.kind \notin Taps
          /\ r.msg # Error =>
          IF Unsent(r.msg) THEN r.row.state = "awaiting_location"
          ELSE r.msg.remove \/ r.msg.markup = CountryButtons

LEMMA Wording ==
  /\ States \subseteq Wordings
  /\ "support" \in Wordings /\ "wait" \in Wordings /\ "decide" \in Wordings
  /\ "error" \in Wordings
  /\ \A x \in Wordings : x \notin {"silence", "panic"}
  BY DEF Wordings, States

LEMMA Saying ==
  ASSUME NEW c \in Chats, NEW m \in Msgs
  PROVE  /\ Say(c, m) \in Chats /\ Say(c, m).msg = m
         /\ Say(c, m).row = c.row /\ Say(c, m).said = c.said
  BY DEF Say, Chats

LEMMA Saving ==
  ASSUME NEW c \in Chats, NEW m \in Msgs, NEW after \in Rows
  PROVE  /\ Save(c, after, m) \in Chats /\ Save(c, after, m).msg = m
         /\ Save(c, after, m).row = after /\ Save(c, after, m).said = c.said
  BY DEF Save, Chats

LEMMA RowSteps ==
  ASSUME NEW r \in Rows
  PROVE  /\ TakeFirstName(r) \in Rows /\ TakeFirstName(r).state = "awaiting_last_name"
         /\ TakeLastName(r) \in Rows /\ TakeLastName(r).state = "awaiting_phone_number"
         /\ TakePhoneNumber(r) \in Rows /\ TakePhoneNumber(r).state = "awaiting_gov_id"
         /\ TakeGovID(r) \in Rows /\ TakeGovID(r).state = "awaiting_location"
         /\ TakeLocation(r) \in Rows /\ TakeLocation(r).state = "awaiting_identity_doc"
         /\ TakeIdentityDoc(r, 1) \in Rows
         /\ TakeIdentityDoc(r, 1).state = "awaiting_policy_approval"
         /\ CompleteRegistration(r) \in Rows /\ CompleteRegistration(r).state = "none"
         /\ DeclinePolicy(r) \in Rows /\ DeclinePolicy(r).state = "awaiting_first_name"
         /\ RestartRegistration(r) \in Rows
         /\ RestartRegistration(r).state = "awaiting_first_name"
         /\ Approve(r) \in Rows /\ Reject(r) \in Rows
  BY DEF Rows, Statuses, States, Fields, Answer, TakeFirstName, TakeLastName,
         TakePhoneNumber, TakeGovID, TakeLocation, TakeIdentityDoc,
         CompleteRegistration, DeclinePolicy, RestartRegistration, Approve, Reject

(* A message that asks for what a row awaits, unless that is the country.  *)
Asks(m, after) ==
    /\ m \in Msgs /\ Arrives(m) /\ m.asks = after.state
    /\ after.state # "awaiting_location"
    /\ m.markup = PolicyButtons => m = AskPolicy
    /\ m.markup # CountryButtons
    /\ after.state = "awaiting_phone_number" =>
          m.markup = ContactButton /\ ~m.remove
    /\ after.state = "awaiting_policy_approval" => m.markup = PolicyButtons

LEMMA AnswersSay ==
  ASSUME NEW c \in Chats, NEW in \in Inputs, NEW m, Asks(m, c.row)
  PROVE  Answers(c, in, Say(c, m))
  <1>1. m \in Msgs
    BY DEF Asks
  <1>2. /\ Say(c, m) \in Chats /\ Say(c, m).msg = m /\ Say(c, m).row = c.row
    BY <1>1, Saying
  <1> QED BY <1>2 DEF Answers, Question, Asks

LEMMA AnswersSave ==
  ASSUME NEW c \in Chats, NEW in \in Inputs, NEW m,
         NEW after \in Rows, Asks(m, after),
         c.row.state = "awaiting_location" /\ in.kind \notin Taps => m.remove
  PROVE  Answers(c, in, Save(c, after, m))
  <1>1. m \in Msgs
    BY DEF Asks
  <1>2. /\ Save(c, after, m) \in Chats /\ Save(c, after, m).msg = m
        /\ Save(c, after, m).row = after
    BY <1>1, Saving
  <1>3. m.asks \notin {"silence", "panic"}
    <2>1. m.asks = after.state
      BY DEF Asks
    <2> QED BY <2>1, Wording DEF Rows
  <1> QED BY <1>2, <1>3 DEF Answers, Question, Asks, Unsent

LEMMA AnswersStore ==
  ASSUME NEW c, NEW in \in Inputs, NEW r, Answers(c, in, r)
  PROVE  /\ Answers(c, in, [r EXCEPT !.said.first_name = in.words])
         /\ Answers(c, in, [r EXCEPT !.said.government_id = in.words])
  <1>1. in.words \in Spelled
    BY InputType
  <1>2. r \in Chats
    BY DEF Answers
  <1>3. ASSUME NEW q, q \in {[r EXCEPT !.said.first_name = in.words],
                          [r EXCEPT !.said.government_id = in.words]}
        PROVE  q \in Chats /\ q.msg = r.msg /\ q.row = r.row
    BY <1>1, <1>2, <1>3 DEF Chats, Saids
  <1>4. ASSUME NEW q, q \in Chats, q.msg = r.msg, q.row = r.row
        PROVE  Answers(c, in, q)
    BY <1>4 DEF Answers
  <1> QED BY <1>3, <1>4

LEMMA AnswersUpload ==
  ASSUME NEW c, NEW in \in Inputs, NEW r, Answers(c, in, r)
  PROVE  Answers(c, in, [r EXCEPT !.uploaded = TRUE])
  <1> DEFINE q == [r EXCEPT !.uploaded = TRUE]
  <1>1. q \in Chats /\ q.msg = r.msg /\ q.row = r.row
    BY DEF Answers, Chats
  <1> HIDE DEF q
  <1>2. Answers(c, in, q)
    BY <1>1 DEF Answers
  <1> QED BY <1>2 DEF q

LEMMA StateWordings ==
  \A state \in States : state \in Wordings /\ state \notin {"silence", "panic"}
  BY DEF Wordings, States

(* The registration steps.                                                 *)
LEMMA FirstNameAnswers ==
  ASSUME NEW c \in Chats, NEW in \in Inputs,
         c.row.state = "awaiting_first_name"
  PROVE  Answers(c, in, HandleFirstName(c, in))
  <1>1. c.row \in Rows
    BY DEF Chats
  <1>2. /\ Is(Ask("awaiting_last_name"), "awaiting_last_name", FALSE, <<>>)
        /\ Arrives(Ask("awaiting_last_name"))
        /\ Is(Plain("awaiting_first_name"), "awaiting_first_name", FALSE, <<>>)
        /\ Arrives(Plain("awaiting_first_name"))
    BY StateWordings, Asked, PlainAsked DEF States
  <1> DEFINE after == TakeFirstName(c.row)
  <1>3. after \in Rows /\ after.state = "awaiting_last_name"
    BY <1>1, RowSteps
  <1> HIDE DEF after
  <1>4. Asks(Ask("awaiting_last_name"), after)
    BY <1>2, <1>3, KeyboardsDiffer DEF Asks, Is
  <1>5. Answers(c, in, Save(c, after, Ask("awaiting_last_name")))
    BY <1>3, <1>4, AnswersSave
  <1>6. Asks(Plain("awaiting_first_name"), c.row)
    BY <1>2, KeyboardsDiffer DEF Asks, Is
  <1>7. Answers(c, in, Say(c, Plain("awaiting_first_name")))
    BY <1>6, AnswersSay
  <1>8. Answers(c, in, [Save(c, after, Ask("awaiting_last_name"))
                          EXCEPT !.said.first_name = in.words])
    BY <1>5, AnswersStore
  <1> QED BY <1>7, <1>8 DEF HandleFirstName, after

LEMMA LastNameAnswers ==
  ASSUME NEW c \in Chats, NEW in \in Inputs,
         c.row.state = "awaiting_last_name"
  PROVE  Answers(c, in, HandleLastName(c, in))
  <1>1. c.row \in Rows
    BY DEF Chats
  <1>2. /\ Is(Plain("awaiting_last_name"), "awaiting_last_name", FALSE, <<>>)
        /\ Arrives(Plain("awaiting_last_name"))
    BY StateWordings, PlainAsked DEF States
  <1> DEFINE after == TakeLastName(c.row)
  <1>3. after \in Rows /\ after.state = "awaiting_phone_number"
    BY <1>1, RowSteps
  <1> HIDE DEF after
  <1>4. Asks(AskPhone, after)
    BY <1>3, Questions, KeyboardsDiffer DEF Asks, Is
  <1>5. Answers(c, in, Save(c, after, AskPhone))
    BY <1>3, <1>4, AnswersSave
  <1>6. Asks(Plain("awaiting_last_name"), c.row)
    BY <1>2, KeyboardsDiffer DEF Asks, Is
  <1>7. Answers(c, in, Say(c, Plain("awaiting_last_name")))
    BY <1>6, AnswersSay
  <1> QED BY <1>5, <1>7 DEF HandleLastName, after

LEMMA PhoneNumberAnswers ==
  ASSUME NEW c \in Chats, NEW in \in Inputs,
         c.row.state = "awaiting_phone_number"
  PROVE  Answers(c, in, HandlePhoneNumber(c, in))
  <1>1. c.row \in Rows
    BY DEF Chats
  <1> DEFINE m == WithRemoveKeyboard(Ask("awaiting_gov_id"))
  <1> DEFINE s == WithRemoveKeyboard(Plain("support"))
  <1>2. Is(m, "awaiting_gov_id", TRUE, <<>>) /\ Arrives(m)
    <2>1. /\ Is(Ask("awaiting_gov_id"), "awaiting_gov_id", FALSE, <<>>)
          /\ Arrives(Ask("awaiting_gov_id"))
      BY StateWordings, Asked DEF States
    <2> QED BY <2>1, Removing DEF Is
  <1>3. Is(s, "support", TRUE, <<>>) /\ Arrives(s)
    <2>1. Is(Plain("support"), "support", FALSE, <<>>) /\ Arrives(Plain("support"))
      BY Wording, PlainAsked
    <2> QED BY <2>1, Removing DEF Is
  <1> HIDE DEF m, s
  <1> DEFINE after == TakePhoneNumber(c.row)
  <1>4. Answers(c, in, Save(c, after, m))
    <2>1. after \in Rows /\ after.state = "awaiting_gov_id"
      BY <1>1, RowSteps
    <2> HIDE DEF after
    <2>2. Asks(m, after)
      BY <1>2, <2>1, KeyboardsDiffer DEF Asks, Is
    <2> QED BY <2>1, <2>2, AnswersSave
  <1>5. Answers(c, in, Say(c, s))
    <2>1. /\ Say(c, s) \in Chats /\ Say(c, s).msg = s /\ Say(c, s).row = c.row
      BY <1>3, Saying DEF Is
    <2> QED BY <1>3, <2>1, KeyboardsDiffer DEF Answers, Question, Is
  <1>6. Answers(c, in, Say(c, AskPhone))
    <2>1. Asks(AskPhone, c.row)
      BY Questions, KeyboardsDiffer DEF Asks, Is
    <2> QED BY <2>1, AnswersSay
  <1> QED BY <1>4, <1>5, <1>6 DEF HandlePhoneNumber, m, s

(* A message with the country buttons.                                     *)
LEMMA AnswersCountries ==
  ASSUME NEW c \in Chats, NEW in \in Inputs, NEW m \in Msgs, NEW r \in Chats,
         m.asks = "awaiting_location", Arrives(m) \/ Special(c, in),
         r.msg = WithReplyButtons(m), r.row.state = "awaiting_location"
  PROVE  Answers(c, in, r)
  <1>1. CountryButtons \in Markups
    BY DEF Markups
  <1>2. /\ Is(r.msg, "awaiting_location", FALSE, CountryButtons)
        /\ Arrives(r.msg) \/ Special(c, in)
    BY <1>1, Offering DEF WithReplyButtons
  <1> QED BY <1>2, KeyboardsDiffer DEF Answers, Question, Is, Unsent

LEMMA GovIDAnswers ==
  ASSUME NEW c \in Chats, NEW in \in Inputs,
         c.row.state = "awaiting_gov_id"
  PROVE  Answers(c, in, HandleGovID(c, in))
  <1>1. c.row \in Rows
    BY DEF Chats
  <1> DEFINE q == Quote("awaiting_location", c)
  <1> DEFINE m == WithReplyButtons(q)
  <1> DEFINE after == TakeGovID(c.row)
  <1>2. "awaiting_location" \in Wordings
    BY StateWordings DEF States
  <1>a. after \in Rows /\ after.state = "awaiting_location"
    BY <1>1, RowSteps
  <1> HIDE DEF after
  <1>3. Answers(c, in, Save(c, after, m))
    <2>1. CASE "first_name" \in c.row.filled
      <3>1. /\ Is(q, "awaiting_location", FALSE, <<>>)
            /\ Arrives(q) \/ Special(c, in)
        BY <1>2, <2>1, Quoted
      <3> HIDE DEF q
      <3>2. m \in Msgs
        BY <3>1, Offering DEF WithReplyButtons, Is, Markups
      <3> DEFINE r == Save(c, after, m)
      <3>3. /\ r \in Chats /\ r.msg = WithReplyButtons(q)
            /\ r.row.state = "awaiting_location"
        BY <1>a, <3>2, Saving
      <3> HIDE DEF r
      <3>4. Answers(c, in, r)
        BY <3>1, <3>3, AnswersCountries DEF Is
      <3> QED BY <3>4 DEF r
    <2>2. CASE "first_name" \notin c.row.filled
      <3>1. q = Panic
        BY <1>2, <2>2, Quoted
      <3>2. Is(m, "panic", FALSE, CountryButtons)
        <4>1. Panic \in Msgs /\ Panic.asks = "panic" /\ CountryButtons \in Markups
          BY Questions DEF Is, Markups
        <4>2. Is(WithMarkup(Panic, CountryButtons), "panic", FALSE, CountryButtons)
          BY <4>1, Offering
        <4> QED BY <3>1, <4>2 DEF WithReplyButtons
      <3> HIDE DEF m
      <3>3. /\ Save(c, after, m) \in Chats
            /\ Save(c, after, m).msg = m
            /\ Save(c, after, m).row = after
        BY <1>a, <3>2, Saving DEF Is
      <3> QED BY <1>a, <3>2, <3>3, KeyboardsDiffer DEF Answers, Is, Unsent
    <2> QED BY <2>1, <2>2
  <1>4. /\ Is(Ask("awaiting_gov_id"), "awaiting_gov_id", FALSE, <<>>)
        /\ Arrives(Ask("awaiting_gov_id"))
        /\ Is(Plain("awaiting_gov_id"), "awaiting_gov_id", FALSE, <<>>)
        /\ Arrives(Plain("awaiting_gov_id"))
    BY StateWordings, Asked, PlainAsked DEF States
  <1>5. /\ Answers(c, in, Say(c, Plain("awaiting_gov_id")))
        /\ Answers(c, in, Say(c, Ask("awaiting_gov_id")))
    <2>1. Asks(Plain("awaiting_gov_id"), c.row) /\ Asks(Ask("awaiting_gov_id"), c.row)
      BY <1>4, KeyboardsDiffer DEF Asks, Is
    <2> QED BY <2>1, AnswersSay
  <1> HIDE DEF m
  <1>6. Answers(c, in, [Save(c, after, m)
                          EXCEPT !.said.government_id = in.words])
    BY <1>3, AnswersStore
  <1>7. CASE in.kind \in GovIDs
    BY <1>6, <1>7 DEF HandleGovID, m, after, GovIDs, Contacts
  <1>8. CASE in.kind \notin GovIDs
    BY <1>5, <1>8 DEF HandleGovID
  <1> QED BY <1>7, <1>8

LEMMA LocationAnswers ==
  ASSUME NEW c \in Chats, NEW in \in Inputs,
         c.row.state = "awaiting_location"
  PROVE  Answers(c, in, HandleLocation(c, in))
  <1>1. c.row \in Rows
    BY DEF Chats
  <1> DEFINE m == WithRemoveKeyboard(AskDoc)
  <1> DEFINE t == InTicks(in.words) \o Prompt
  <1> DEFINE q == NewBuilder("awaiting_location", t)
  <1>2. Is(m, "awaiting_identity_doc", TRUE, <<>>) /\ Arrives(m)
    BY Questions, Removing DEF Is
  <1> HIDE DEF m
  <1> DEFINE after == TakeLocation(c.row)
  <1>3. Answers(c, in, Save(c, after, m))
    <2>1. after \in Rows /\ after.state = "awaiting_identity_doc"
      BY <1>1, RowSteps
    <2> HIDE DEF after
    <2>2. Asks(m, after)
      BY <1>2, <2>1, KeyboardsDiffer DEF Asks, Is
    <2> QED BY <1>2, <2>1, <2>2, AnswersSave DEF Is
  <1>4. /\ Is(q, "awaiting_location", FALSE, <<>>)
        /\ Arrives(q) \/ Special(c, in)
    <2>1. in.words \in Seq(Chars)
      BY InputType, SpelledType
    <2>2. t \in Seq(Chars)
      BY <2>1, TextTypes
    <2>3. "awaiting_location" \in Wordings
      BY StateWordings DEF States
    <2>4. ASSUME ~Special(c, in)
          PROVE  Accepts(t)
      BY <2>4, NotSpecial, QuoteAccepted
    <2> HIDE DEF t
    <2> QED BY <2>2, <2>3, <2>4, Built
  <1> HIDE DEF q
  <1>5. Answers(c, in, Say(c, WithReplyButtons(q)))
    <2>1. WithReplyButtons(q) \in Msgs
      BY <1>4, Offering DEF WithReplyButtons, Is, Markups
    <2>2. /\ Say(c, WithReplyButtons(q)) \in Chats
          /\ Say(c, WithReplyButtons(q)).msg = WithReplyButtons(q)
          /\ Say(c, WithReplyButtons(q)).row = c.row
      BY <2>1, Saying
    <2> QED BY <1>4, <2>2, AnswersCountries DEF Is
  <1> QED BY <1>3, <1>5 DEF HandleLocation, m, q

LEMMA IdentityDocAnswers ==
  ASSUME NEW c \in Chats, NEW in \in Inputs,
         c.row.state = "awaiting_identity_doc"
  PROVE  Answers(c, in, HandleIdentityDoc(c, in))
  <1>1. c.row \in Rows
    BY DEF Chats
  <1> DEFINE m == NewBuilder("awaiting_identity_doc", BarePrompt)
  <1>2. Is(m, "awaiting_identity_doc", FALSE, <<>>)
    BY StateWordings, TextTypes, Built DEF States
  <1> HIDE DEF m
  <1> DEFINE after == TakeIdentityDoc(c.row, 1)
  <1> DEFINE s == Save(c, after, AskPolicy)
  <1>3. Answers(c, in, [s EXCEPT !.uploaded = TRUE])
    <2>1. after \in Rows /\ after.state = "awaiting_policy_approval"
      BY <1>1, RowSteps
    <2> HIDE DEF after
    <2>2. Asks(AskPolicy, after)
      BY <2>1, Questions, KeyboardsDiffer DEF Asks, Is
    <2>3. Answers(c, in, s)
      BY <2>1, <2>2, AnswersSave
    <2> HIDE DEF s
    <2> QED BY <2>3, AnswersUpload
  <1>4. Answers(c, in, Say(c, m))
    <2>1. /\ Say(c, m) \in Chats /\ Say(c, m).msg = m /\ Say(c, m).row = c.row
      BY <1>2, Saying DEF Is
    <2> QED BY <1>2, <2>1, KeyboardsDiffer DEF Answers, Question, Is
  <1> QED BY <1>3, <1>4 DEF HandleIdentityDoc, m

LEMMA RegisterAnswers ==
  ASSUME NEW c \in Chats, NEW in \in Inputs
  PROVE  Answers(c, in, Register(c, in))
  <1>1. c.row.state \in States
    BY DEF Chats, Rows
  <1>2. CASE c.row.state = "awaiting_policy_approval"
    <2>1. Answers(c, in, Say(c, AskPolicy))
      <3>1. Asks(AskPolicy, c.row)
        BY <1>2, Questions, KeyboardsDiffer DEF Asks, Is
      <3> QED BY <3>1, AnswersSay
    <2> QED BY <1>2, <2>1 DEF Register, HandlePolicyApproval
  <1>3. CASE c.row.state = "none"
    <2>1. /\ Say(c, Silence) \in Chats /\ Say(c, Silence).msg = Silence
          /\ Say(c, Silence).row = c.row
      BY Questions, Saying DEF Is
    <2>2. Answers(c, in, Say(c, Silence))
      BY <1>3, <2>1, Questions, KeyboardsDiffer DEF Answers, Is, Unsent
    <2> QED BY <1>3, <2>2 DEF Register
  <1> QED BY <1>1, <1>2, <1>3, FirstNameAnswers, LastNameAnswers,
             PhoneNumberAnswers, GovIDAnswers, LocationAnswers,
             IdentityDocAnswers DEF Register, States

(* /start: the question again, or a welcome.                               *)
LEMMA AskAgain ==
  ASSUME NEW after \in Rows,
         after.state \notin {"awaiting_location", "awaiting_phone_number",
                           "awaiting_policy_approval"}
  PROVE  Asks(WithRemoveKeyboard(Ask(after.state)), after)
  <1>1. Is(Ask(after.state), after.state, FALSE, <<>>) /\ Arrives(Ask(after.state))
    BY StateWordings, Asked DEF Rows
  <1>2. /\ Is(WithRemoveKeyboard(Ask(after.state)), after.state, TRUE, <<>>)
        /\ Arrives(WithRemoveKeyboard(Ask(after.state)))
    BY <1>1, Removing DEF Is
  <1> QED BY <1>2, KeyboardsDiffer DEF Asks, Is

(* A message about something else that takes the keyboard away.            *)
LEMMA AnswersElse ==
  ASSUME NEW c \in Chats, NEW in \in Inputs, NEW m,
         Is(m, m.asks, TRUE, <<>>),
         Unsent(m) \/ Arrives(m) \/ (m.asks = "wait" /\ Special(c, in)),
         \/ Unsent(m)
         \/ c.row.state = "none"
         \/ m.asks \in {"support", "decide"}
         \/ c.row.status = "level_1" /\ m.asks = "wait"
  PROVE  Answers(c, in, Say(c, m))
  <1>1. m \in Msgs
    BY DEF Is
  <1>2. /\ Say(c, m) \in Chats /\ Say(c, m).msg = m /\ Say(c, m).row = c.row
    BY <1>1, Saying
  <1> QED BY <1>2, KeyboardsDiffer DEF Answers, Question, Is

LEMMA Welcome ==
  ASSUME NEW c \in Chats, NEW in \in Inputs
  PROVE  LET m == WithRemoveKeyboard(Quote("wait", c))
         IN  /\ Is(m, m.asks, TRUE, <<>>)
             /\ Unsent(m) \/ m.asks = "wait"
             /\ Unsent(m) \/ Arrives(m) \/ (m.asks = "wait" /\ Special(c, in))
  <1> DEFINE q == Quote("wait", c)
  <1>1. CASE "first_name" \in c.row.filled
    <2>1. Is(q, "wait", FALSE, <<>>) /\ (Arrives(q) \/ Special(c, in))
      BY <1>1, Wording, Quoted
    <2> HIDE DEF q
    <2>2. /\ Is(WithRemoveKeyboard(q), "wait", TRUE, <<>>)
          /\ Arrives(WithRemoveKeyboard(q)) \/ Special(c, in)
      BY <2>1, Removing DEF Is
    <2> QED BY <2>2 DEF Is, q
  <1>2. CASE "first_name" \notin c.row.filled
    <2>1. q = Panic
      BY <1>2, Wording, Quoted
    <2>2. Is(WithRemoveKeyboard(Panic), "panic", TRUE, <<>>)
      BY Questions, Removing DEF Is
    <2> QED BY <2>1, <2>2 DEF Is, Unsent
  <1> QED BY <1>1, <1>2

LEMMA PendingAnswers ==
  ASSUME NEW c \in Chats, NEW in \in Inputs
  PROVE  Answers(c, in, Say(c, Pending(c)))
  <1>1. c.row \in Rows /\ c.row.state \in States
    BY DEF Chats, Rows
  <1>2. CASE c.row.state = "awaiting_phone_number"
    <2>1. Asks(AskPhone, c.row)
      BY <1>2, Questions, KeyboardsDiffer DEF Asks, Is
    <2>2. Answers(c, in, Say(c, AskPhone))
      BY <2>1, AnswersSay
    <2> QED BY <1>2, <2>2 DEF Pending
  <1>3. CASE c.row.state = "awaiting_location"
    <2> DEFINE q == Ask("awaiting_location")
    <2>1. Is(q, "awaiting_location", FALSE, <<>>) /\ Arrives(q)
      BY StateWordings, Asked DEF States
    <2> HIDE DEF q
    <2>2. WithReplyButtons(q) \in Msgs
      BY <2>1, Offering DEF WithReplyButtons, Is, Markups
    <2> DEFINE r == Say(c, WithReplyButtons(q))
    <2>3. /\ r \in Chats /\ r.msg = WithReplyButtons(q) /\ r.row = c.row
      BY <2>2, Saying
    <2> HIDE DEF r
    <2>4. Answers(c, in, r)
      BY <1>3, <2>1, <2>3, AnswersCountries DEF Is
    <2> QED BY <1>3, <2>4 DEF Pending, q, r
  <1>4. CASE c.row.state = "awaiting_policy_approval"
    <2> DEFINE m == WithRemoveKeyboard(Ask("decide"))
    <2>1. Is(Ask("decide"), "decide", FALSE, <<>>) /\ Arrives(Ask("decide"))
      BY Wording, Asked
    <2>2. Is(m, "decide", TRUE, <<>>) /\ Arrives(m)
      BY <2>1, Removing DEF Is
    <2> HIDE DEF m
    <2>3. Answers(c, in, Say(c, m))
      BY <2>2, AnswersElse DEF Is
    <2> QED BY <1>4, <2>3 DEF Pending, m
  <1>5. CASE c.row.state = "none"
    <2> DEFINE m == WithRemoveKeyboard(Ask("wait"))
    <2> DEFINE w == WithRemoveKeyboard(Quote("wait", c))
    <2>1. Is(Ask("wait"), "wait", FALSE, <<>>) /\ Arrives(Ask("wait"))
      BY Wording, Asked
    <2>2. Is(m, "wait", TRUE, <<>>) /\ Arrives(m)
      BY <2>1, Removing DEF Is
    <2>3. /\ Is(w, w.asks, TRUE, <<>>)
          /\ Unsent(w) \/ Arrives(w) \/ (w.asks = "wait" /\ Special(c, in))
      BY Welcome, Zenon
    <2>4. Pending(c) = m \/ Pending(c) = w
      BY <1>5 DEF Pending
    <2> HIDE DEF m, w
    <2>5. Answers(c, in, Say(c, m))
      BY <1>5, <2>2, AnswersElse DEF Is
    <2>6. Answers(c, in, Say(c, w))
      BY <1>5, <2>3, AnswersElse
    <2> QED BY <2>4, <2>5, <2>6, Zenon
  <1>6. CASE c.row.state \in {"awaiting_first_name", "awaiting_last_name",
                             "awaiting_gov_id", "awaiting_identity_doc"}
    <2>1. Asks(WithRemoveKeyboard(Ask(c.row.state)), c.row)
      BY <1>1, <1>6, AskAgain
    <2>2. Answers(c, in, Say(c, WithRemoveKeyboard(Ask(c.row.state))))
      BY <2>1, AnswersSay
    <2> QED BY <1>6, <2>2 DEF Pending
  <1> QED BY <1>1, <1>2, <1>3, <1>4, <1>5, <1>6 DEF States

LEMMA StartAnswers ==
  ASSUME NEW c \in Chats, NEW in \in Inputs
  PROVE  Answers(c, in, Start(c))
  <1>1. c.row \in Rows /\ c.row.status \in Statuses
    BY DEF Chats, Rows
  <1>2. CASE c.row.status = "pending"
    BY <1>2, PendingAnswers DEF Start
  <1>3. CASE c.row.status = "rejected"
    <2> DEFINE after == RestartRegistration(c.row)
    <2> DEFINE m == WithRemoveKeyboard(Ask("awaiting_first_name"))
    <2>1. after \in Rows /\ after.state = "awaiting_first_name"
      BY <1>1, RowSteps
    <2> HIDE DEF after
    <2>2. Asks(m, after)
      BY <2>1, AskAgain
    <2>3. m.remove = TRUE
      BY DEF WithRemoveKeyboard, Ask, NewBuilder
    <2> HIDE DEF m
    <2>4. Answers(c, in, Save(c, after, m))
      BY <2>1, <2>2, <2>3, AnswersSave
    <2> QED BY <1>3, <2>4 DEF Start, after, m
  <1>4. CASE c.row.status = "level_1"
    <2> DEFINE w == WithRemoveKeyboard(Quote("wait", c))
    <2>1. /\ Is(w, w.asks, TRUE, <<>>)
          /\ Unsent(w) \/ w.asks = "wait"
          /\ Unsent(w) \/ Arrives(w) \/ (w.asks = "wait" /\ Special(c, in))
      BY Welcome, Zenon
    <2>2. Start(c) = Say(c, w)
      BY <1>4 DEF Start
    <2> HIDE DEF w
    <2>3. Answers(c, in, Say(c, w))
      BY <1>4, <2>1, AnswersElse
    <2> QED BY <2>2, <2>3, Zenon
  <1> QED BY <1>1, <1>2, <1>3, <1>4 DEF Statuses

(* The policy buttons, in whatever state they are pressed.                 *)
LEMMA AcceptAnswers ==
  ASSUME NEW c \in Chats, NEW in \in Inputs, in.kind \in Taps
  PROVE  Answers(c, in, Accept(c))
  <1> DEFINE q == Quote("wait", c)
  <1> DEFINE after == CompleteRegistration(c.row)
  <1>1. after \in Rows /\ after.state = "none"
    BY RowSteps DEF Chats
  <1>2. /\ q \in Msgs /\ q.markup = <<>>
        /\ Unsent(q) \/ Arrives(q) \/ (q.asks = "wait" /\ Special(c, in))
    <2>1. CASE "first_name" \in c.row.filled
      <3>1. Is(q, "wait", FALSE, <<>>) /\ (Arrives(q) \/ Special(c, in))
        BY <2>1, Wording, Quoted
      <3> QED BY <3>1 DEF Is
    <2>2. CASE "first_name" \notin c.row.filled
      <3>1. q = Panic
        BY <2>2, Wording, Quoted
      <3> QED BY <3>1, Questions DEF Is, Unsent
    <2> QED BY <2>1, <2>2
  <1> HIDE DEF after, q
  <1>3. /\ Save(c, after, q) \in Chats /\ Save(c, after, q).msg = q
        /\ Save(c, after, q).row = after
    BY <1>1, <1>2, Saving
  <1>4. Answers(c, in, Save(c, after, q))
    BY <1>1, <1>2, <1>3, KeyboardsDiffer DEF Answers
  <1> QED BY <1>4 DEF Accept, after, q

LEMMA DeclineAnswers ==
  ASSUME NEW c \in Chats, NEW in \in Inputs, in.kind \in Taps
  PROVE  Answers(c, in, Decline(c))
  <1> DEFINE after == DeclinePolicy(c.row)
  <1> DEFINE m == Ask("awaiting_first_name")
  <1>1. after \in Rows /\ after.state = "awaiting_first_name"
    BY RowSteps DEF Chats
  <1>2. Is(m, "awaiting_first_name", FALSE, <<>>) /\ Arrives(m)
    BY StateWordings, Asked DEF States
  <1> HIDE DEF after, m
  <1>3. Asks(m, after)
    BY <1>1, <1>2, KeyboardsDiffer DEF Asks, Is
  <1>4. Answers(c, in, Save(c, after, m))
    BY <1>1, <1>3, AnswersSave
  <1> QED BY <1>4 DEF Decline, after, m

LEMMA RespondAnswers ==
  ASSUME NEW c \in Chats, NEW in \in Inputs
  PROVE  Answers(c, in, Respond(c, in))
  <1>1. CASE in.kind = "start"
    BY <1>1, StartAnswers DEF Respond
  <1>2. CASE in.kind = "policy_accept"
    BY <1>2, AcceptAnswers DEF Respond, Taps
  <1>3. CASE in.kind = "policy_decline"
    BY <1>3, DeclineAnswers DEF Respond, Taps
  <1>4. CASE in.kind \notin {"start", "policy_accept", "policy_decline"}
    BY <1>4, RegisterAnswers DEF Respond
  <1> QED BY <1>1, <1>2, <1>3, <1>4

(* A handler that is cut short answers too: wherever it stopped, the row   *)
(* is one of the table, and the error arrives.                             *)
LEMMA ErrorAnswers ==
  ASSUME NEW c \in Chats, NEW in \in Inputs, NEW got \in Chats
  PROVE  Answers(c, in, [got EXCEPT !.msg = Error])
  <1> DEFINE q == [got EXCEPT !.msg = Error]
  <1>1. Is(Error, "error", FALSE, <<>>) /\ Arrives(Error)
    BY Questions
  <1>2. q \in Chats /\ q.msg = Error
    BY <1>1 DEF Chats, Is
  <1> HIDE DEF q
  <1>3. Answers(c, in, q)
    BY <1>1, <1>2, KeyboardsDiffer DEF Answers, Question, Is
  <1> QED BY <1>3 DEF q

LEMMA CutShortAnswers ==
  ASSUME NEW c \in Chats, NEW in \in Inputs, NEW r, Answers(c, in, r),
         NEW q \in {r} \cup CutShort(c, r)
  PROVE  Answers(c, in, q)
  <1>1. r \in Chats
    BY DEF Answers
  <1> DEFINE u == [c EXCEPT !.uploaded = r.uploaded]
  <1>2. u \in Chats
    BY <1>1 DEF Chats
  <1> HIDE DEF u
  <1>3. ASSUME q \in CutShort(c, r)
        PROVE  Answers(c, in, q)
    <2>1. PICK got \in {c, u, r} : q = [got EXCEPT !.msg = Error]
      BY <1>3 DEF CutShort, u
    <2>2. got \in Chats
      BY <1>1, <1>2, <2>1
    <2>3. Answers(c, in, [got EXCEPT !.msg = Error])
      BY <2>2, ErrorAnswers
    <2> QED BY <2>1, <2>3, Zenon
  <1> QED BY <1>3

-----------------------------------------------------------------------------
(* The inductive invariant: the exact shape of the state, and a country    *)
(* keyboard that has not outlived its question.                            *)
Causes == {"refused", "lost", "verdict", "policy", "error"}

Screens == [asks: Wordings, keyboard: {<<>>, ContactButton, CountryButtons},
            policies: Nat]

Shape ==
    /\ row \in Rows /\ said \in Saids
    /\ screen \in Screens /\ screen.policies <= MaxPolicies
    /\ sent \in [fate: Fates, asks: Wordings, special: BOOLEAN]
    /\ uploaded \in BOOLEAN
    /\ outlived \subseteq Causes

FreshButtons ==
    screen.keyboard = CountryButtons /\ outlived = {} =>
        row.state = "awaiting_location"

LEMMA ChatType ==
  ASSUME Shape
  PROVE  Chat \in Chats /\ Chat.row = row /\ Chat.said = said
  BY Questions DEF Chat, Chats, Shape, Is

LEMMA FateType ==
  \A fate \in Fates : /\ Fate(fate) \in [fate: Fates, asks: Wordings, special: BOOLEAN]
                     /\ Fate(fate).fate = fate
  BY Wording DEF Fate

(* What a message that arrives makes of the screen.                        *)
LEMMA Showing ==
  ASSUME NEW scr \in Screens, NEW m \in Msgs, m.asks \in Wordings
  PROVE  /\ Show(scr, m) \in Screens /\ Show(scr, m).asks = m.asks
         /\ m.remove => Show(scr, m).keyboard = <<>>
         /\ ~m.remove /\ m.markup \in {<<>>, PolicyButtons} =>
               Show(scr, m).keyboard = scr.keyboard
         /\ ~m.remove /\ m.markup \notin {<<>>, PolicyButtons} =>
               Show(scr, m).keyboard = m.markup
         /\ m.markup = PolicyButtons => Show(scr, m).policies = scr.policies + 1
         /\ m.markup # PolicyButtons => Show(scr, m).policies = scr.policies
  <1>1. /\ scr.keyboard \in {<<>>, ContactButton, CountryButtons}
        /\ scr.policies \in Nat
        /\ m.markup \in {<<>>, ContactButton, PolicyButtons, CountryButtons}
        /\ m.remove \in BOOLEAN
    BY DEF Screens, Msgs, Markups
  <1> DEFINE k == IF m.remove THEN <<>>
                  ELSE IF m.markup \in {<<>>, PolicyButtons} THEN scr.keyboard
                  ELSE m.markup
  <1> DEFINE p == IF m.markup = PolicyButtons THEN scr.policies + 1 ELSE scr.policies
  <1>2. k \in {<<>>, ContactButton, CountryButtons} /\ p \in Nat
    BY <1>1
  <1>3. Show(scr, m) = [asks |-> m.asks, keyboard |-> k, policies |-> p]
    <2>1. Show(scr, m) =
            [scr EXCEPT !.asks = m.asks, !.keyboard = k, !.policies = p]
      BY Zenon DEF Show
    <2>2. scr \in Screens
      OBVIOUS
    <2> HIDE DEF k, p
    <2> QED BY <2>1, <2>2 DEF Screens
  <1>4. [asks |-> m.asks, keyboard |-> k, policies |-> p] \in Screens
    BY <1>2 DEF Screens
  <1> QED BY <1>3, <1>4

LEMMA ShowServes ==
  ASSUME NEW scr \in Screens, NEW m \in Msgs, m.asks \in Wordings,
         NEW after \in Rows, Question(m, after)
  PROVE  \/ Serves(Show(scr, m), after.state)
         \/ Show(scr, m).asks \in {"support", "decide", "error"}
         \/ after.status = "level_1" /\ Show(scr, m).asks = "wait"
  <1>1. CASE m.asks # after.state
    BY <1>1, Showing DEF Question
  <1>2. CASE m.asks = after.state
    <2>1. m.asks \notin {"support", "decide", "wait", "error"}
      BY <1>2 DEF Rows, States
    <2>2. /\ after.state = "awaiting_phone_number" =>
                m.markup = ContactButton /\ ~m.remove
          /\ after.state = "awaiting_location" =>
                m.markup = CountryButtons /\ ~m.remove
          /\ after.state = "awaiting_policy_approval" => m.markup = PolicyButtons
      BY <2>1 DEF Question
    <2>3. /\ after.state = "awaiting_phone_number" =>
                Show(scr, m).keyboard = ContactButton
          /\ after.state = "awaiting_location" =>
                Show(scr, m).keyboard = CountryButtons
      BY <2>2, Showing, KeyboardsDiffer
    <2>4. after.state = "awaiting_policy_approval" => Show(scr, m).policies > 0
      <3>1. m.markup = PolicyButtons => Show(scr, m).policies = scr.policies + 1
        BY Showing
      <3>2. scr.policies \in Nat
        BY DEF Screens
      <3> QED BY <2>2, <3>1, <3>2
    <2>5. Show(scr, m).asks = after.state
      BY <1>2, Showing
    <2> QED BY <2>3, <2>4, <2>5, KeyboardsDiffer DEF Serves
  <1> QED BY <1>1, <1>2

Inv ==
    /\ Shape /\ FreshButtons
    /\ OnlyQuotesAreRefused /\ ScreenServesState

(* The step a handler takes once it is known how far it came.              *)
HandleDo(in, r) ==
    /\ in.kind \in Taps => screen.policies > 0
    /\ r.msg = AskPolicy => screen.policies < MaxPolicies
    /\ row' = r.row
    /\ said' = IF "first_name" \in r.row.filled THEN r.said ELSE Unsaid
    /\ uploaded' = r.uploaded
    /\ \E scr \in EditPolicy(in, r.msg) :
          IF Unsent(r.msg)
          THEN /\ screen' = scr
               /\ sent' = Fate("nothing")
               /\ Outlive(OldPolicy(in))
          ELSE Reply(scr, r.msg, Special(Chat, in),
                     OldPolicy(in) \cup FailedWrite(r))

LEMMA HandleStep ==
  ASSUME Shape, FreshButtons, NEW in \in Inputs, Handle(in)
  PROVE  Inv'
  <1> DEFINE done == Respond(Chat, in)
  <1>0. Chat \in Chats /\ Chat.row = row
    BY ChatType
  <1>a. Answers(Chat, in, done)
    BY <1>0, RespondAnswers
  <1>1. PICK r \in {done} \cup CutShort(Chat, done) : HandleDo(in, r)
    BY Zenon DEF Handle, HandleDo
  <1> HIDE DEF done
  <1>2. Answers(Chat, in, r)
    BY <1>0, <1>a, CutShortAnswers
  <1> DEFINE m == r.msg
  <1> DEFINE why == OldPolicy(in) \cup FailedWrite(r)
  <1>3. /\ in.kind \in Taps => screen.policies > 0
        /\ m = AskPolicy => screen.policies < MaxPolicies
        /\ row' = r.row
        /\ said' = IF "first_name" \in r.row.filled THEN r.said ELSE Unsaid
        /\ uploaded' = r.uploaded
    BY <1>1 DEF HandleDo
  <1>4. PICK scr \in EditPolicy(in, m) :
          IF Unsent(m)
          THEN /\ screen' = scr
               /\ sent' = Fate("nothing")
               /\ Outlive(OldPolicy(in))
          ELSE Reply(scr, m, Special(Chat, in), why)
    BY <1>1 DEF HandleDo
  <1>5. r \in Chats /\ m \in Msgs /\ r.row \in Rows /\ r.said \in Saids
        /\ r.uploaded \in BOOLEAN
    BY <1>2 DEF Answers, Chats
  <1>6. screen \in Screens /\ screen.policies <= MaxPolicies /\ screen.policies \in Nat
    BY DEF Shape, Screens
  <1>7. /\ scr \in Screens /\ scr.keyboard = screen.keyboard
        /\ scr.policies <= screen.policies /\ scr.policies \in Nat
    <2>1. \/ scr = screen
          \/ scr = [screen EXCEPT !.policies = @ - 1] /\ in.kind \in Taps
      BY Zenon DEF EditPolicy
    <2>2. CASE scr = screen
      BY <1>6, <2>2
    <2>3. CASE scr = [screen EXCEPT !.policies = @ - 1] /\ in.kind \in Taps
      BY <1>3, <1>6, <2>3 DEF Screens
    <2> QED BY <2>1, <2>2, <2>3
  <1>8. row' \in Rows /\ said' \in Saids /\ uploaded' \in BOOLEAN
    <2>1. Unsaid \in Saids
      BY DEF Unsaid, Saids, Spelled
    <2> QED BY <1>3, <1>5, <2>1
  <1>9. /\ OldPolicy(in) \subseteq Causes /\ outlived \subseteq Causes
        /\ why \subseteq Causes
    BY DEF OldPolicy, FailedWrite, Causes, Shape
  <1>10. \A causes : Outlive(causes) =>
           outlived' = IF screen'.keyboard # screen.keyboard \/ screen.keyboard = <<>>
                       THEN {} ELSE IF outlived = {} THEN causes ELSE outlived
    BY DEF Outlive
  <1>11. CASE Unsent(m)
    <2>1. screen' = scr /\ sent' = Fate("nothing") /\ Outlive(OldPolicy(in))
      BY <1>4, <1>11
    <2>2. Shape'
      <3>1. outlived' \subseteq Causes
        BY <1>9, <1>10, <2>1
      <3>2. sent' \in [fate: Fates, asks: Wordings, special: BOOLEAN]
        BY <2>1, FateType DEF Fates
      <3>3. screen' \in Screens /\ screen'.policies <= MaxPolicies
        BY <1>6, <1>7, <2>1, MaxPoliciesAssumption
      <3> QED BY <1>8, <3>1, <3>2, <3>3 DEF Shape
    <2>3. FreshButtons'
      <3> SUFFICES ASSUME screen'.keyboard = CountryButtons, outlived' = {}
                   PROVE  row'.state = "awaiting_location"
        BY DEF FreshButtons
      <3>1. screen.keyboard = CountryButtons /\ screen.keyboard # <<>>
        BY <1>7, <2>1, KeyboardsDiffer
      <3>2. outlived = {} /\ OldPolicy(in) = {}
        BY <1>7, <1>10, <2>1, <3>1
      <3>3. row.state = "awaiting_location"
        BY <3>1, <3>2 DEF FreshButtons
      <3>4. in.kind \notin Taps
        BY <3>2, <3>3 DEF OldPolicy
      <3>5. m # Error
        BY <1>11, Questions DEF Is, Unsent
      <3> QED BY <1>0, <1>2, <1>3, <1>11, <3>3, <3>4, <3>5 DEF Answers
    <2>4. sent'.fate = "nothing"
      BY <2>1, FateType DEF Fates
    <2> QED BY <2>2, <2>3, <2>4 DEF Inv, OnlyQuotesAreRefused, ScreenServesState
  <1>12. CASE ~Unsent(m)
    <2> DEFINE special == Special(Chat, in)
    <2>1. special \in BOOLEAN
      BY DEF Special
    <2>2. m.asks \in Wordings
      BY <1>5, <1>12 DEF Msgs, Unsent
    <2>3. Reply(scr, m, special, why)
      BY <1>4, <1>12
    <2>4. \/ Arrives(m)
          \/ m.asks = "awaiting_identity_doc"
          \/ m.asks \in {"awaiting_location", "wait"} /\ special
      BY <1>2, <1>12 DEF Answers
    <2> HIDE DEF special, why
    <2>5. CASE /\ Arrives(m) /\ screen' = Show(scr, m)
               /\ sent' = Fate("shown") /\ Outlive(why)
      <3>1. screen' \in Screens /\ screen'.policies <= MaxPolicies
        <4>1. m.markup = PolicyButtons => screen.policies < MaxPolicies
          BY <1>2, <1>3 DEF Answers
        <4>2. /\ Show(scr, m) \in Screens
              /\ m.markup = PolicyButtons => Show(scr, m).policies = scr.policies + 1
              /\ m.markup # PolicyButtons => Show(scr, m).policies = scr.policies
          BY <1>5, <1>7, <2>2, Showing
        <4> QED BY <1>6, <1>7, <2>5, <4>1, <4>2, MaxPoliciesAssumption
      <3>2. outlived' \subseteq Causes
        BY <1>9, <1>10, <2>5
      <3>3. /\ sent' \in [fate: Fates, asks: Wordings, special: BOOLEAN]
            /\ sent'.fate = "shown"
        BY <2>5, FateType DEF Fates
      <3>4. Shape'
        BY <1>8, <3>1, <3>2, <3>3 DEF Shape
      <3>5. FreshButtons'
        <4> SUFFICES ASSUME screen'.keyboard = CountryButtons, outlived' = {}
                     PROVE  row'.state = "awaiting_location"
          BY DEF FreshButtons
        <4>1. CASE ~m.remove /\ m.markup \notin {<<>>, PolicyButtons}
          <5>1. m.markup = CountryButtons
            BY <1>5, <1>7, <2>2, <2>5, <4>1, Showing
          <5> QED BY <1>2, <1>3, <5>1 DEF Answers
        <4>2. CASE m.remove
          <5>1. screen'.keyboard = <<>>
            BY <1>5, <1>7, <2>2, <2>5, <4>2, Showing
          <5> QED BY <5>1, KeyboardsDiffer
        <4>3. CASE ~m.remove /\ m.markup \in {<<>>, PolicyButtons}
          <5>1. screen'.keyboard = screen.keyboard
            BY <1>5, <1>7, <2>2, <2>5, <4>3, Showing
          <5>2. outlived = {} /\ why = {}
            BY <1>10, <2>5, <5>1, KeyboardsDiffer
          <5>3. row.state = "awaiting_location"
            BY <5>1, <5>2 DEF FreshButtons
          <5>4. in.kind \notin Taps
            BY <5>2, <5>3 DEF OldPolicy, why
          <5>5. CASE m = Error
            <6>1. r.row = row
              BY <5>2, <5>5 DEF FailedWrite, why
            <6> QED BY <1>3, <5>3, <6>1
          <5>6. CASE m # Error
            <6>1. m.remove \/ m.markup = CountryButtons
              BY <1>0, <1>2, <1>12, <5>3, <5>4, <5>6 DEF Answers
            <6> QED BY <4>3, <6>1, KeyboardsDiffer
          <5> QED BY <5>5, <5>6
        <4> QED BY <4>1, <4>2, <4>3
      <3>6. ScreenServesState'
        <4>1. row'.state = "none" \/ Question(m, row')
          BY <1>2, <1>3, <1>12 DEF Answers
        <4>2. \/ row'.state = "none"
              \/ Serves(screen', row'.state)
              \/ screen'.asks \in {"support", "decide", "error"}
              \/ row'.status = "level_1" /\ screen'.asks = "wait"
          BY <1>5, <1>7, <1>8, <2>2, <2>5, <4>1, ShowServes
        <4> QED BY <4>2 DEF ScreenServesState, Serves, ButtonsOn, Range
      <3> QED BY <3>3, <3>4, <3>5, <3>6 DEF Inv, OnlyQuotesAreRefused
    <2>6. CASE /\ screen' = scr
               /\ \/ /\ ~Arrives(m)
                     /\ sent' = [fate |-> "refused", asks |-> m.asks,
                                 special |-> special]
                     /\ Outlive(why \cup {"refused"})
                  \/ /\ sent' = Fate("nothing")
                     /\ Outlive(why \cup {"lost"})
      <3>1. screen' \in Screens /\ screen'.policies <= MaxPolicies
        BY <1>6, <1>7, <2>6, MaxPoliciesAssumption
      <3>2. outlived' \subseteq Causes
        <4>1. why \cup {"refused"} \subseteq Causes
          BY <1>9 DEF Causes
        <4>2. why \cup {"lost"} \subseteq Causes
          BY <1>9 DEF Causes
        <4>3. \A causes : causes \subseteq Causes /\ Outlive(causes) =>
                outlived' \subseteq Causes
          BY <1>9, <1>10
        <4>4. Outlive(why \cup {"refused"}) \/ Outlive(why \cup {"lost"})
          BY <2>6
        <4> QED BY <4>1, <4>2, <4>3, <4>4
      <3>3. /\ sent' \in [fate: Fates, asks: Wordings, special: BOOLEAN]
            /\ sent'.fate # "shown"
        BY <2>1, <2>2, <2>6, FateType DEF Fates
      <3>4. Shape'
        BY <1>8, <3>1, <3>2, <3>3 DEF Shape
      <3>5. FreshButtons'
        <4> SUFFICES ASSUME screen'.keyboard = CountryButtons, outlived' = {}
                     PROVE  FALSE
          BY DEF FreshButtons
        <4>1. screen'.keyboard = screen.keyboard /\ screen.keyboard # <<>>
          BY <1>7, <2>6, KeyboardsDiffer
        <4> QED BY <1>10, <2>6, <4>1
      <3>6. OnlyQuotesAreRefused'
        <4>1. sent' = Fate("nothing") => sent'.fate = "nothing"
          BY FateType DEF Fates
        <4> QED BY <2>4, <2>6, <4>1 DEF OnlyQuotesAreRefused
      <3> QED BY <3>3, <3>4, <3>5, <3>6 DEF Inv, ScreenServesState
    <2> QED BY <2>3, <2>5, <2>6 DEF Reply
  <1> QED BY <1>11, <1>12

-----------------------------------------------------------------------------
LEMMA VerdictStep ==
  ASSUME Shape, Verdict
  PROVE  Inv'
  <1>1. /\ row' \in Rows /\ said' \in Saids
        /\ screen' = screen /\ uploaded' = uploaded
        /\ sent' = Fate("nothing") /\ Outlive({"verdict"})
    <2>1. Unsaid \in Saids
      BY DEF Unsaid, Saids, Spelled
    <2>2. Approve(row) \in Rows /\ Reject(row) \in Rows
      BY RowSteps DEF Shape
    <2> QED BY <2>1, <2>2 DEF Verdict, Shape
  <1>2. /\ sent' \in [fate: Fates, asks: Wordings, special: BOOLEAN]
        /\ sent'.fate = "nothing"
    BY <1>1, FateType DEF Fates
  <1>3. outlived' = IF screen.keyboard = <<>> THEN {}
                    ELSE IF outlived = {} THEN {"verdict"} ELSE outlived
    BY <1>1 DEF Outlive
  <1>4. Shape'
    <2>1. outlived' \subseteq Causes
      BY <1>3 DEF Shape, Causes
    <2> QED BY <1>1, <1>2, <2>1 DEF Shape
  <1>5. FreshButtons'
    BY <1>1, <1>3, KeyboardsDiffer DEF FreshButtons
  <1> QED BY <1>2, <1>4, <1>5 DEF Inv, OnlyQuotesAreRefused, ScreenServesState

LEMMA InitInv == Init => Inv
  <1> SUFFICES ASSUME Init PROVE Inv
    OBVIOUS
  <1>1. /\ sent \in [fate: Fates, asks: Wordings, special: BOOLEAN]
        /\ sent.fate = "shown"
    BY FateType DEF Init, Fates
  <1>2. Unsaid \in Saids
    BY DEF Unsaid, Saids, Spelled
  <1>3. row \in Rows /\ row.state = "awaiting_first_name"
    BY DEF Init, NewUser, Rows, Statuses, States, Fields
  <1>4. screen \in Screens /\ screen.policies <= MaxPolicies
    BY MaxPoliciesAssumption, StateWordings DEF Init, Screens, States
  <1>5. Shape
    BY <1>1, <1>2, <1>3, <1>4 DEF Shape, Init
  <1>6. FreshButtons
    BY KeyboardsDiffer DEF Init, FreshButtons
  <1>7. Serves(screen, row.state)
    BY <1>3 DEF Init, Serves
  <1> QED BY <1>1, <1>5, <1>6, <1>7
          DEF Inv, OnlyQuotesAreRefused, ScreenServesState

(* The inductive invariant: the shape of the state, the two properties it  *)
(* shares with the runs, and that a country keyboard which nothing has     *)
(* outlived stands with the question for the country.                      *)
THEOREM InvHolds == Spec => []Inv
  <1>1. Init => Inv
    BY InitInv
  <1>2. Inv /\ [Next]_vars => Inv'
    <2> SUFFICES ASSUME Inv, [Next]_vars
                 PROVE  Inv'
      OBVIOUS
    <2>1. Shape /\ FreshButtons
      BY DEF Inv
    <2>2. CASE Verdict
      BY <2>1, <2>2, VerdictStep
    <2>3. ASSUME NEW in \in Inputs, Handle(in)
          PROVE  Inv'
      BY <2>1, <2>3, HandleStep
    <2>4. CASE UNCHANGED vars
      <3>1. /\ row' = row /\ said' = said /\ screen' = screen /\ sent' = sent
            /\ uploaded' = uploaded /\ outlived' = outlived
        BY <2>4 DEF vars
      <3>2. Shape' /\ FreshButtons'
        BY <2>1, <3>1 DEF Shape, FreshButtons
      <3>3. OnlyQuotesAreRefused'
        BY <3>1 DEF Inv, OnlyQuotesAreRefused
      <3>4. ScreenServesState'
        BY <3>1 DEF Inv, ScreenServesState, Serves, ButtonsOn, Range
      <3> QED BY <3>2, <3>3, <3>4 DEF Inv
    <2> QED BY <2>2, <2>3, <2>4 DEF Next
  <1> QED BY <1>1, <1>2, PTL DEF Spec

(* The conversation keeps its types: every row a handler saves is a row of *)
(* the table, and the screen has one of the three keyboards.               *)
THEOREM TypesHold == Spec => []TypeOK
  <1>1. Inv => TypeOK
    <2> SUFFICES ASSUME Shape PROVE TypeOK
      BY DEF Inv
    <2>1. \A f \in DOMAIN said : said[f] \in Spellings \cup {<<>>}
      <3>1. /\ DOMAIN said = {"first_name", "government_id"}
            /\ said.first_name \in Spelled /\ said.government_id \in Spelled
        BY DEF Shape, Saids
      <3> QED BY <3>1 DEF Spelled
    <2>2. screen.policies \in 0 .. MaxPolicies
      BY MaxPoliciesAssumption DEF Shape, Screens
    <2> QED BY <2>1, <2>2 DEF Shape, Screens, Causes, TypeOK
  <1> QED BY <1>1, InvHolds, PTL

(* Telegram refuses only a reply that quotes the user's own special        *)
(* characters, or the prompt for a photo, whatever the handlers are sent.  *)
THEOREM RefusalsQuoteTheUser == Spec => []OnlyQuotesAreRefused
  <1>1. Inv => OnlyQuotesAreRefused
    BY DEF Inv
  <1> QED BY <1>1, InvHolds, PTL

(* A reply that arrives asks for what the saved row awaits, with the       *)
(* buttons the answer needs, for any set of countries and whichever of the *)
(* calls before it failed: the error replies are one of the four kinds     *)
(* that ask for nothing.                                                   *)
THEOREM ScreensServe == Spec => []ScreenServesState
  <1>1. Inv => ScreenServesState
    BY DEF Inv
  <1> QED BY <1>1, InvHolds, PTL

(* A press of a country button is taken for another answer only when a     *)
(* reply was lost or refused, a write failed after it had taken effect, or *)
(* a moderator or an old policy message came between: HandleLocation       *)
(* itself leaves no button behind.                                         *)
THEOREM LateButtonsAreExplained == Spec => LateButtonsHaveACause
  <1>1. Inv =>
          [/\ screen.keyboard = CountryButtons
           /\ row.state # "awaiting_location"
           /\ row' # row
           /\ Handle(CountryPress)
           => outlived # {}]_vars
    BY DEF Inv, FreshButtons
  <1> QED BY <1>1, InvHolds, PTL DEF LateButtonsHaveACause

(* escapeMarkdown is right for names and IDs of any length without a       *)
(* backslash: the card of the reviewer shows them as they were written.    *)
THEOREM CardsShowTheWords == Spec => []CardShowsTheWords
  <1>1. Inv => CardShowsTheWords
    <2> SUFFICES ASSUME Shape, \A i \in DOMAIN Words : Words[i] # "backslash"
                 PROVE  /\ Accepts(ReviewCaption)
                        /\ Shown(ReviewCaption) =
                              <<"letter">> \o said.first_name \o <<"letter">>
                                  \o said.government_id
      BY Zenon DEF Inv, CardShowsTheWords
    <2> DEFINE f == said.first_name
    <2> DEFINE g == said.government_id
    <2> DEFINE C == Chars \ {"backslash"}
    <2>1. f \in Seq(Chars) /\ g \in Seq(Chars)
      BY SpelledType DEF Shape, Saids
    <2>2. \A i \in DOMAIN (f \o g) : (f \o g)[i] # "backslash"
      BY DEF Words
    <2> HIDE DEF f, g
    <2>3. /\ Len(f) \in Nat /\ Len(g) \in Nat
          /\ DOMAIN (f \o g) = 1..(Len(f) + Len(g))
          /\ \A i \in 1..(Len(f) + Len(g)) :
                (f \o g)[i] = IF i <= Len(f) THEN f[i] ELSE g[i - Len(f)]
      BY <2>1, ConcatProperties, LenProperties
    <2>4. ASSUME NEW i \in 1..Len(f)
          PROVE  f[i] \in C
      <3>1. i \in 1..(Len(f) + Len(g)) /\ i <= Len(f)
        BY <2>3
      <3> QED BY <2>1, <2>2, <2>3, <3>1
    <2>5. ASSUME NEW i \in 1..Len(g)
          PROVE  g[i] \in C
      <3>1. /\ i + Len(f) \in 1..(Len(f) + Len(g)) /\ ~(i + Len(f) <= Len(f))
            /\ (i + Len(f)) - Len(f) = i
        BY <2>3
      <3> QED BY <2>1, <2>2, <2>3, <3>1
    <2>6. f \in Seq(C) /\ g \in Seq(C)
      BY <2>1, <2>4, <2>5
    <2>7. Reads(ReviewCaption, "plain",
                <<"letter">> \o f \o <<"letter">> \o g)
      BY <2>6, CaptionShows, Zenon DEF ReviewCaption, f, g
    <2>8. Read(ReviewCaption) =
            [at |-> "plain", escaped |-> FALSE,
             shown |-> <<"letter">> \o f \o <<"letter">> \o g]
      BY <2>7, Zenon DEF Reads
    <2> DEFINE v == <<"letter">> \o f \o <<"letter">> \o g
    <2> HIDE DEF v
    <2>9. Read(ReviewCaption) =
            [at |-> "plain", escaped |-> FALSE, shown |-> v]
      BY <2>8, Zenon DEF v
    <2>10. Read(ReviewCaption).at = "plain" /\ Read(ReviewCaption).shown = v
      BY <2>9
    <2> QED BY <2>10, Zenon DEF Accepts, Shown, v, f, g
  <1> QED BY <1>1, InvHolds, PTL

-----------------------------------------------------------------------------
LEMMA AfterAnswer ==
  ASSUME NEW c, NEW scr, NEW in, NEW r \in Chats, Respond(c, in) = r
  PROVE  /\ After(c, scr, in).c \in Chats /\ After(c, scr, in).c.row = r.row
         /\ After(c, scr, in).screen =
               IF ~Unsent(r.msg) /\ Arrives(r.msg) THEN Show(scr, r.msg) ELSE scr
  <1>1. After(c, scr, in) =
          [c |-> [r EXCEPT !.msg = Silence],
           screen |-> IF ~Unsent(r.msg) /\ Arrives(r.msg)
                      THEN Show(scr, r.msg) ELSE scr]
    BY Zenon DEF After
  <1>2. Silence \in Msgs
    BY Questions DEF Is
  <1>3. [r EXCEPT !.msg = Silence] \in Chats /\ [r EXCEPT !.msg = Silence].row = r.row
    BY <1>2 DEF Chats
  <1> DEFINE q == [r EXCEPT !.msg = Silence]
  <1> DEFINE v == IF ~Unsent(r.msg) /\ Arrives(r.msg) THEN Show(scr, r.msg) ELSE scr
  <1>4. After(c, scr, in) = [c |-> q, screen |-> v]
    BY <1>1, Zenon
  <1>5. q \in Chats /\ q.row = r.row
    BY <1>3
  <1> HIDE DEF q, v
  <1>6. After(c, scr, in).c = q /\ After(c, scr, in).screen = v
    BY <1>4
  <1> QED BY <1>5, <1>6, Zenon DEF v

LEMMA AfterSaying ==
  ASSUME NEW c \in Chats, NEW scr, NEW in, NEW m \in Msgs,
         Respond(c, in) = Say(c, m)
  PROVE  /\ After(c, scr, in).c \in Chats /\ After(c, scr, in).c.row = c.row
         /\ After(c, scr, in).screen =
               IF ~Unsent(m) /\ Arrives(m) THEN Show(scr, m) ELSE scr
  <1>1. Say(c, m) \in Chats /\ Say(c, m).msg = m /\ Say(c, m).row = c.row
    BY Saying
  <1> QED BY <1>1, AfterAnswer

LEMMA AskingServes ==
  ASSUME NEW scr \in Screens, NEW m, NEW after \in Rows,
         after.state # "none", Asks(m, after)
  PROVE  /\ m \in Msgs /\ ~Unsent(m) /\ Arrives(m)
         /\ Show(scr, m) \in Screens /\ Show(scr, m).asks = after.state
         /\ Serves(Show(scr, m), after.state)
  <1>1. m \in Msgs /\ Arrives(m) /\ m.asks = after.state
    BY DEF Asks
  <1>2. m.asks \in States /\ m.asks \in Wordings /\ ~Unsent(m)
    BY <1>1, StateWordings DEF Rows, Unsent
  <1>3. Question(m, after)
    BY DEF Question, Asks
  <1>4. Show(scr, m) \in Screens /\ Show(scr, m).asks = m.asks
    BY <1>1, <1>2, Showing
  <1>5. m.asks \notin {"support", "decide", "wait", "error"}
    BY <1>2 DEF States
  <1>6. Serves(Show(scr, m), after.state)
    BY <1>1, <1>2, <1>3, <1>4, <1>5, ShowServes
  <1> QED BY <1>1, <1>2, <1>4, <1>6

(* /start asks for what the row awaits, with its buttons, but where the    *)
(* policy is awaited.                                                      *)
LEMMA Starting ==
  ASSUME NEW c \in Chats, NEW scr \in Screens,
         c.row.state # "none", c.row.status # "level_1"
  PROVE  LET first == After(c, scr, Restarting)
         IN  /\ first.c \in Chats /\ first.screen \in Screens
             /\ \/ Serves(first.screen, first.c.row.state)
                \/ first.c.row.state = "awaiting_policy_approval"
  <1> DEFINE first == After(c, scr, Restarting)
  <1> DEFINE r == Start(c)
  <1>1. c.row \in Rows /\ c.row.state \in States /\ c.row.status \in Statuses
    BY DEF Chats, Rows
  <1>2. Respond(c, Restarting) = r
    BY DEF Respond, Restarting
  <1>3. r \in Chats
    <2>1. Restarting \in Inputs
      BY DEF Restarting, Inputs
    <2> QED BY <2>1, StartAnswers DEF Answers
  <1> HIDE DEF r
  <1>4. /\ first.c \in Chats /\ first.c.row = r.row
        /\ first.screen =
              IF ~Unsent(r.msg) /\ Arrives(r.msg) THEN Show(scr, r.msg) ELSE scr
    BY <1>2, <1>3, AfterAnswer
  <1> HIDE DEF first
  <1>5. first.screen \in Screens
    <2>1. r.msg \in Msgs /\ (Unsent(r.msg) \/ r.msg.asks \in Wordings)
      BY <1>3 DEF Chats, Msgs, Unsent
    <2> QED BY <1>4, <2>1, Showing
  <1>6. ASSUME r.row \in Rows, r.row.state # "none", Asks(r.msg, r.row)
        PROVE  Serves(first.screen, first.c.row.state)
    <2>1. /\ ~Unsent(r.msg) /\ Arrives(r.msg)
          /\ Serves(Show(scr, r.msg), r.row.state)
      BY <1>6, AskingServes
    <2> QED BY <1>4, <2>1
  <1>7. CASE c.row.status = "pending"
    <2>1. r = Say(c, Pending(c))
      BY <1>7 DEF Start, r
    <2>2. r.row = c.row /\ r.msg = Pending(c)
      <3>1. r = [c EXCEPT !.msg = Pending(c)]
        BY <2>1 DEF Say
      <3> QED BY <3>1 DEF Chats
    <2>3. CASE c.row.state = "awaiting_phone_number"
      <3>1. Pending(c) = AskPhone
        BY <2>3 DEF Pending
      <3>2. Asks(AskPhone, c.row)
        BY <2>3, Questions, KeyboardsDiffer DEF Asks, Is
      <3> QED BY <1>1, <1>4, <1>5, <1>6, <2>2, <2>3, <3>1, <3>2 DEF first
    <2>4. CASE c.row.state = "awaiting_location"
      <3> DEFINE q == Ask("awaiting_location")
      <3> DEFINE m == WithReplyButtons(q)
      <3>1. Pending(c) = m
        BY <2>4 DEF Pending
      <3>2. Is(q, "awaiting_location", FALSE, <<>>) /\ Arrives(q)
        BY StateWordings, Asked DEF States
      <3> HIDE DEF q
      <3>3. Is(m, "awaiting_location", FALSE, CountryButtons) /\ Arrives(m)
        BY <3>2, Offering DEF WithReplyButtons, Is, Markups
      <3> HIDE DEF m
      <3>4. /\ Show(scr, m).asks = "awaiting_location"
            /\ Show(scr, m).keyboard = CountryButtons
        BY <3>3, StateWordings, Showing, KeyboardsDiffer DEF States, Is
      <3>5. first.screen = Show(scr, m) /\ first.c.row = c.row
        BY <1>4, <2>2, <3>1, <3>3 DEF Is, Unsent
      <3>6. Serves(first.screen, first.c.row.state)
        BY <2>4, <3>4, <3>5, KeyboardsDiffer DEF Serves
      <3> QED BY <1>4, <1>5, <3>6 DEF first
    <2>5. CASE c.row.state \in {"awaiting_first_name", "awaiting_last_name",
                               "awaiting_gov_id", "awaiting_identity_doc"}
      <3>1. Pending(c) = WithRemoveKeyboard(Ask(c.row.state))
        BY <2>5 DEF Pending
      <3>2. Asks(WithRemoveKeyboard(Ask(c.row.state)), c.row)
        BY <1>1, <2>5, AskAgain
      <3>3. c.row.state # "none"
        BY <2>5
      <3>4. Serves(first.screen, first.c.row.state)
        BY <1>1, <1>6, <2>2, <3>1, <3>2, <3>3
      <3> QED BY <1>4, <1>5, <3>4 DEF first
    <2>6. CASE c.row.state = "awaiting_policy_approval"
      BY <1>4, <1>5, <2>2, <2>6 DEF first
    <2> QED BY <1>1, <2>3, <2>4, <2>5, <2>6 DEF States
  <1>8. CASE c.row.status = "rejected"
    <2> DEFINE after == RestartRegistration(c.row)
    <2> DEFINE m == WithRemoveKeyboard(Ask("awaiting_first_name"))
    <2>1. r = Save(c, after, m)
      BY <1>8 DEF Start, r
    <2>2. after \in Rows /\ after.state = "awaiting_first_name"
      BY <1>1, RowSteps
    <2> HIDE DEF after
    <2>3. Asks(m, after)
      BY <2>2, AskAgain
    <2> HIDE DEF m
    <2>4. r.row = after /\ r.msg = m
      BY <2>1 DEF Save, Chats
    <2>5. Serves(first.screen, first.c.row.state)
      BY <1>6, <2>2, <2>3, <2>4
    <2> QED BY <1>4, <1>5, <2>5 DEF first
  <1> QED BY <1>1, <1>7, <1>8 DEF Statuses

(* Any message, while the policy is awaited.                               *)
LEMMA AskingPolicy ==
  ASSUME NEW c \in Chats, NEW scr \in Screens, NEW in \in Inputs,
         in.kind \in Messages, c.row.state = "awaiting_policy_approval"
  PROVE  LET then == After(c, scr, in)
         IN  Serves(then.screen, then.c.row.state)
  <1>1. c.row \in Rows
    BY DEF Chats
  <1>2. Respond(c, in) = Say(c, AskPolicy)
    BY DEF Respond, Register, HandlePolicyApproval, Messages, Texts, Contacts
  <1>3. Asks(AskPolicy, c.row)
    BY Questions, KeyboardsDiffer DEF Asks, Is
  <1>4. /\ AskPolicy \in Msgs /\ ~Unsent(AskPolicy) /\ Arrives(AskPolicy)
        /\ Serves(Show(scr, AskPolicy), c.row.state)
    BY <1>1, <1>3, AskingServes
  <1>5. /\ After(c, scr, in).c.row = c.row
        /\ After(c, scr, in).screen = Show(scr, AskPolicy)
    BY <1>2, <1>4, AfterSaying
  <1> QED BY <1>4, <1>5

(* From every state the dialogue can reach, /start brings back the         *)
(* question of the row's state with its buttons, or any message after it   *)
(* does, where the policy is awaited.                                      *)
THEOREM HelpIsNear == Spec => []HelpIsTwoMessagesAway
  <1>1. Inv => HelpIsTwoMessagesAway
    <2> SUFFICES ASSUME Shape, row.state # "none", row.status # "level_1"
                 PROVE  LET first == After(Chat, screen, Restarting) IN
                        \/ Serves(first.screen, first.c.row.state)
                        \/ /\ first.c.row.state = "awaiting_policy_approval"
                           /\ \A in \in Inputs : in.kind \in Messages =>
                                 LET then == After(first.c, first.screen, in)
                                 IN  Serves(then.screen, then.c.row.state)
      BY Zenon DEF Inv, HelpIsTwoMessagesAway
    <2> DEFINE first == After(Chat, screen, Restarting)
    <2>1. Chat \in Chats /\ Chat.row = row /\ screen \in Screens
      BY ChatType DEF Shape
    <2>2. /\ first.c \in Chats /\ first.screen \in Screens
          /\ \/ Serves(first.screen, first.c.row.state)
             \/ first.c.row.state = "awaiting_policy_approval"
      BY <2>1, Starting
    <2> HIDE DEF first
    <2>3. ASSUME first.c.row.state = "awaiting_policy_approval",
                 NEW in \in Inputs, in.kind \in Messages
          PROVE  LET then == After(first.c, first.screen, in)
                 IN  Serves(then.screen, then.c.row.state)
      BY <2>2, <2>3, AskingPolicy
    <2> QED BY <2>2, <2>3 DEF first
  <1> QED BY <1>1, InvHolds, PTL
=============================================================================
