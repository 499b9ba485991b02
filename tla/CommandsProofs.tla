---------------------------- MODULE CommandsProofs ----------------------------
(***************************************************************************)
(* Theorems about Commands as Download uses it, for any ids, users,        *)
(* durations, sizes, settings, modes and platforms: what the help          *)
(* describes, typed or filled into a form, is read as what it means; with  *)
(* a word too many it is refused or, on Discord, read without that word or *)
(* as a request for the status.                                            *)
(*                                                                         *)
(* The grammar is unambiguous because the heads of two forms differ and    *)
(* the number of words after a head is fixed by its form, up to one        *)
(* optional word; the lemmas say so one question at a time.                *)
(***************************************************************************)
EXTENDS Download, FiniteSetTheorems, SequenceTheorems, TLAPS

HeadWords == {"status", "cancel", "artifact", "delete", "retention", "set", "link-expiry",
              "link_expiry", "capacity", "access-mode", "access_mode", "whitelist", "list",
              "pending", "add", "remove", "setting", "reset"}
Actions == {"status", "cancel", "artifact_delete", "retention_set", "link_expiry_set",
            "capacity_set", "access_mode_set", "whitelist_list", "whitelist_pending",
            "whitelist_add", "whitelist_remove", "setting_reset"}
Commanded == {"ytdl", "ytmp3", "ytdl_status", "ytdl_cancel", "ytdl_help", "ytdl_admin"}
Word == HeadWords \cup Actions \cup Commanded \cup {Link, Junk, "renew"} \cup Qualities
          \cup Bitrates \cup Ids \cup UserIds \cup Durations \cup Sizes \cup Keys \cup Modes
          \cup PlatformIds

\* Short tuples, put together.
LEMMA Tuples ==
  ASSUME NEW S, NEW a \in S, NEW b \in S
  PROVE  <<a>> \o <<b>> = <<a, b>>
<1>1. /\ <<a, b>> \in Seq(S) /\ <<a>> \o <<b>> \in Seq(S)
      /\ Len(<<a>> \o <<b>>) = 2 /\ Len(<<a, b>>) = 2
  OBVIOUS
<1>2. \A i \in 1..2 : (<<a>> \o <<b>>)[i] = <<a, b>>[i]
  <2> TAKE i \in 1..2
  <2>1. i = 1 \/ i = 2
    OBVIOUS
  <2> QED
    BY <2>1
<1> QED
  BY <1>1, <1>2, SeqEqual

\* Three words, put together from either side.
LEMMA Triples ==
  ASSUME NEW S, NEW a \in S, NEW b \in S, NEW c \in S
  PROVE  <<a, b>> \o <<c>> = <<a, b, c>> /\ <<a>> \o <<b, c>> = <<a, b, c>>
<1>1. /\ <<a, b>> \in Seq(S) /\ <<c>> \in Seq(S) /\ <<a, b, c>> \in Seq(S)
      /\ <<b, c>> \in Seq(S) /\ <<a>> \in Seq(S)
  OBVIOUS
<1>2. /\ Len(<<a, b>> \o <<c>>) = 3 /\ <<a, b>> \o <<c>> \in Seq(S)
      /\ Len(<<a>> \o <<b, c>>) = 3 /\ <<a>> \o <<b, c>> \in Seq(S)
  BY <1>1
<1> DEFINE l == <<a, b>> \o <<c>>
           m == <<a>> \o <<b, c>>
           n == <<a, b, c>>
<1>3. /\ l[1] = n[1] /\ l[2] = n[2] /\ l[3] = n[3]
      /\ m[1] = n[1] /\ m[2] = n[2] /\ m[3] = n[3]
  BY <1>1
<1>4. l \in Seq(S) /\ m \in Seq(S) /\ n \in Seq(S) /\ Len(l) = 3 /\ Len(m) = 3 /\ Len(n) = 3
  BY <1>1, <1>2
<1>5. \A i \in 1..3 : i = 1 \/ i = 2 \/ i = 3
  OBVIOUS
<1> HIDE DEF l, m, n
<1>6. (\A i \in 1..3 : l[i] = n[i]) /\ (\A i \in 1..3 : m[i] = n[i])
  BY <1>3, <1>5
<1>7. l = n
  BY <1>4, <1>6, SeqEqual
<1>8. m = n
  BY <1>4, <1>6, SeqEqual
<1> QED
  BY <1>7, <1>8 DEF l, m, n

\* What a list and its head are made of.
LEMMA Lists ==
  ASSUME NEW S, NEW h \in Seq(S), NEW s \in Seq(S)
  PROVE  /\ h \o s \in Seq(S) /\ Len(h \o s) = Len(h) + Len(s)
         /\ SubSeq(h \o s, 1, Len(h)) = h
         /\ SubSeq(h \o s, Len(h) + 1, Len(h \o s)) = s
         /\ \A i \in 1..Len(h) : (h \o s)[i] = h[i]
<1>1. h \o s \in Seq(S) /\ Len(h \o s) = Len(h) + Len(s)
  OBVIOUS
<1>2. SubSeq(h \o s, 1, Len(h)) = h
  OBVIOUS
<1>3. SubSeq(h \o s, Len(h) + 1, Len(h \o s)) = s
  OBVIOUS
<1>4. \A i \in 1..Len(h) : (h \o s)[i] = h[i]
  OBVIOUS
<1> QED
  BY <1>1, <1>2, <1>3, <1>4

\* A list with one word before it: its length, its head and the rest.
LEMMA Prefixed ==
  ASSUME NEW S, NEW a \in S, NEW s \in Seq(S)
  PROVE  /\ <<a>> \o s \in Seq(S) /\ Len(<<a>> \o s) = Len(s) + 1 /\ Len(s) \in Nat
         /\ (<<a>> \o s)[1] = a /\ Head(<<a>> \o s) = a /\ Tail(<<a>> \o s) = s
         /\ \A i \in 1..Len(s) : (<<a>> \o s)[i + 1] = s[i]
<1>1. <<a>> \in Seq(S) /\ Len(<<a>>) = 1 /\ <<a>>[1] = a
  OBVIOUS
<1>2. /\ <<a>> \o s \in Seq(S) /\ Len(<<a>> \o s) = Len(s) + 1 /\ Len(s) \in Nat
      /\ (<<a>> \o s)[1] = a /\ Head(<<a>> \o s) = a
      /\ \A i \in 1..Len(s) : (<<a>> \o s)[i + 1] = s[i]
  BY <1>1
<1>3. Tail(<<a>> \o s) = s
  OBVIOUS
<1> QED
  BY <1>2, <1>3

\* The grammar of a command.
Grammar(c, parts) ==
  CASE c = "ytdl"        -> ParseMedia("ytdl", parts, Qualities, "best")
    [] c = "ytmp3"       -> ParseMedia("ytmp3", parts, Bitrates, "320k")
    [] c = "ytdl_status" -> ParseStatus(parts)
    [] c = "ytdl_cancel" -> ParseCancel(parts)
    [] c = "ytdl_help"   -> ParseHelp(parts)
    [] c = "ytdl_admin"  -> ParseAdmin(parts)
    [] OTHER             -> Rejected

\* A text is read by the grammar of its first word, from its second word on.
LEMMA TextRead ==
  ASSUME NEW c \in Word, NEW words \in Seq(Word), NEW parts \in Seq(Word),
         Len(words) = Len(parts) + 1, words[1] = c,
         \A i \in 1..Len(parts) : words[i + 1] = parts[i]
  PROVE  ParseText(words) = Grammar(c, parts)
<1>1. /\ Head(words) = c /\ Tail(words) \in Seq(Word)
      /\ Len(Tail(words)) = Len(parts)
      /\ \A i \in 1..Len(parts) : Tail(words)[i] = parts[i]
  OBVIOUS
<1>2. Tail(words) = parts
  BY <1>1, SeqEqual
<1> QED
  BY <1>1, <1>2 DEF ParseText, Grammar

\* The words of a message of one command word are read by that command's grammar.
LEMMA PlainWords ==
  ASSUME NEW c \in Word, NEW r \in Seq(Word), NEW e \in Seq(Word)
  PROVE  ParseText((<<c>> \o r) \o e) = Grammar(c, r \o e)
<1> DEFINE w == <<c>>
           words == (w \o r) \o e
           parts == r \o e
<1>0. w \in Seq(Word) /\ Len(w) = 1 /\ w[1] = c
  OBVIOUS
<1> HIDE DEF w
<1>1. /\ w \o r \in Seq(Word) /\ parts \in Seq(Word) /\ Len(w \o r) = 1 + Len(r)
      /\ Len(parts) = Len(r) + Len(e)
  <2>1. w \o r \in Seq(Word) /\ Len(w \o r) = 1 + Len(r)
    <3>1. w \o r \in Seq(Word) /\ Len(w \o r) = Len(w) + Len(r)
      BY <1>0, ConcatProperties
    <3> QED
      BY <1>0, <3>1
  <2>2. parts \in Seq(Word) /\ Len(parts) = Len(r) + Len(e)
    OBVIOUS
  <2> QED
    BY <2>1, <2>2
<1>2. words \in Seq(Word) /\ Len(words) = Len(parts) + 1
  <2> DEFINE a == w \o r
  <2>1. a \in Seq(Word) /\ Len(a) = 1 + Len(r)
    BY <1>1
  <2> HIDE DEF a
  <2>2. a \o e \in Seq(Word) /\ Len(a \o e) = Len(a) + Len(e)
    BY <2>1, ConcatProperties
  <2> HIDE DEF parts
  <2> QED
    BY <1>1, <2>1, <2>2 DEF a
<1>3. \A i \in 1..Len(parts) : words[i + 1] = parts[i]
  <2> TAKE i \in 1..Len(parts)
  <2>1. i \in 1..(Len(r) + Len(e))
    BY <1>1
  <2> QED
    BY <1>0, <1>1, <2>1
<1>4. words[1] = c
  BY <1>0, <1>1
<1> HIDE DEF words, parts
<1> QED
  BY <1>1, <1>2, <1>3, <1>4, TextRead DEF w, words, parts

\* The same for a command whose name two words make, with what follows them.
LEMMA LongWords ==
  ASSUME NEW c \in Word, NEW h \in Seq(Word), NEW r \in Seq(Word), NEW e \in Seq(Word)
  PROVE  ParseText(((<<c>> \o h) \o r) \o e) = Grammar(c, h \o (r \o e))
<1>1. (<<c>> \o h) \o r = <<c>> \o (h \o r)
  OBVIOUS
<1>2. (h \o r) \o e = h \o (r \o e)
  OBVIOUS
<1> DEFINE x == h \o r
<1>3. x \in Seq(Word)
  OBVIOUS
<1> HIDE DEF x
<1>4. ParseText((<<c>> \o x) \o e) = Grammar(c, x \o e)
  BY <1>3, PlainWords
<1> QED
  BY <1>1, <1>2, <1>4, Zenon DEF x

LongHeads ==
  {<<"artifact", "delete">>, <<"retention", "set">>, <<"link-expiry", "set">>,
   <<"link_expiry", "set">>, <<"capacity", "set">>, <<"access-mode", "set">>,
   <<"access_mode", "set">>, <<"whitelist", "list">>, <<"whitelist", "pending">>,
   <<"whitelist", "add">>, <<"whitelist", "remove">>, <<"setting", "reset">>}

\* The first words of an action are two, or its name.
LEMMA HeadsAre ==
  ASSUME NEW f \in AdminForms, NEW h \in f.heads
  PROVE  \/ h \in LongHeads
         \/ h = <<"status">> /\ f.action = "status"
         \/ h = <<"cancel">> /\ f.action = "cancel"
  BY DEF AdminForms, Form, LongHeads

\* A head is two words, or the action itself where the action is one word.
LEMMA HeadTypes ==
  ASSUME NEW f \in AdminForms, NEW h \in f.heads
  PROVE  /\ h \in Seq(Word) 
         /\ \/ h \in LongHeads /\ Len(h) = 2 /\ h[1] \notin {"status", "cancel"}
            \/ h = <<f.action>> /\ Len(h) = 1 /\ h[1] \in {"status", "cancel"}
<1>1. HeadWords \subseteq Word
  BY DEF Word
<1>2. ASSUME h \in LongHeads
      PROVE  \E a, b \in HeadWords : h = <<a, b>> /\ a \notin {"status", "cancel"}
  BY <1>2 DEF LongHeads, HeadWords
<1>3. "status" \in HeadWords /\ "cancel" \in HeadWords
  BY DEF HeadWords
<1>4. CASE h \in LongHeads
  <2>1. PICK a \in HeadWords, b \in HeadWords : h = <<a, b>> /\ a \notin {"status", "cancel"}
    BY <1>2, <1>4
  <2>2. a \in Word /\ b \in Word
    BY <1>1
  <2> QED
    BY <1>4, <2>1, <2>2
<1>5. CASE h \notin LongHeads
  <2>1. \/ h = <<"status">> /\ f.action = "status"
        \/ h = <<"cancel">> /\ f.action = "cancel"
    BY <1>5, HeadsAre
  <2>2. "status" \in Word /\ "cancel" \in Word
    BY <1>1, <1>3
  <2>3. \A a \in Word : <<a>> \in Seq(Word) /\ Len(<<a>>) = 1 /\ <<a>>[1] = a
    OBVIOUS
  <2>4. CASE h = <<"status">> /\ f.action = "status"
    BY <2>2, <2>3, <2>4
  <2>5. CASE h = <<"cancel">> /\ f.action = "cancel"
    BY <2>2, <2>3, <2>5
  <2> QED
    BY <2>1, <2>4, <2>5
<1> QED
  BY <1>4, <1>5

\* Two words say which action is meant.
LEMMA HeadsDiffer ==
  ASSUME NEW f \in AdminForms, NEW h \in f.heads, NEW g \in AdminForms, NEW k \in g.heads,
         Len(h) = 2, Len(k) = 2, h[1] = k[1], h[2] = k[2]
  PROVE  f.action = g.action /\ h = k
  BY DEF AdminForms, Form

\* Each action, in full.
LEMMA FormOf ==
  ASSUME NEW f \in AdminForms
  PROVE  /\ f.action \in Actions
         /\ f.action = "status" => f = Form("status", {<<"status">>}, <<>>, {})
         /\ f.action = "cancel" => f = Form("cancel", {<<"cancel">>}, <<Ids>>, {})
         /\ f.action = "artifact_delete" =>
              f = Form("artifact_delete", {<<"artifact", "delete">>}, <<Ids>>, {})
         /\ f.action = "retention_set" =>
              f = Form("retention_set", {<<"retention", "set">>}, <<Durations>>, {})
         /\ f.action = "link_expiry_set" =>
              f = Form("link_expiry_set", {<<"link-expiry", "set">>, <<"link_expiry", "set">>},
                       <<Durations>>, {})
         /\ f.action = "capacity_set" =>
              f = Form("capacity_set", {<<"capacity", "set">>}, <<Sizes>>, Ids)
         /\ f.action = "access_mode_set" =>
              f = Form("access_mode_set", {<<"access-mode", "set">>, <<"access_mode", "set">>},
                       <<Modes>>, {})
         /\ f.action = "whitelist_list" =>
              f = Form("whitelist_list", {<<"whitelist", "list">>}, <<>>, PlatformIds)
         /\ f.action = "whitelist_pending" =>
              f = Form("whitelist_pending", {<<"whitelist", "pending">>}, <<>>, {})
         /\ f.action = "whitelist_add" =>
              f = Form("whitelist_add", {<<"whitelist", "add">>}, <<PlatformIds, UserIds>>, {})
         /\ f.action = "whitelist_remove" =>
              f = Form("whitelist_remove", {<<"whitelist", "remove">>},
                       <<PlatformIds, UserIds>>, {})
         /\ f.action = "setting_reset" =>
              f = Form("setting_reset", {<<"setting", "reset">>}, <<Keys>>, Ids)
  BY DEF AdminForms, Form, Actions

\* An action has one form.
LEMMA ActionsDiffer ==
  ASSUME NEW f \in AdminForms, NEW g \in AdminForms, f.action = g.action
  PROVE  f = g
<1>0. f.action \in Actions
  BY FormOf
<1>1. CASE f.action = "status"
  BY <1>1, FormOf
<1>2. CASE f.action = "cancel"
  BY <1>2, FormOf
<1>3. CASE f.action = "artifact_delete"
  BY <1>3, FormOf
<1>4. CASE f.action = "retention_set"
  BY <1>4, FormOf
<1>5. CASE f.action = "link_expiry_set"
  BY <1>5, FormOf
<1>6. CASE f.action = "capacity_set"
  BY <1>6, FormOf
<1>7. CASE f.action = "access_mode_set"
  BY <1>7, FormOf
<1>8. CASE f.action = "whitelist_list"
  BY <1>8, FormOf
<1>9. CASE f.action = "whitelist_pending"
  BY <1>9, FormOf
<1>10. CASE f.action = "whitelist_add"
  BY <1>10, FormOf
<1>11. CASE f.action = "whitelist_remove"
  BY <1>11, FormOf
<1>12. CASE f.action = "setting_reset"
  BY <1>12, FormOf
<1> QED
  BY <1>0, <1>1, <1>2, <1>3, <1>4, <1>5, <1>6, <1>7, <1>8, <1>9, <1>10, <1>11, <1>12 DEF Actions

\* Every form can be typed in some way.
LEMMA HeadsExist ==
  ASSUME NEW f \in AdminForms
  PROVE  f.heads # {}
<1>1. CASE f.action = "status"
  <2>1. <<"status">> \in f.heads
    BY <1>1, FormOf DEF Form
  <2> QED
    BY <2>1
<1>2. CASE f.action = "cancel"
  <2>1. <<"cancel">> \in f.heads
    BY <1>2, FormOf DEF Form
  <2> QED
    BY <2>1
<1>3. CASE f.action = "artifact_delete"
  <2>1. <<"artifact", "delete">> \in f.heads
    BY <1>3, FormOf DEF Form
  <2> QED
    BY <2>1
<1>4. CASE f.action = "retention_set"
  <2>1. <<"retention", "set">> \in f.heads
    BY <1>4, FormOf DEF Form
  <2> QED
    BY <2>1
<1>5. CASE f.action = "link_expiry_set"
  <2>1. <<"link-expiry", "set">> \in f.heads
    BY <1>5, FormOf DEF Form
  <2> QED
    BY <2>1
<1>6. CASE f.action = "capacity_set"
  <2>1. <<"capacity", "set">> \in f.heads
    BY <1>6, FormOf DEF Form
  <2> QED
    BY <2>1
<1>7. CASE f.action = "access_mode_set"
  <2>1. <<"access-mode", "set">> \in f.heads
    BY <1>7, FormOf DEF Form
  <2> QED
    BY <2>1
<1>8. CASE f.action = "whitelist_list"
  <2>1. <<"whitelist", "list">> \in f.heads
    BY <1>8, FormOf DEF Form
  <2> QED
    BY <2>1
<1>9. CASE f.action = "whitelist_pending"
  <2>1. <<"whitelist", "pending">> \in f.heads
    BY <1>9, FormOf DEF Form
  <2> QED
    BY <2>1
<1>10. CASE f.action = "whitelist_add"
  <2>1. <<"whitelist", "add">> \in f.heads
    BY <1>10, FormOf DEF Form
  <2> QED
    BY <2>1
<1>11. CASE f.action = "whitelist_remove"
  <2>1. <<"whitelist", "remove">> \in f.heads
    BY <1>11, FormOf DEF Form
  <2> QED
    BY <2>1
<1>12. CASE f.action = "setting_reset"
  <2>1. <<"setting", "reset">> \in f.heads
    BY <1>12, FormOf DEF Form
  <2> QED
    BY <2>1
<1> QED
  BY <1>1, <1>2, <1>3, <1>4, <1>5, <1>6, <1>7, <1>8, <1>9, <1>10, <1>11, <1>12, FormOf DEF Actions

\* The grammar is not ambiguous.
LEMMA AdminReads ==
  ASSUME NEW f \in AdminForms, NEW h \in f.heads, NEW rest \in Seq(Word)
  PROVE  ParseAdmin(h \o rest) = IF Fits(f, rest) THEN Args("ytdl_admin", <<f.action>> \o rest)
                                 ELSE Rejected
<1> DEFINE parts == h \o rest
           After(head) == SubSeq(parts, Len(head) + 1, Len(parts))
           readings == {Args("ytdl_admin", <<g.action>> \o After(k)) :
                          g \in AdminForms, k \in UNION {e.heads : e \in AdminForms}}
           Meets(r) == \E g \in AdminForms : \E k \in g.heads :
                          /\ StartsWith(k, parts) /\ Fits(g, After(k))
                          /\ r = Args("ytdl_admin", <<g.action>> \o After(k))
           this == Args("ytdl_admin", <<f.action>> \o rest)
<1>0. h \in Seq(Word) /\ (Len(h) = 1 \/ Len(h) = 2)
  BY HeadTypes
<1>1. /\ parts \in Seq(Word) /\ Len(parts) = Len(h) + Len(rest)
      /\ \A i \in 1..Len(h) : parts[i] = h[i]
      /\ SubSeq(parts, 1, Len(h)) = h /\ After(h) = rest
  BY <1>0, Lists
<1> HIDE DEF parts
<1>2. StartsWith(h, parts)
  BY <1>0, <1>1 DEF StartsWith
<1>3. ASSUME NEW g \in AdminForms, NEW k \in g.heads, StartsWith(k, parts)
      PROVE  g = f /\ k = h
  <2>0. k \in Seq(Word) /\ Len(k) >= 1
    BY HeadTypes
  <2>1. \A i \in 1..Len(k) : parts[i] = k[i]
    <3> TAKE i \in 1..Len(k)
    <3>1. Len(parts) >= Len(k) /\ SubSeq(parts, 1, Len(k)) = k
      BY <1>3 DEF StartsWith
    <3>2. SubSeq(parts, 1, Len(k))[i] = parts[i]
      BY <1>1, <2>0, <3>1
    <3> QED
      BY <3>1, <3>2
  <2>2. k[1] = h[1]
    BY <1>0, <1>1, <2>0, <2>1
  <2>3. CASE Len(h) = 2 /\ Len(k) = 2
    <3>1. k[2] = h[2]
      BY <1>1, <2>1, <2>3
    <3>2. f.action = g.action /\ h = k
      BY <2>2, <2>3, <3>1, HeadsDiffer
    <3> QED
      BY <3>2, ActionsDiffer
  <2>4. CASE ~(Len(h) = 2 /\ Len(k) = 2)
    <3>1. h = <<f.action>> /\ k = <<g.action>>
      BY <2>2, <2>4, HeadTypes
    <3>2. f.action = g.action
      BY <2>2, <3>1
    <3> QED
      BY <3>1, <3>2, ActionsDiffer
  <2> QED
    BY <2>3, <2>4
<1>4. \A r : Meets(r) <=> Fits(f, rest) /\ r = this
  <2> TAKE r
  <2>1. ASSUME Meets(r)
        PROVE  Fits(f, rest) /\ r = this
    <3>1. PICK g \in AdminForms, k \in UNION {e.heads : e \in AdminForms} :
            /\ k \in g.heads /\ StartsWith(k, parts) /\ Fits(g, After(k))
            /\ r = Args("ytdl_admin", <<g.action>> \o After(k))
      BY <2>1
    <3>2. g = f /\ k = h
      BY <1>3, <3>1
    <3> QED
      BY <1>1, <3>1, <3>2
  <2>2. ASSUME Fits(f, rest), r = this
        PROVE  Meets(r)
    <3>1. After(h) = rest /\ Fits(f, After(h))
      BY <1>1, <2>2
    <3>2. r = Args("ytdl_admin", <<f.action>> \o After(h))
      BY <2>2, <3>1
    <3> HIDE DEF After
    <3> QED
      BY <1>2, <3>1, <3>2
  <2> QED
    BY <2>1, <2>2
<1>5. this \in readings
  <2>1. /\ this = Args("ytdl_admin", <<f.action>> \o After(h))
        /\ h \in UNION {e.heads : e \in AdminForms}
    BY <1>1
  <2> HIDE DEF this, After
  <2> QED
    BY <2>1
<1>6. ParseAdmin(parts) = IF \E r \in readings : Meets(r)
                          THEN CHOOSE r \in readings : Meets(r) ELSE Rejected
  BY DEF ParseAdmin
<1> HIDE DEF this, readings, Meets
<1>7. CASE Fits(f, rest)
  <2>1. \A r \in readings : Meets(r) <=> r = this
    BY <1>4, <1>7
  <2>2. (\E r \in readings : Meets(r)) /\ (CHOOSE r \in readings : Meets(r)) = this
    BY <1>5, <2>1
  <2> QED
    BY <1>6, <1>7, <2>2 DEF this, parts
<1>8. CASE ~Fits(f, rest)
  <2>1. ~\E r \in readings : Meets(r)
    BY <1>4, <1>8
  <2> QED
    BY <1>6, <1>8, <2>1 DEF parts
<1> QED
  BY <1>7, <1>8

\* What an action requires, and what may follow.
LEMMA Shapes ==
  ASSUME NEW f \in AdminForms
  PROVE  /\ f.optional \subseteq Word /\ Junk \notin f.optional
         /\ \/ f.required = <<>>
            \/ \E A \in SUBSET Word : f.required = <<A>>
            \/ f.optional = {} /\ \E A, B \in SUBSET Word : f.required = <<A, B>>
<1>1. /\ Ids \subseteq Word /\ UserIds \subseteq Word /\ Durations \subseteq Word
      /\ Sizes \subseteq Word /\ Keys \subseteq Word /\ Modes \subseteq Word
      /\ PlatformIds \subseteq Word
  BY DEF Word
<1>2. Junk \notin Ids /\ Junk \notin PlatformIds /\ Ids \subseteq Word
  BY <1>1, IntentsAssumption DEF Junk, PlatformIds
<1>3. /\ f.optional \in {{}, Ids, PlatformIds}
      /\ f.required \in {<<>>, <<Ids>>, <<Durations>>, <<Sizes>>, <<Modes>>, <<Keys>>,
                         <<PlatformIds, UserIds>>}
      /\ f.required = <<PlatformIds, UserIds>> => f.optional = {}
  BY FormOf DEF Form, Actions
<1>4. f.optional \subseteq Word /\ Junk \notin f.optional
  BY <1>1, <1>2, <1>3
<1>5. CASE f.required = <<PlatformIds, UserIds>>
  BY <1>1, <1>3, <1>4, <1>5
<1>6. CASE f.required # <<PlatformIds, UserIds>>
  BY <1>1, <1>3, <1>4, <1>6
<1> QED
  BY <1>5, <1>6

\* What may follow an action's words, by the number of arguments the action wants.
LEMMA Followed ==
  ASSUME NEW f \in AdminForms, NEW rest \in Following(f)
  PROVE  \/ f.required = <<>> /\ (rest = <<>> \/ \E c \in f.optional : rest = <<c>>)
         \/ \E A \in SUBSET Word : \E a \in A :
              /\ f.required = <<A>>
              /\ rest = <<a>> \/ \E c \in f.optional : rest = <<a, c>>
         \/ \E A, B \in SUBSET Word : \E a \in A, b \in B :
              f.required = <<A, B>> /\ rest = <<a, b>>
<1> DEFINE Must == CASE Len(f.required) = 0 -> {<<>>}
                     [] Len(f.required) = 1 -> {<<a>> : a \in f.required[1]}
                     [] OTHER -> {<<a, b>> : a \in f.required[1], b \in f.required[2]}
           May  == {<<>>} \cup {<<c>> : c \in f.optional}
<1>a. Following(f) = {r \o o : r \in Must, o \in May}
  BY DEF Following
<1> HIDE DEF Must, May
<1>b. PICK r \in Must, o \in May : rest = r \o o
  BY <1>a
<1>0. r \in Must /\ o \in May /\ rest = r \o o
  BY <1>b
<1> USE DEF Must, May
<1>1. f.optional \subseteq Word
  BY Shapes
<1>2. CASE f.required = <<>>
  <2>1. rest = <<>> \o o
    BY <1>0, <1>2
  <2>2. o \in Seq(Word)
    <3>1. CASE o = <<>>
      BY <3>1
    <3>2. ASSUME NEW c \in f.optional, o = <<c>>
          PROVE  o \in Seq(Word)
      <4>1. c \in Word
        BY <1>1
      <4> QED
        BY <3>2, <4>1
    <3> QED
      BY <1>0, <3>1, <3>2
  <2>3. rest = o
    BY <2>1, <2>2
  <2> QED
    BY <1>0, <1>2, <2>3
<1>3. CASE \E A \in SUBSET Word : f.required = <<A>>
  <2>1. PICK A \in SUBSET Word : f.required = <<A>>
    BY <1>3
  <2>2. Len(f.required) = 1 /\ f.required[1] = A
    BY <2>1
  <2>3. PICK a \in A : rest = <<a>> \o o
    BY <1>0, <2>2
  <2>4. CASE o = <<>>
    <3>1. a \in Word
      BY <2>1
    <3>2. rest = <<a>>
      BY <2>3, <2>4, <3>1
    <3> QED
      BY <2>1, <3>2
  <2>5. CASE o # <<>>
    <3>1. PICK c \in f.optional : o = <<c>>
      BY <1>0, <2>5
    <3>2. a \in Word /\ c \in Word
      BY <1>1, <2>1
    <3>3. <<a>> \o <<c>> = <<a, c>>
      BY <3>2, Tuples
    <3>4. rest = <<a, c>>
      BY <2>3, <3>1, <3>3
    <3> QED
      BY <2>1, <3>1, <3>4
  <2> QED
    BY <2>4, <2>5
<1>4. CASE f.optional = {} /\ \E A, B \in SUBSET Word : f.required = <<A, B>>
  <2>1. PICK A \in SUBSET Word, B \in SUBSET Word : f.required = <<A, B>>
    BY <1>4
  <2>2. Len(f.required) = 2 /\ f.required[1] = A /\ f.required[2] = B /\ o = <<>>
    BY <1>0, <1>4, <2>1
  <2>3. PICK a \in A, b \in B : rest = <<a, b>> \o o
    BY <1>0, <2>2
  <2>4. a \in Word /\ b \in Word
    BY <2>1
  <2>5. rest = <<a, b>>
    BY <2>2, <2>3, <2>4
  <2> QED
    BY <2>1, <2>5
<1> QED
  BY <1>2, <1>3, <1>4, Shapes

\* Of an action that requires nothing, or one word.
LEMMA FollowedByNone ==
  ASSUME NEW f \in AdminForms, NEW rest \in Following(f), f.required = <<>>, f.optional = {}
  PROVE  rest = <<>>
<1>1. Len(f.required) = 0
  OBVIOUS
<1>2. \A A, B : Len(<<A>>) = 1 /\ Len(<<A, B>>) = 2
  OBVIOUS
<1>3. ~\E A, B : f.required = <<A>> \/ f.required = <<A, B>>
  BY <1>1, <1>2
<1> QED
  BY <1>3, Followed

\* One wanted argument is followed by nothing or by one of the optional words.
LEMMA FollowedByOne ==
  ASSUME NEW f \in AdminForms, NEW rest \in Following(f), NEW A, f.required = <<A>>
  PROVE  \E a \in Word : rest = <<a>> \/ \E c \in f.optional : rest = <<a, c>>
<1>1. Len(f.required) = 1
  OBVIOUS
<1>2. Len(<<>>) = 0 /\ \A B, C : Len(<<B, C>>) = 2
  OBVIOUS
<1>3. f.required # <<>> /\ ~\E B, C : f.required = <<B, C>>
  BY <1>1, <1>2
<1>4. \E B \in SUBSET Word : \E a \in B : rest = <<a>> \/ \E c \in f.optional : rest = <<a, c>>
  <2> HIDE DEF Word
  <2> QED
    BY <1>3, Followed
<1> QED
  BY <1>4

\* What may follow fits, and fits no more with a word too many.
LEMMA RestFits ==
  ASSUME NEW f \in AdminForms, NEW rest \in Following(f)
  PROVE  /\ rest \in Seq(Word)
         /\ Fits(f, rest)
         /\ rest \o <<Junk>> \in Seq(Word)
         /\ ~Fits(f, rest \o <<Junk>>)
<1>0. f.optional \subseteq Word /\ Junk \notin f.optional /\ Junk \in Word
  BY Shapes DEF Word
<1> DEFINE junk == rest \o <<Junk>>
<1>1. ASSUME f.required = <<>>, rest = <<>>
      PROVE  rest \in Seq(Word) /\ Fits(f, rest) /\ ~Fits(f, junk)
  <2>1. junk = <<Junk>>
    BY <1>0, <1>1
  <2> HIDE DEF junk
  <2> QED
    BY <1>0, <1>1, <2>1 DEF Fits
<1>2. ASSUME NEW c \in f.optional, f.required = <<>>, rest = <<c>>
      PROVE  rest \in Seq(Word) /\ Fits(f, rest) /\ ~Fits(f, junk)
  <2>1. c \in Word /\ junk = <<c, Junk>>
    BY <1>0, <1>2, Tuples
  <2> HIDE DEF junk
  <2> QED
    BY <1>0, <1>2, <2>1 DEF Fits
<1>3. ASSUME NEW A \in SUBSET Word, NEW a \in A, f.required = <<A>>, rest = <<a>>
      PROVE  rest \in Seq(Word) /\ Fits(f, rest) /\ ~Fits(f, junk)
  <2>1. a \in Word /\ junk = <<a, Junk>>
    BY <1>0, <1>3, Tuples
  <2> HIDE DEF junk
  <2> QED
    BY <1>0, <1>3, <2>1 DEF Fits
<1>4. ASSUME NEW A \in SUBSET Word, NEW a \in A, NEW c \in f.optional, f.required = <<A>>,
             rest = <<a, c>>
      PROVE  rest \in Seq(Word) /\ Fits(f, rest) /\ ~Fits(f, junk)
  <2>0. a \in Word /\ c \in Word
    BY <1>0, <1>4
  <2>1. junk = <<a, c, Junk>>
    <3>1. <<a, c>> \o <<Junk>> = <<a, c, Junk>>
      BY <1>0, <2>0, Triples
    <3> QED
      BY <1>4, <3>1
  <2> HIDE DEF junk
  <2> QED
    BY <1>0, <1>4, <2>0, <2>1 DEF Fits
<1>5. ASSUME NEW A \in SUBSET Word, NEW B \in SUBSET Word, NEW a \in A, NEW b \in B,
             f.required = <<A, B>>, rest = <<a, b>>
      PROVE  rest \in Seq(Word) /\ Fits(f, rest) /\ ~Fits(f, junk)
  <2>0. a \in Word /\ b \in Word
    BY <1>5
  <2>1. junk = <<a, b, Junk>>
    <3>1. <<a, b>> \o <<Junk>> = <<a, b, Junk>>
      BY <1>0, <2>0, Triples
    <3> QED
      BY <1>5, <3>1
  <2> HIDE DEF junk
  <2>2. ~Fits(f, junk)
    BY <1>0, <1>5, <2>0, <2>1, Shapes DEF Fits
  <2> QED
    BY <1>0, <1>5, <2>1, <2>2 DEF Fits
<1>6. rest \in Seq(Word) /\ Fits(f, rest) /\ ~Fits(f, junk)
  BY <1>1, <1>2, <1>3, <1>4, <1>5, Followed
<1> QED
  BY <1>0, <1>6

\* The words of an administrator's action are those of one of its heads.
LEMMA TypedAction ==
  ASSUME NEW f \in AdminForms, NEW rest \in Seq(Word)
  PROVE  \E h \in f.heads : Typed(Args("ytdl_admin", <<f.action>> \o rest))
                              = <<"ytdl_admin">> \o h \o rest
<1> DEFINE meant == Args("ytdl_admin", <<f.action>> \o rest)
<1>1. meant.command = "ytdl_admin" /\ meant.args = <<f.action>> \o rest
  BY DEF Args
<1>2. f.action \in Word
  BY FormOf DEF Word
<1>3. meant.args[1] = f.action /\ Tail(meant.args) = rest
  <2>1. (<<f.action>> \o rest)[1] = f.action /\ Tail(<<f.action>> \o rest) = rest
    BY <1>2, Prefixed
  <2> QED
    BY <1>1, <2>1
<1> HIDE DEF meant
<1> DEFINE same == {g \in AdminForms : g.action = f.action}
           all  == UNION {g.heads : g \in same}
           head == CASE f.action \in {"status", "cancel"} -> <<f.action>>
                     [] OTHER -> CHOOSE h \in all : TRUE
<1>4. Typed(meant) = <<"ytdl_admin">> \o head \o rest
  BY <1>1, <1>3 DEF Typed
<1>5. head \in f.heads
  <2>1. CASE f.action \in {"status", "cancel"}
    <3>1. <<f.action>> \in f.heads
      BY <2>1, FormOf DEF Form
    <3> QED
      BY <2>1, <3>1
  <2>2. CASE f.action \notin {"status", "cancel"}
    <3>1. same = {f}
      BY ActionsDiffer
    <3>2. all = f.heads
      BY <3>1
    <3>3. f.heads # {}
      BY HeadsExist
    <3> HIDE DEF all
    <3>4. (CHOOSE h \in all : TRUE) \in all
      BY <3>2, <3>3
    <3> QED
      BY <2>2, <3>2, <3>4
  <2> QED
    BY <2>1, <2>2
<1> QED
  BY <1>4, <1>5 DEF meant

\* How a command may be read that was written as the help says, or with a word too many.
ReadAs(meant, platform, more, read) ==
  \/ ~more /\ read = meant
  \/ more /\ platform = "telegram" /\ read = Rejected
  \/ more /\ platform # "telegram" /\ read \in {meant, Args("ytdl_admin", <<"status">>)}

\* Telegram reads an administrator's action, and refuses it with a word too many.
LEMMA TextActionRead ==
  ASSUME NEW f \in AdminForms, NEW rest \in Following(f), NEW more \in BOOLEAN
  PROVE  LET meant == Args("ytdl_admin", <<f.action>> \o rest)
         IN ReadAs(meant, "telegram", more, Read(meant, "telegram", more))
<1> DEFINE meant == Args("ytdl_admin", <<f.action>> \o rest)
           extra == IF more THEN <<Junk>> ELSE <<>>
<1>1. /\ rest \in Seq(Word) /\ Fits(f, rest)
      /\ rest \o <<Junk>> \in Seq(Word) /\ ~Fits(f, rest \o <<Junk>>)
  BY RestFits
<1>2. PICK h \in f.heads : Typed(meant) = <<"ytdl_admin">> \o h \o rest
  BY <1>1, TypedAction
<1>3. h \in Seq(Word) /\ "ytdl_admin" \in Word /\ extra \in Seq(Word)
  <2>1. Junk \in Word /\ "ytdl_admin" \in Word
    BY DEF Word, Commanded
  <2> QED
    BY <2>1, HeadTypes
<1>6. Read(meant, "telegram", more) = ParseAdmin(h \o (rest \o extra))
  <2>1. Read(meant, "telegram", more) = ParseText(Typed(meant) \o extra)
    BY DEF Read
  <2>2. ParseText(((<<"ytdl_admin">> \o h) \o rest) \o extra)
          = Grammar("ytdl_admin", h \o (rest \o extra))
    <3>1. "ytdl_admin" \in Word /\ h \in Seq(Word) /\ rest \in Seq(Word) /\ extra \in Seq(Word)
      BY <1>1, <1>3
    <3> HIDE DEF extra
    <3> QED
      BY ONLY <3>1, LongWords
  <2>3. Read(meant, "telegram", more)
          = Grammar("ytdl_admin", h \o (rest \o extra))
    BY <1>2, <2>1, <2>2
  <2> QED
    BY <2>3 DEF Grammar
<1>7. CASE more
  <2>1. Read(meant, "telegram", more) = ParseAdmin(h \o (rest \o <<Junk>>))
    BY <1>6, <1>7
  <2>2. ParseAdmin(h \o (rest \o <<Junk>>)) = Rejected
    BY <1>1, AdminReads
  <2> QED
    BY <1>7, <2>1, <2>2 DEF ReadAs
<1>8. CASE ~more
  <2>1. Read(meant, "telegram", more) = ParseAdmin(h \o (rest \o <<>>))
    BY <1>6, <1>8
  <2>2. rest \o <<>> = rest
    BY <1>1
  <2>3. ParseAdmin(h \o rest) = meant
    BY <1>1, AdminReads
  <2> QED
    BY <1>8, <2>1, <2>2, <2>3 DEF ReadAs
<1> QED
  BY <1>7, <1>8

\* Where the last word is Discord's option "confirmation".
LastConfirms(f, rest) == f.action \in {"capacity_set", "setting_reset"} /\ Len(rest) = 2

\* Discord's options for an administrator's action.
LEMMA ActionChosen ==
  ASSUME NEW f \in AdminForms, NEW rest \in Seq(Word)
  PROVE  LET o == Chosen(Args("ytdl_admin", <<f.action>> \o rest))
             confirms == LastConfirms(f, rest)
         IN o = [command |-> "ytdl_admin", url |-> Omitted, preset |-> Omitted,
                 job |-> Omitted, renew |-> FALSE, action |-> f.action,
                 value |-> IF confirms THEN <<rest[1]>> ELSE rest,
                 confirmation |-> IF confirms THEN rest[2] ELSE Omitted]
<1> DEFINE meant == Args("ytdl_admin", <<f.action>> \o rest)
           confirms == LastConfirms(f, rest)
<1>1. meant.command = "ytdl_admin" /\ meant.args = <<f.action>> \o rest
  BY DEF Args
<1>2. f.action \in Word
  BY FormOf DEF Word
<1>3. /\ meant.args[1] = f.action /\ Tail(meant.args) = rest /\ Len(rest) \in Nat
      /\ Len(meant.args) = Len(rest) + 1
      /\ Len(rest) = 2 => meant.args[2] = rest[1] /\ meant.args[3] = rest[2]
  <2> DEFINE a == <<f.action>> \o rest
  <2>1. /\ a[1] = f.action /\ Tail(a) = rest /\ Len(rest) \in Nat /\ Len(a) = Len(rest) + 1
        /\ \A i \in 1..Len(rest) : a[i + 1] = rest[i]
    BY <1>2, Prefixed
  <2> HIDE DEF a
  <2>2. Len(rest) = 2 => a[2] = rest[1] /\ a[3] = rest[2]
    <3>1. 1 + 1 = 2 /\ 2 + 1 = 3
      OBVIOUS
    <3>2. Len(rest) = 2 => a[1 + 1] = rest[1] /\ a[2 + 1] = rest[2]
      BY <2>1
    <3> QED
      BY <3>1, <3>2
  <2>3. meant.args = a
    BY <1>1 DEF a
  <2> HIDE DEF meant
  <2> QED
    BY <2>1, <2>2, <2>3
<1> HIDE DEF meant
<1>4. Confirms(meant) <=> confirms
  <2>1. Len(meant.args) = 3 <=> Len(rest) = 2
    <3>1. \A n \in Nat : n + 1 = 3 <=> n = 2
      OBVIOUS
    <3> QED
      BY <1>3, <3>1, Zenon
  <2> QED
    BY <1>3, <2>1 DEF Confirms, LastConfirms
<1> DEFINE empty == [command |-> meant.command, url |-> Omitted, preset |-> Omitted,
                     job |-> Omitted, renew |-> FALSE, action |-> Omitted, value |-> <<>>,
                     confirmation |-> Omitted]
           a == meant.args
<1>5. Chosen(meant) = IF Confirms(meant)
                      THEN [empty EXCEPT !.action = a[1], !.value = <<a[2]>>, !.confirmation = a[3]]
                      ELSE [empty EXCEPT !.action = a[1], !.value = Tail(a)]
  BY <1>1 DEF Chosen, IsDownload
<1> DEFINE options == [command |-> "ytdl_admin", url |-> Omitted, preset |-> Omitted,
                       job |-> Omitted, renew |-> FALSE, action |-> f.action,
                       value |-> IF confirms THEN <<rest[1]>> ELSE rest,
                       confirmation |-> IF confirms THEN rest[2] ELSE Omitted]
<1>6. ASSUME confirms
      PROVE  Chosen(meant) = options
  <2>1. Chosen(meant) = [empty EXCEPT !.action = f.action, !.value = <<rest[1]>>,
                                      !.confirmation = rest[2]]
    <3>1. Len(rest) = 2 /\ a[2] = rest[1] /\ a[3] = rest[2] /\ a[1] = f.action
      BY <1>3, <1>6 DEF LastConfirms
    <3> HIDE DEF a, empty
    <3> QED
      BY <1>4, <1>5, <1>6, <3>1
  <2> QED
    BY <1>1, <1>6, <2>1
<1>7. ASSUME ~confirms
      PROVE  Chosen(meant) = options
  <2>1. Chosen(meant) = [empty EXCEPT !.action = f.action, !.value = rest]
    BY <1>3, <1>4, <1>5, <1>7
  <2> QED
    BY <1>1, <1>7, <2>1
<1> QED
  BY <1>6, <1>7 DEF meant

\* Four words, put together.
LEMMA Quadruples ==
  ASSUME NEW S, NEW a \in S, NEW b \in S, NEW c \in S, NEW d \in S
  PROVE  <<a, b, c>> \o <<d>> = <<a, b, c, d>> /\ <<a, b>> \o <<c, d>> = <<a, b, c, d>>
<1>1. /\ <<a, b, c>> \in Seq(S) /\ <<d>> \in Seq(S) /\ <<a, b>> \in Seq(S)
      /\ <<c, d>> \in Seq(S) /\ <<a, b, c, d>> \in Seq(S)
  OBVIOUS
<1>2. /\ Len(<<a, b, c>> \o <<d>>) = 4 /\ <<a, b, c>> \o <<d>> \in Seq(S)
      /\ Len(<<a, b>> \o <<c, d>>) = 4 /\ <<a, b>> \o <<c, d>> \in Seq(S)
  BY <1>1
<1> DEFINE l == <<a, b, c>> \o <<d>>
           m == <<a, b>> \o <<c, d>>
           n == <<a, b, c, d>>
<1>3. /\ l[1] = n[1] /\ l[2] = n[2] /\ l[3] = n[3] /\ l[4] = n[4]
      /\ m[1] = n[1] /\ m[2] = n[2] /\ m[3] = n[3] /\ m[4] = n[4]
  BY <1>1
<1>4. l \in Seq(S) /\ m \in Seq(S) /\ n \in Seq(S) /\ Len(l) = 4 /\ Len(m) = 4 /\ Len(n) = 4
  BY <1>1, <1>2
<1>5. \A i \in 1..4 : i = 1 \/ i = 2 \/ i = 3 \/ i = 4
  OBVIOUS
<1> HIDE DEF l, m, n
<1>6. (\A i \in 1..4 : l[i] = n[i]) /\ (\A i \in 1..4 : m[i] = n[i])
  BY <1>3, <1>5
<1>7. l = n
  BY <1>4, <1>6, SeqEqual
<1>8. m = n
  BY <1>4, <1>6, SeqEqual
<1> QED
  BY <1>7, <1>8 DEF l, m, n

\* The options of an action, and a word more.
Filled(o, f, rest, extra) ==
  /\ o.action = f.action
  /\ o.value = (IF LastConfirms(f, rest) THEN <<rest[1]>> ELSE rest) \o extra
  /\ o.confirmation = IF LastConfirms(f, rest) THEN rest[2] ELSE Omitted
Worded(words, f, rest, extra) ==
  \E h \in f.heads : words = h \o rest \/ words = h \o (rest \o extra)

\* Discord's options are put into the words of the action again, but for a word too many.
LEMMA SlashActionWords ==
  ASSUME NEW f \in AdminForms, NEW rest \in Following(f), NEW extra \in Seq(Word), NEW o,
         Filled(o, f, rest, extra)
  PROVE  Worded(SlashWords(o), f, rest, extra)
<1> DEFINE confirms == LastConfirms(f, rest)
<1> USE DEF LastConfirms, Filled, Worded
<1>0. rest \in Seq(Word) /\ HeadWords \subseteq Word
  BY RestFits DEF Word
<1>1. ASSUME NEW a, rest = <<a>> \/ \E c : rest = <<a, c>>
      PROVE  o.value # <<>> /\ o.value[1] = a
  <2> DEFINE s == IF confirms THEN <<rest[1]>> ELSE rest
  <2>1. s \in Seq(Word) /\ Len(s) >= 1 /\ s[1] = a
    <3>1. Len(rest) >= 1 /\ rest[1] = a /\ rest[1] \in Word
      BY <1>0, <1>1
    <3> QED
      BY <1>0, <3>1
  <2>2. o.value = s \o extra
    OBVIOUS
  <2> HIDE DEF s
  <2>3. s \o extra \in Seq(Word) /\ Len(s \o extra) >= 1 /\ (s \o extra)[1] = s[1]
    BY <2>1, ConcatProperties
  <2>4. s \o extra # <<>>
    BY <2>3
  <2> QED
    BY <2>1, <2>2, <2>3, <2>4, Zenon
<1>2. CASE f.action = "status"
  <2>1. f.required = <<>> /\ f.optional = {} /\ <<"status">> \in f.heads
    BY <1>2, FormOf DEF Form
  <2>2. rest = <<>>
    BY <2>1, FollowedByNone
  <2>3. SlashWords(o) = <<"status">>
    BY <1>2 DEF SlashWords
  <2>4. <<"status">> \o rest = <<"status">>
    BY <2>2
  <2> QED
    BY <2>1, <2>3, <2>4, Zenon
<1>3. CASE f.action = "cancel"
  <2>1. f.required = <<Ids>> /\ f.optional = {} /\ <<"cancel">> \in f.heads
    BY <1>3, FormOf DEF Form
  <2>2. PICK a \in Word : rest = <<a>>
    BY <2>1, FollowedByOne
  <2>3. SlashWords(o) = <<"cancel", a>>
    BY <1>1, <1>3, <2>2 DEF SlashWords
  <2>4. "cancel" \in Word
    BY <1>0 DEF HeadWords
  <2>5. <<"cancel">> \o <<a>> = <<"cancel", a>>
    BY <2>4, Tuples
  <2> QED
    BY <2>1, <2>2, <2>3, <2>5, Zenon
<1>4. CASE f.action = "artifact_delete"
  <2>1. f.required = <<Ids>> /\ f.optional = {} /\ <<"artifact", "delete">> \in f.heads
    BY <1>4, FormOf DEF Form
  <2>2. PICK a \in Word : rest = <<a>>
    BY <2>1, FollowedByOne
  <2>3. SlashWords(o) = <<"artifact", "delete", a>>
    BY <1>1, <1>4, <2>2 DEF SlashWords
  <2>4. "artifact" \in Word /\ "delete" \in Word
    BY <1>0 DEF HeadWords
  <2>5. <<"artifact", "delete">> \o <<a>> = <<"artifact", "delete", a>>
    BY <2>4, Triples
  <2> QED
    BY <2>1, <2>2, <2>3, <2>5, Zenon
<1>5. CASE f.action = "retention_set"
  <2>1. f.required = <<Durations>> /\ f.optional = {} /\ <<"retention", "set">> \in f.heads
    BY <1>5, FormOf DEF Form
  <2>2. PICK a \in Word : rest = <<a>>
    BY <2>1, FollowedByOne
  <2>3. SlashWords(o) = <<"retention", "set", a>>
    BY <1>1, <1>5, <2>2 DEF SlashWords
  <2>4. "retention" \in Word /\ "set" \in Word
    BY <1>0 DEF HeadWords
  <2>5. <<"retention", "set">> \o <<a>> = <<"retention", "set", a>>
    BY <2>4, Triples
  <2> QED
    BY <2>1, <2>2, <2>3, <2>5, Zenon
<1>6. CASE f.action = "link_expiry_set"
  <2>1. f.required = <<Durations>> /\ f.optional = {} /\ <<"link_expiry", "set">> \in f.heads
    BY <1>6, FormOf DEF Form
  <2>2. PICK a \in Word : rest = <<a>>
    BY <2>1, FollowedByOne
  <2>3. SlashWords(o) = <<"link_expiry", "set", a>>
    BY <1>1, <1>6, <2>2 DEF SlashWords
  <2>4. "link_expiry" \in Word /\ "set" \in Word
    BY <1>0 DEF HeadWords
  <2>5. <<"link_expiry", "set">> \o <<a>> = <<"link_expiry", "set", a>>
    BY <2>4, Triples
  <2> QED
    BY <2>1, <2>2, <2>3, <2>5, Zenon
<1>7. CASE f.action = "access_mode_set"
  <2>1. f.required = <<Modes>> /\ f.optional = {} /\ <<"access_mode", "set">> \in f.heads
    BY <1>7, FormOf DEF Form
  <2>2. PICK a \in Word : rest = <<a>>
    BY <2>1, FollowedByOne
  <2>3. SlashWords(o) = <<"access_mode", "set", a>>
    BY <1>1, <1>7, <2>2 DEF SlashWords
  <2>4. "access_mode" \in Word /\ "set" \in Word
    BY <1>0 DEF HeadWords
  <2>5. <<"access_mode", "set">> \o <<a>> = <<"access_mode", "set", a>>
    BY <2>4, Triples
  <2> QED
    BY <2>1, <2>2, <2>3, <2>5, Zenon
<1>8. CASE f.action = "capacity_set"
  <2>1. f.required = <<Sizes>> /\ f.optional = Ids /\ <<"capacity", "set">> \in f.heads
    BY <1>8, FormOf DEF Form
  <2>2. PICK a \in Word : rest = <<a>> \/ \E c \in Ids : rest = <<a, c>>
    BY <2>1, FollowedByOne
  <2>3. SlashWords(o) = <<"capacity", "set", a>> \o Confirmation(o)
    BY <1>1, <1>8, <2>2 DEF SlashWords
  <2>4. "capacity" \in Word /\ "set" \in Word
    BY <1>0 DEF HeadWords
  <2>5. CASE rest = <<a>>
    <3>1. Confirmation(o) = <<>>
      BY <2>5 DEF Confirmation
    <3>2. <<"capacity", "set", a>> \o <<>> = <<"capacity", "set", a>>
      BY <2>4
    <3>3. <<"capacity", "set">> \o <<a>> = <<"capacity", "set", a>>
      BY <2>4, Triples
    <3> QED
      BY <2>1, <2>3, <2>5, <3>1, <3>2, <3>3, Zenon
  <2>6. CASE \E c \in Ids : rest = <<a, c>>
    <3>1. PICK c \in Ids : rest = <<a, c>>
      BY <2>6
    <3>2. c # Omitted /\ c \in Word
      BY IdsAssumption DEF Omitted, Word
    <3>3. confirms /\ rest[2] = c
      BY <1>8, <3>1
    <3>4. Confirmation(o) = <<c>>
      BY <3>2, <3>3 DEF Confirmation
    <3>5. /\ <<"capacity", "set", a>> \o <<c>> = <<"capacity", "set", a, c>>
          /\ <<"capacity", "set">> \o <<a, c>> = <<"capacity", "set", a, c>>
      BY <2>4, <3>2, Quadruples
    <3> QED
      BY <2>1, <2>3, <3>1, <3>4, <3>5, Zenon
  <2> QED
    BY <2>2, <2>5, <2>6
<1>9. CASE f.action = "setting_reset"
  <2>1. f.required = <<Keys>> /\ f.optional = Ids /\ <<"setting", "reset">> \in f.heads
    BY <1>9, FormOf DEF Form
  <2>2. PICK a \in Word : rest = <<a>> \/ \E c \in Ids : rest = <<a, c>>
    BY <2>1, FollowedByOne
  <2>3. SlashWords(o) = <<"setting", "reset", a>> \o Confirmation(o)
    BY <1>1, <1>9, <2>2 DEF SlashWords
  <2>4. "setting" \in Word /\ "reset" \in Word
    BY <1>0 DEF HeadWords
  <2>5. CASE rest = <<a>>
    <3>1. Confirmation(o) = <<>>
      BY <2>5 DEF Confirmation
    <3>2. <<"setting", "reset", a>> \o <<>> = <<"setting", "reset", a>>
      BY <2>4
    <3>3. <<"setting", "reset">> \o <<a>> = <<"setting", "reset", a>>
      BY <2>4, Triples
    <3> QED
      BY <2>1, <2>3, <2>5, <3>1, <3>2, <3>3, Zenon
  <2>6. CASE \E c \in Ids : rest = <<a, c>>
    <3>1. PICK c \in Ids : rest = <<a, c>>
      BY <2>6
    <3>2. c # Omitted /\ c \in Word
      BY IdsAssumption DEF Omitted, Word
    <3>3. confirms /\ rest[2] = c
      BY <1>9, <3>1
    <3>4. Confirmation(o) = <<c>>
      BY <3>2, <3>3 DEF Confirmation
    <3>5. /\ <<"setting", "reset", a>> \o <<c>> = <<"setting", "reset", a, c>>
          /\ <<"setting", "reset">> \o <<a, c>> = <<"setting", "reset", a, c>>
      BY <2>4, <3>2, Quadruples
    <3> QED
      BY <2>1, <2>3, <3>1, <3>4, <3>5, Zenon
  <2> QED
    BY <2>2, <2>5, <2>6
<1>10. CASE f.action = "whitelist_add"
  <2>1. <<"whitelist", "add">> \in f.heads
    BY <1>10, FormOf DEF Form
  <2>2. SlashWords(o) = <<"whitelist", "add">> \o o.value
    BY <1>10 DEF SlashWords
  <2>3. o.value = rest \o extra
    BY <1>10
  <2> QED
    BY <2>1, <2>2, <2>3, Zenon
<1>11. CASE f.action = "whitelist_remove"
  <2>1. <<"whitelist", "remove">> \in f.heads
    BY <1>11, FormOf DEF Form
  <2>2. SlashWords(o) = <<"whitelist", "remove">> \o o.value
    BY <1>11 DEF SlashWords
  <2>3. o.value = rest \o extra
    BY <1>11
  <2> QED
    BY <2>1, <2>2, <2>3, Zenon
<1>12. CASE f.action = "whitelist_list"
  <2>1. <<"whitelist", "list">> \in f.heads
    BY <1>12, FormOf DEF Form
  <2>2. SlashWords(o) = <<"whitelist", "list">> \o o.value
    BY <1>12 DEF SlashWords
  <2>3. o.value = rest \o extra
    BY <1>12
  <2> QED
    BY <2>1, <2>2, <2>3, Zenon
<1>13. CASE f.action = "whitelist_pending"
  <2>1. f.required = <<>> /\ f.optional = {} /\ <<"whitelist", "pending">> \in f.heads
    BY <1>13, FormOf DEF Form
  <2>2. rest = <<>>
    BY <2>1, FollowedByNone
  <2>3. SlashWords(o) = <<"whitelist", "pending">>
    BY <1>13 DEF SlashWords
  <2>4. <<"whitelist", "pending">> \o rest = <<"whitelist", "pending">>
    BY <2>2
  <2> QED
    BY <2>1, <2>3, <2>4, Zenon
<1> QED
  BY <1>2, <1>3, <1>4, <1>5, <1>6, <1>7, <1>8, <1>9, <1>10, <1>11, <1>12, <1>13, FormOf DEF Actions

\* Discord reads an administrator's action; with a word too many it may not have read it.
LEMMA SlashActionRead ==
  ASSUME NEW f \in AdminForms, NEW rest \in Following(f), NEW more \in BOOLEAN,
         NEW platform, platform # "telegram"
  PROVE  LET meant == Args("ytdl_admin", <<f.action>> \o rest)
         IN ReadAs(meant, platform, more, Read(meant, platform, more))
<1> DEFINE meant == Args("ytdl_admin", <<f.action>> \o rest)
           extra == IF more THEN <<Junk>> ELSE <<>>
           chosen == Chosen(meant)
           o == [chosen EXCEPT !.value = @ \o extra]
           confirms == LastConfirms(f, rest)
           status == Args("ytdl_admin", <<"status">>)
<1>1. /\ rest \in Seq(Word) /\ Fits(f, rest) /\ extra \in Seq(Word)
      /\ rest \o <<Junk>> \in Seq(Word) /\ ~Fits(f, rest \o <<Junk>>)
  <2>1. Junk \in Word
    BY DEF Word
  <2> QED
    BY <2>1, RestFits
<1>2. Read(meant, platform, more) = ParseSlash(o)
  BY DEF Read
<1>3. chosen = [command |-> "ytdl_admin", url |-> Omitted, preset |-> Omitted,
                job |-> Omitted, renew |-> FALSE, action |-> f.action,
                value |-> IF confirms THEN <<rest[1]>> ELSE rest,
                confirmation |-> IF confirms THEN rest[2] ELSE Omitted]
  BY <1>1, ActionChosen
<1> HIDE DEF chosen, extra
<1>4. /\ o.command = "ytdl_admin" /\ o.action = f.action
      /\ o.value = (IF confirms THEN <<rest[1]>> ELSE rest) \o extra
      /\ o.confirmation = IF confirms THEN rest[2] ELSE Omitted
  BY <1>3
<1> HIDE DEF o
<1>5. Read(meant, platform, more) = SlashAdmin(o)
  BY <1>2, <1>4 DEF ParseSlash
<1>6. PICK h \in f.heads : SlashWords(o) = h \o rest \/ SlashWords(o) = h \o (rest \o extra)
  <2>1. Filled(o, f, rest, extra) /\ extra \in Seq(Word)
    BY <1>1, <1>4 DEF Filled
  <2>2. Worded(SlashWords(o), f, rest, extra)
    BY <2>1, SlashActionWords
  <2> QED
    BY <2>2 DEF Worded
<1>7. meant # Rejected
  BY DEF Args, Rejected
<1>8. ParseAdmin(h \o rest) = meant
  BY <1>1, AdminReads
<1>9. CASE SlashWords(o) = h \o rest
  <2>1. Read(meant, platform, more) = meant
    BY <1>5, <1>7, <1>8, <1>9 DEF SlashAdmin
  <2> QED
    BY <2>1 DEF ReadAs
<1>10. CASE SlashWords(o) = h \o (rest \o extra) /\ more
  <2>1. ParseAdmin(h \o (rest \o <<Junk>>)) = Rejected
    BY <1>1, AdminReads
  <2>2. ParseAdmin(SlashWords(o)) = Rejected
    BY <1>10, <2>1 DEF extra
  <2>3. Read(meant, platform, more) = status
    BY <1>5, <2>2 DEF SlashAdmin
  <2> QED
    BY <1>10, <2>3 DEF ReadAs
<1>11. CASE SlashWords(o) = h \o (rest \o extra) /\ ~more
  <2>1. rest \o <<>> = rest
    BY <1>1
  <2>2. SlashWords(o) = h \o rest
    BY <1>11, <2>1 DEF extra
  <2> QED
    BY <1>9, <2>2
<1> QED
  BY <1>6, <1>9, <1>10, <1>11

\* A download, with its quality or its bitrate.
LEMMA MediaRead ==
  ASSUME NEW c \in {"ytdl", "ytmp3"}, NEW p,
         c = "ytdl" => p \in Qualities, c = "ytmp3" => p \in Bitrates,
         NEW platform, NEW more \in BOOLEAN, more => platform = "telegram"
  PROVE  LET meant == Args(c, <<Link, p>>)
         IN ReadAs(meant, platform, more, Read(meant, platform, more))
<1> DEFINE meant == Args(c, <<Link, p>>)
           extra == IF more THEN <<Junk>> ELSE <<>>
<1>1. Link \in Word /\ p \in Word /\ c \in Commanded /\ c \in Word
  <2>1. Link \in Word /\ c \in Commanded /\ c \in Word
    BY DEF Word, Commanded
  <2>2. p \in Qualities \/ p \in Bitrates
    OBVIOUS
  <2>3. p \in Word
    BY <2>2 DEF Word
  <2> QED
    BY <2>1, <2>3
<1>2. <<Link, p>> \in Seq(Word) /\ extra \in Seq(Word) /\ Junk \in Word
  <2>1. Junk \in Word
    BY DEF Word
  <2> QED
    BY <1>1, <2>1
<1>3. meant.command = c /\ meant.args = <<Link, p>>
  BY DEF Args
<1>4. CASE platform = "telegram"
  <2>1. Typed(meant) = <<c>> \o <<Link, p>>
    BY <1>3 DEF Typed
  <2>2. Read(meant, platform, more) = ParseText((<<c>> \o <<Link, p>>) \o extra)
    BY <1>4, <2>1 DEF Read
  <2>3. Read(meant, platform, more) = Grammar(c, <<Link, p>> \o extra)
    BY <1>1, <1>2, <2>2, PlainWords
  <2> DEFINE presets == IF c = "ytdl" THEN Qualities ELSE Bitrates
             default == IF c = "ytdl" THEN "best" ELSE "320k"
  <2>4. \A parts : Grammar(c, parts) = ParseMedia(c, parts, presets, default)
    BY DEF Grammar
  <2>5. CASE more
    <3>1. <<Link, p>> \o <<Junk>> = <<Link, p, Junk>>
      BY <1>1, <1>2, Triples
    <3>2. Read(meant, platform, more) = ParseMedia(c, <<Link, p, Junk>>, presets, default)
      BY <2>3, <2>4, <2>5, <3>1
    <3>3. ParseMedia(c, <<Link, p, Junk>>, presets, default) = Rejected
      BY DEF ParseMedia
    <3> QED
      BY <1>4, <2>5, <3>2, <3>3 DEF ReadAs
  <2>6. CASE ~more
    <3>1. <<Link, p>> \o <<>> = <<Link, p>>
      BY <1>2
    <3>2. Read(meant, platform, more) = ParseMedia(c, <<Link, p>>, presets, default)
      BY <2>3, <2>4, <2>6, <3>1
    <3>3. ParseMedia(c, <<Link, p>>, presets, default) = meant
      BY DEF ParseMedia
    <3> QED
      BY <2>6, <3>2, <3>3 DEF ReadAs
  <2> QED
    BY <2>5, <2>6
<1>5. CASE platform # "telegram"
  <2>1. ~more
    BY <1>5
  <2> DEFINE chosen == Chosen(meant)
             o == [chosen EXCEPT !.value = @ \o extra]
  <2>2. Read(meant, platform, more) = ParseSlash(o)
    BY <1>5 DEF Read
  <2>3. chosen = [command |-> c, url |-> Link, preset |-> p,
                  job |-> Omitted, renew |-> FALSE, action |-> Omitted, value |-> <<>>,
                  confirmation |-> Omitted]
    <3> DEFINE empty == [command |-> meant.command, url |-> Omitted, preset |-> Omitted,
                         job |-> Omitted, renew |-> FALSE, action |-> Omitted, value |-> <<>>,
                         confirmation |-> Omitted]
    <3>1. chosen = [empty EXCEPT !.url = meant.args[1], !.preset = meant.args[2]]
      BY <1>3 DEF Chosen, IsDownload
    <3>2. meant.args[1] = Link /\ meant.args[2] = p
      BY <1>3
    <3> HIDE DEF meant, chosen
    <3>3. chosen = [empty EXCEPT !.url = Link, !.preset = p]
      BY <3>1, <3>2
    <3> QED
      BY <1>3, <3>3
  <2> HIDE DEF chosen
  <2>4. o.command = c /\ o.url = Link /\ o.preset = p
    BY <2>3
  <2> HIDE DEF o
  <2>5. p # Omitted
    BY DEF Omitted, Qualities, Bitrates
  <2>6. ParseSlash(o) = Args(c, <<Link, p>>)
    BY <2>4, <2>5 DEF ParseSlash
  <2> QED
    BY <2>1, <2>2, <2>6 DEF ReadAs
<1> QED
  BY <1>4, <1>5

\* A request for the help.
LEMMA HelpRead ==
  ASSUME NEW platform, NEW more \in BOOLEAN, more => platform = "telegram"
  PROVE  LET meant == Args("ytdl_help", <<>>)
         IN ReadAs(meant, platform, more, Read(meant, platform, more))
<1> DEFINE meant == Args("ytdl_help", <<>>)
           extra == IF more THEN <<Junk>> ELSE <<>>
<1>1. "ytdl_help" \in Word /\ Junk \in Word
  BY DEF Word, Commanded
<1>2. <<>> \in Seq(Word) /\ extra \in Seq(Word)
  BY <1>1
<1>3. meant.command = "ytdl_help" /\ meant.args = <<>>
  BY DEF Args
<1>4. CASE platform = "telegram"
  <2>1. Typed(meant) = <<"ytdl_help">> \o <<>>
    BY <1>3 DEF Typed
  <2>2. Read(meant, platform, more) = ParseText((<<"ytdl_help">> \o <<>>) \o extra)
    BY <1>4, <2>1 DEF Read
  <2>3. Read(meant, platform, more) = Grammar("ytdl_help", <<>> \o extra)
    BY <1>1, <1>2, <2>2, PlainWords
  <2>4. \A parts : Grammar("ytdl_help", parts) = ParseHelp(parts)
    BY DEF Grammar
  <2>5. CASE more
    <3>1. <<>> \o <<Junk>> = <<Junk>> /\ <<Junk>> # <<>>
      BY <1>1
    <3>2. Read(meant, platform, more) = ParseHelp(<<Junk>>)
      BY <2>3, <2>4, <2>5, <3>1
    <3> QED
      BY <1>4, <2>5, <3>1, <3>2 DEF ReadAs, ParseHelp
  <2>6. CASE ~more
    <3>1. <<>> \o <<>> = <<>>
      OBVIOUS
    <3>2. Read(meant, platform, more) = ParseHelp(<<>>)
      BY <2>3, <2>4, <2>6, <3>1
    <3> QED
      BY <2>6, <3>2 DEF ReadAs, ParseHelp
  <2> QED
    BY <2>5, <2>6
<1>5. CASE platform # "telegram"
  <2>1. ~more
    BY <1>5
  <2> DEFINE o == [Chosen(meant) EXCEPT !.value = @ \o extra]
  <2>2. Read(meant, platform, more) = ParseSlash(o)
    BY <1>5 DEF Read
  <2>3. o.command = "ytdl_help"
    BY <1>3 DEF Chosen, IsDownload
  <2> HIDE DEF o
  <2>4. ParseSlash(o) = meant
    BY <2>3 DEF ParseSlash
  <2> QED
    BY <2>1, <2>2, <2>4 DEF ReadAs
<1> QED
  BY <1>4, <1>5

\* A request to cancel a job.
LEMMA CancelRead ==
  ASSUME NEW id \in Ids, NEW platform, NEW more \in BOOLEAN, more => platform = "telegram"
  PROVE  LET meant == Args("ytdl_cancel", <<id>>)
         IN ReadAs(meant, platform, more, Read(meant, platform, more))
<1> DEFINE meant == Args("ytdl_cancel", <<id>>)
           extra == IF more THEN <<Junk>> ELSE <<>>
<1>1. "ytdl_cancel" \in Word /\ Junk \in Word /\ id \in Word
  BY DEF Word, Commanded
<1>2. <<id>> \in Seq(Word) /\ extra \in Seq(Word)
  BY <1>1
<1>3. meant.command = "ytdl_cancel" /\ meant.args = <<id>> /\ meant.args[1] = id
  BY DEF Args
<1>4. CASE platform = "telegram"
  <2>1. Typed(meant) = <<"ytdl_cancel">> \o <<id>>
    BY <1>3 DEF Typed
  <2>2. Read(meant, platform, more) = ParseText((<<"ytdl_cancel">> \o <<id>>) \o extra)
    BY <1>4, <2>1 DEF Read
  <2>3. Read(meant, platform, more) = Grammar("ytdl_cancel", <<id>> \o extra)
    BY <1>1, <1>2, <2>2, PlainWords
  <2>4. \A parts : Grammar("ytdl_cancel", parts) = ParseCancel(parts)
    BY DEF Grammar
  <2>5. CASE more
    <3>1. <<id>> \o <<Junk>> = <<id, Junk>>
      BY <1>1, Tuples
    <3>2. Read(meant, platform, more) = ParseCancel(<<id, Junk>>)
      BY <2>3, <2>4, <2>5, <3>1
    <3>3. ParseCancel(<<id, Junk>>) = Rejected
      BY DEF ParseCancel
    <3> QED
      BY <1>4, <2>5, <3>2, <3>3 DEF ReadAs
  <2>6. CASE ~more
    <3>1. <<id>> \o <<>> = <<id>>
      BY <1>2
    <3>2. Read(meant, platform, more) = ParseCancel(<<id>>)
      BY <2>3, <2>4, <2>6, <3>1
    <3>3. ParseCancel(<<id>>) = meant
      BY DEF ParseCancel
    <3> QED
      BY <2>6, <3>2, <3>3 DEF ReadAs
  <2> QED
    BY <2>5, <2>6
<1>5. CASE platform # "telegram"
  <2>1. ~more
    BY <1>5
  <2> DEFINE o == [Chosen(meant) EXCEPT !.value = @ \o extra]
  <2>2. Read(meant, platform, more) = ParseSlash(o)
    BY <1>5 DEF Read
  <2>3. o.command = "ytdl_cancel" /\ o.job = id
    BY <1>3 DEF Chosen, IsDownload
  <2> HIDE DEF o
  <2>4. ParseSlash(o) = meant
    BY <2>3 DEF ParseSlash
  <2> QED
    BY <2>1, <2>2, <2>4 DEF ReadAs
<1> QED
  BY <1>4, <1>5

\* What /ytdl_status may be followed by.
LEMMA StatusAlone ==
  /\ ParseStatus(<<>>) = Args("ytdl_status", <<Omitted, "keep">>)
  /\ ParseStatus(<<Junk>>) = Rejected
<1>0. /\ Junk \notin Ids
      /\ Junk \notin {"renew", "renew=true", "renew=false", "true", "false"}
  BY IntentsAssumption DEF Junk
<1> HIDE DEF Junk
<1>1. ParseStatus(<<>>) = Args("ytdl_status", <<Omitted, "keep">>)
  BY DEF ParseStatus, WordsOf
<1>2. ParseStatus(<<Junk>>) = Rejected
  BY <1>0 DEF ParseStatus
<1> QED
  BY <1>1, <1>2

\* What the grammar of a status command makes of an id with nothing, a renewal or junk after
\* it.
LEMMA StatusParsed ==
  ASSUME NEW id \in Ids
  PROVE  /\ ParseStatus(<<id>>) = Args("ytdl_status", <<id, "keep">>)
         /\ ParseStatus(<<id, Junk>>) = Rejected
         /\ ParseStatus(<<id, "renew">>) = Args("ytdl_status", <<id, "renew">>)
         /\ ParseStatus(<<id, "renew", Junk>>) = Rejected
<1>0. /\ id \notin {"renew", "true", "false"} /\ Junk \notin Ids
      /\ Junk \notin {"renew", "renew=true", "renew=false", "true", "false"}
  BY IdsAssumption, IntentsAssumption DEF Junk
<1> HIDE DEF Junk
<1> DEFINE yes == {"renew", "renew=true", "true"}
           no == {"renew=false", "false"}
           renew(rest) == rest # <<>> /\ rest[Len(rest)] \in yes
<1>3. ASSUME NEW parts, parts # <<>>, parts[1] = id
      PROVE  ParseStatus(parts) =
               IF ~(WordsOf(Tail(parts)) \subseteq yes \cup no) THEN Rejected
               ELSE Args("ytdl_status", <<id, IF renew(Tail(parts)) THEN "renew" ELSE "keep">>)
  <2>1. parts[1] \notin {"renew", "true", "false"} /\ parts[1] \in Ids
    BY <1>0, <1>3
  <2>2. {"renew", "renew=true"} \cup {"true"} = yes /\ {"renew=false"} \cup {"false"} = no
    OBVIOUS
  <2> HIDE DEF yes, no
  <2> QED
    BY <1>3, <2>1, <2>2 DEF ParseStatus
<1>4. ParseStatus(<<id>>) = Args("ytdl_status", <<id, "keep">>)
  <2>1. <<id>> # <<>> /\ <<id>>[1] = id /\ Tail(<<id>>) = <<>>
    OBVIOUS
  <2>2. WordsOf(<<>>) = {} /\ ~renew(<<>>)
    BY DEF WordsOf
  <2> QED
    BY <1>3, <2>1, <2>2
<1>5. ParseStatus(<<id, Junk>>) = Rejected
  <2>1. <<id, Junk>> # <<>> /\ <<id, Junk>>[1] = id /\ Tail(<<id, Junk>>) = <<Junk>>
    OBVIOUS
  <2>2. Junk \in WordsOf(<<Junk>>)
    BY DEF WordsOf
  <2> QED
    BY <1>0, <1>3, <2>1, <2>2
<1>6. ParseStatus(<<id, "renew">>) = Args("ytdl_status", <<id, "renew">>)
  <2>1. <<id, "renew">> # <<>> /\ <<id, "renew">>[1] = id /\ Tail(<<id, "renew">>) = <<"renew">>
    OBVIOUS
  <2>2. WordsOf(<<"renew">>) \subseteq yes /\ renew(<<"renew">>)
    BY DEF WordsOf
  <2> QED
    BY <1>3, <2>1, <2>2
<1>7. ParseStatus(<<id, "renew", Junk>>) = Rejected
  <2>1. /\ <<id, "renew", Junk>> # <<>> /\ <<id, "renew", Junk>>[1] = id
        /\ Tail(<<id, "renew", Junk>>) = <<"renew", Junk>>
    OBVIOUS
  <2>2. Junk \in WordsOf(<<"renew", Junk>>)
    BY DEF WordsOf
  <2> QED
    BY <1>0, <1>3, <2>1, <2>2
<1> QED
  BY <1>4, <1>5, <1>6, <1>7

\* A request for the status of the jobs, or of one, with its link renewed or not.
LEMMA StatusRead ==
  ASSUME NEW j \in Ids \cup {Omitted}, NEW k \in {"keep", "renew"}, k = "renew" => j \in Ids,
         NEW platform, NEW more \in BOOLEAN, more => platform = "telegram"
  PROVE  LET meant == Args("ytdl_status", <<j, k>>)
         IN ReadAs(meant, platform, more, Read(meant, platform, more))
<1> DEFINE meant == Args("ytdl_status", <<j, k>>)
           extra == IF more THEN <<Junk>> ELSE <<>>
           named == IF j = Omitted THEN <<>> ELSE <<j>>
           renewed == IF k = "keep" THEN <<>> ELSE <<k>>
<1>0. Omitted \notin Ids
  BY IdsAssumption DEF Omitted
<1>1. "ytdl_status" \in Word /\ Junk \in Word /\ "renew" \in Word /\ (j \in Ids => j \in Word)
  BY DEF Word, Commanded
<1>2. named \in Seq(Word) /\ renewed \in Seq(Word) /\ extra \in Seq(Word)
  BY <1>0, <1>1
<1>3. /\ meant.command = "ytdl_status" /\ meant.args = <<j, k>>
      /\ meant.args[1] = j /\ meant.args[2] = k
  BY DEF Args
<1>4. CASE platform = "telegram"
  <2>1. Typed(meant) = (<<"ytdl_status">> \o named) \o renewed
    <3> HIDE DEF meant
    <3> QED
      BY <1>3 DEF Typed
  <2>2. Read(meant, platform, more) = ParseText(((<<"ytdl_status">> \o named) \o renewed) \o extra)
    BY <1>4, <2>1 DEF Read
  <2> HIDE DEF named, renewed, extra, meant
  <2>3. Read(meant, platform, more) = Grammar("ytdl_status", named \o (renewed \o extra))
    BY <1>1, <1>2, <2>2, LongWords
  <2>4. Read(meant, platform, more) = ParseStatus(named \o (renewed \o extra))
    BY <2>3 DEF Grammar
  <2>5. <<>> \o <<>> = <<>> /\ <<>> \o <<Junk>> = <<Junk>>
    BY <1>1
  <2>6. CASE j = Omitted
    <3>1. k = "keep" /\ named = <<>> /\ renewed = <<>>
      BY <1>0, <2>6 DEF named, renewed
    <3>2. CASE more
      <4>1. named \o (renewed \o extra) = <<Junk>>
        BY <2>5, <3>1, <3>2 DEF extra
      <4>2. ParseStatus(<<Junk>>) = Rejected
        BY StatusAlone
      <4> QED
        BY <1>4, <2>4, <3>2, <4>1, <4>2 DEF ReadAs, meant
    <3>3. CASE ~more
      <4>1. named \o (renewed \o extra) = <<>>
        BY <2>5, <3>1, <3>3 DEF extra
      <4>2. ParseStatus(<<>>) = meant
        BY <2>6, <3>1, StatusAlone DEF meant
      <4> QED
        BY <2>4, <3>3, <4>1, <4>2 DEF ReadAs, meant
    <3> QED
      BY <3>2, <3>3
  <2>7. CASE j # Omitted /\ k = "keep"
    <3>1. j \in Ids /\ named = <<j>> /\ renewed = <<>>
      BY <2>7 DEF named, renewed
    <3>2. CASE more
      <4>1. <<j>> \o <<Junk>> = <<j, Junk>>
        BY <1>1, <3>1, Tuples
      <4>2. named \o (renewed \o extra) = <<j, Junk>>
        BY <2>5, <3>1, <3>2, <4>1 DEF extra
      <4>3. ParseStatus(<<j, Junk>>) = Rejected
        BY <3>1, StatusParsed
      <4> QED
        BY <1>4, <2>4, <3>2, <4>2, <4>3 DEF ReadAs, meant
    <3>3. CASE ~more
      <4>1. <<j>> \o <<>> = <<j>>
        BY <1>1, <3>1
      <4>2. named \o (renewed \o extra) = <<j>>
        BY <2>5, <3>1, <3>3, <4>1 DEF extra
      <4>3. ParseStatus(<<j>>) = meant
        BY <2>7, <3>1, StatusParsed DEF meant
      <4> QED
        BY <2>4, <3>3, <4>2, <4>3 DEF ReadAs, meant
    <3> QED
      BY <3>2, <3>3
  <2>8. CASE j # Omitted /\ k = "renew"
    <3>1. j \in Ids /\ named = <<j>> /\ renewed = <<"renew">>
      BY <2>8 DEF named, renewed
    <3>2. CASE more
      <4>1. "renew" \in Word /\ Junk \in Word /\ j \in Word
        BY <3>1 DEF Word
      <4>a. <<"renew">> \o <<Junk>> = <<"renew", Junk>>
        BY <4>1, Tuples
      <4>b. <<j>> \o <<"renew", Junk>> = <<j, "renew", Junk>>
        BY <4>1, Triples
      <4>2. named \o (renewed \o extra) = <<j, "renew", Junk>>
        BY <3>1, <3>2, <4>a, <4>b DEF extra
      <4>3. ParseStatus(<<j, "renew", Junk>>) = Rejected
        BY <3>1, StatusParsed
      <4> QED
        BY <1>4, <2>4, <3>2, <4>2, <4>3 DEF ReadAs, meant
    <3>3. CASE ~more
      <4>1. <<"renew">> \o <<>> = <<"renew">> /\ <<j>> \o <<"renew">> = <<j, "renew">>
        BY <1>1, <3>1, Tuples
      <4>2. named \o (renewed \o extra) = <<j, "renew">>
        BY <3>1, <3>3, <4>1 DEF extra
      <4>3. ParseStatus(<<j, "renew">>) = meant
        BY <2>8, <3>1, StatusParsed DEF meant
      <4> QED
        BY <2>4, <3>3, <4>2, <4>3 DEF ReadAs, meant
    <3> QED
      BY <3>2, <3>3
  <2> QED
    BY <2>6, <2>7, <2>8
<1>5. CASE platform # "telegram"
  <2>1. ~more
    BY <1>5
  <2> DEFINE o == [Chosen(meant) EXCEPT !.value = @ \o extra]
  <2>2. Read(meant, platform, more) = ParseSlash(o)
    BY <1>5 DEF Read
  <2> HIDE DEF meant
  <2>3. o.command = "ytdl_status" /\ o.job = j /\ o.renew = (k = "renew")
    BY <1>3 DEF Chosen, IsDownload
  <2> HIDE DEF o
  <2>4. ParseSlash(o) = Args("ytdl_status", <<j, k>>)
    BY <1>0, <2>3 DEF ParseSlash
  <2> QED
    BY <2>1, <2>2, <2>4 DEF ReadAs, meant
<1> QED
  BY <1>4, <1>5

\* Whatever the help describes is read as it was meant.
LEMMA DescribedIsRead ==
  ASSUME NEW meant, Described(meant), NEW platform \in PlatformIds, NEW more \in BOOLEAN,
         more /\ platform = "discord" => meant.command = "ytdl_admin"
  PROVE  ReadAs(meant, platform, more, Read(meant, platform, more))
<1>1. platform = "telegram" \/ platform = "discord"
  BY DEF PlatformIds
<1>2. CASE \E f \in AdminForms : \E rest \in Following(f) :
             meant = Args("ytdl_admin", <<f.action>> \o rest)
  <2>0. PICK f \in AdminForms :
          \E rest \in Following(f) : meant = Args("ytdl_admin", <<f.action>> \o rest)
    BY <1>2
  <2>1. PICK rest \in Following(f) : meant = Args("ytdl_admin", <<f.action>> \o rest)
    BY <2>0
  <2>2. CASE platform = "telegram"
    <3>1. ReadAs(Args("ytdl_admin", <<f.action>> \o rest), "telegram", more,
                 Read(Args("ytdl_admin", <<f.action>> \o rest), "telegram", more))
      BY TextActionRead
    <3> QED
      BY <2>1, <2>2, <3>1
  <2>3. CASE platform = "discord"
    <3>1. ReadAs(Args("ytdl_admin", <<f.action>> \o rest), "discord", more,
                 Read(Args("ytdl_admin", <<f.action>> \o rest), "discord", more))
      BY SlashActionRead
    <3> QED
      BY <2>1, <2>3, <3>1
  <2> QED
    BY <1>1, <2>2, <2>3
<1>3. ASSUME meant.command # "ytdl_admin"
      PROVE  more => platform = "telegram"
  BY <1>1, <1>3
<1>4. CASE \E q \in Qualities : meant = Args("ytdl", <<Link, q>>)
  <2>1. PICK q \in Qualities : meant = Args("ytdl", <<Link, q>>)
    BY <1>4
  <2>2. more => platform = "telegram"
    BY <1>3, <2>1 DEF Args
  <2> QED
    BY <2>1, <2>2, MediaRead
<1>5. CASE \E b \in Bitrates : meant = Args("ytmp3", <<Link, b>>)
  <2>1. PICK b \in Bitrates : meant = Args("ytmp3", <<Link, b>>)
    BY <1>5
  <2>2. more => platform = "telegram"
    BY <1>3, <2>1 DEF Args
  <2> QED
    BY <2>1, <2>2, MediaRead
<1>6. CASE meant = Args("ytdl_help", <<>>)
  <2>2. more => platform = "telegram"
    BY <1>3, <1>6 DEF Args
  <2> QED
    BY <1>6, <2>2, HelpRead
<1>7. CASE \E id \in Ids : meant = Args("ytdl_cancel", <<id>>)
  <2>1. PICK id \in Ids : meant = Args("ytdl_cancel", <<id>>)
    BY <1>7
  <2>2. more => platform = "telegram"
    BY <1>3, <2>1 DEF Args
  <2> QED
    BY <2>1, <2>2, CancelRead
<1>8. CASE \E j \in Ids \cup {Omitted}, k \in {"keep", "renew"} :
             /\ k = "renew" => j \in Ids
             /\ meant = Args("ytdl_status", <<j, k>>)
  <2>1. PICK j \in Ids \cup {Omitted}, k \in {"keep", "renew"} :
             /\ k = "renew" => j \in Ids
             /\ meant = Args("ytdl_status", <<j, k>>)
    BY <1>8
  <2>2. more => platform = "telegram"
    BY <1>3, <2>1 DEF Args
  <2> QED
    BY <2>1, <2>2, StatusRead
<1> QED
  BY <1>2, <1>4, <1>5, <1>6, <1>7, <1>8 DEF Described

------------------------------------------------------------------------------
(* The command that was read.                                               *)

CommandShape ==
  command = [meant |-> command.meant, platform |-> command.platform, more |-> command.more,
             read |-> command.read, answer |-> command.answer]

\* What is read as a download was meant as it, and only a download has its URL checked.
CommandInv ==
  /\ CommandShape
  /\ command.meant = Rejected => command.read = Rejected
  /\ UnderstoodAsMeant
  /\ IsDownload(command.read) => command.read = command.meant
  /\ check.step # "none" \/ command.answer = "accepted" => IsDownload(command.read)

\* A step that only answers, or leaves the command alone.
LEMMA AnswerKeeps ==
  ASSUME CommandInv, NEW a, command' = [command EXCEPT !.answer = a] \/ command' = command,
         check'.step # "none" \/ a = "accepted" => check.step # "none"
  PROVE  CommandInv'
<1>1. /\ command'.meant = command.meant /\ command'.platform = command.platform
      /\ command'.more = command.more /\ command'.read = command.read
      /\ command'.answer = a \/ command'.answer = command.answer
      /\ CommandShape'
  <2>1. CASE command' = [command EXCEPT !.answer = a]
    BY <2>1 DEF CommandInv, CommandShape
  <2>2. CASE command' = command
    BY <2>2 DEF CommandInv, CommandShape
  <2> QED
    BY <2>1, <2>2
<1>2. UnderstoodAsMeant'
  BY <1>1 DEF CommandInv, UnderstoodAsMeant
<1> QED
  BY <1>1, <1>2 DEF CommandInv

\* A command that is received is read as one of those its author may have meant.
LEMMA ReceiveKeeps ==
  ASSUME CommandInv, NEW meant \in Intents, NEW platform \in PlatformIds, NEW more \in BOOLEAN,
         Receive(meant, platform, more)
  PROVE  CommandInv' /\ command.read = Rejected
<1> DEFINE read == Read(meant, platform, more)
<1>1. /\ command.meant = Rejected /\ command.read = Rejected
      /\ more /\ platform = "discord" => meant.command = "ytdl_admin"
  BY DEF Receive, CommandInv
<1>2. ReadAs(meant, platform, more, read)
  BY <1>1, IntentsAssumption, DescribedIsRead
<1>3. PICK a \in {"silence", "none", "answered"} :
         command' = [meant |-> meant, platform |-> platform, more |-> more,
                     read |-> read, answer |-> a]
  BY DEF Receive
<1>4. check' = check \/ IsDownload(read)
  BY DEF Receive
<1> HIDE DEF read
<1>5. /\ command'.meant = meant /\ command'.platform = platform /\ command'.more = more
      /\ command'.read = read /\ command'.answer = a /\ CommandShape'
  BY <1>3 DEF CommandShape
<1>6. meant # Rejected
  BY DownloadAssumption
<1>7. UnderstoodAsMeant'
  BY <1>2, <1>5 DEF UnderstoodAsMeant, ReadAs
<1>8. ~IsDownload(Rejected) /\ ~IsDownload(Args("ytdl_admin", <<"status">>))
  BY DEF IsDownload, Rejected, Args
<1>9. IsDownload(read) => read = meant
  BY <1>2, <1>8 DEF ReadAs
<1>10. check'.step # "none" => IsDownload(read)
  BY <1>1, <1>4, <1>8 DEF CommandInv
<1> QED
  BY <1>1, <1>5, <1>6, <1>7, <1>9, <1>10 DEF CommandInv

\* Before any command there is nothing to understand.
LEMMA InitCommand ==
  ASSUME Init
  PROVE  CommandInv
<1>1. /\ command = [meant |-> Rejected, platform |-> "telegram", more |-> FALSE,
                    read |-> Rejected, answer |-> "none"]
      /\ check.step = "none"
  BY DEF Init, NoCheck
<1> QED
  BY <1>1 DEF CommandInv, CommandShape, UnderstoodAsMeant

\* Nobody but the reader of commands and the check of the URL touches the command.
LEMMA CommandKept ==
  ASSUME CommandInv, [Next]_vars
  PROVE  CommandInv'
<1>1. CASE UNCHANGED vars
  <2>1. command' = command /\ check' = check
    BY <1>1 DEF vars
  <2> QED
    BY <2>1, AnswerKeeps
<1>2. CASE \E meant \in Intents, platform \in PlatformIds, more \in BOOLEAN :
             Receive(meant, platform, more)
  BY <1>2, ReceiveKeeps
<1>3. CASE CheckStep
  <2>1. check.step # "none" /\ (command' = command \/ \E a : command' = [command EXCEPT !.answer = a])
    BY <1>3 DEF CheckStep, ResolveFirst, ResolveHop, FallBack, Allow, Redirect, Deny,
                RaiseUnresolved, Accept, Answer
  <2> QED
    BY <2>1, AnswerKeeps
<1>4. CASE WorkerStep
  <2>1. command' = command /\ (check' = check \/ check' = NoCheck)
    BY <1>4 DEF WorkerStep, Spawn, Fetch, AttemptFails, Validate, OpenSession, Choose,
                ProbeFails, Offer, Succeed, Exit, Kill
  <2>2. check'.step # "none" => check.step # "none"
    BY <2>1 DEF NoCheck
  <2> QED
    BY <2>1, <2>2, AnswerKeeps
<1>5. CASE Take \/ Reap \/ LoginStep
  <2>1. command' = command /\ check' = check
    BY <1>5 DEF Take, Reap, LoginStep, LogIn, Confirm, Reopen, Export, WriteTemporary, Replace,
                GiveUp, Tool
  <2> QED
    BY <2>1, AnswerKeeps
<1> QED
  BY <1>1, <1>2, <1>3, <1>4, <1>5 DEF Next

\* Both platforms read what the help describes as it was meant, and nothing else for it
\* (parse_text_command, build_command_arguments, _parse_admin_action).
THEOREM CommandsAreUnderstood == Spec => []UnderstoodAsMeant
<1>1. Init => CommandInv
  BY InitCommand
<1>2. CommandInv /\ [Next]_vars => CommandInv'
  BY CommandKept
<1>3. CommandInv => UnderstoodAsMeant
  BY DEF CommandInv
<1> QED
  BY <1>1, <1>2, <1>3, PTL DEF Spec
====
