-------------------------- MODULE IniMeaningProofs --------------------------
(***************************************************************************)
(* The parser, which sees one line after the other and keeps two names, a  *)
(* number and a queue, computes what the file means when it is read as a   *)
(* whole: for files of any length and any lines.                           *)
(*                                                                         *)
(* The meaning is defined by last lines of some kind in front of a line.   *)
(* The proof follows them while the file grows: what is said of the lines  *)
(* there are does not change, and a new line is the last of its kind.      *)
(***************************************************************************)
EXTENDS IniConfProofs

\* The largest element of a set is its last.
LEMMA LastOf ==
    ASSUME NEW S \in SUBSET Nat, NEW m \in S, \A k \in S : k <= m
    PROVE  Last(S) = m
<1>1. \E x \in S : \A k \in S : k <= x
  OBVIOUS
<1> DEFINE c == CHOOSE x \in S : \A k \in S : k <= x
<1>2. c \in S /\ \A k \in S : k <= c
  BY <1>1
<1>3. c <= m /\ m <= c /\ c \in Nat /\ m \in Nat
  BY <1>2
<1>4. c = m
  BY <1>3
<1> QED BY <1>4 DEF Last

\* A new line is the last one.
LEMMA LastGrows ==
    ASSUME NEW n \in Nat, NEW S \in SUBSET (1 .. n)
    PROVE  Last(S \cup {n + 1}) = n + 1
<1>1. S \cup {n + 1} \in SUBSET Nat /\ n + 1 \in S \cup {n + 1}
  OBVIOUS
<1>2. \A k \in S \cup {n + 1} : k <= n + 1
  OBVIOUS
<1> QED BY <1>1, <1>2, LastOf

\* new has the lines of ls and one more, l, at place e.
Grown(ls, new, l, e) ==
    /\ e \in Nat \ {0}
    /\ Len(ls) = e - 1
    /\ Len(new) = e
    /\ \A i \in 1 .. e - 1 : new[i] = ls[i]
    /\ new[e] = l

\* Append() does that.
LEMMA Appended ==
    ASSUME NEW ls \in Seq(Lines), NEW l \in Lines
    PROVE  Grown(ls, Append(ls, l), l, Len(ls) + 1)
BY DEF Grown

\* Whether a line continues an option depends on the lines in front of it.
LEMMA ContinuedSame ==
    ASSUME NEW ls, NEW new, NEW l, NEW e, Grown(ls, new, l, e)
    PROVE  /\ \A i \in 1 .. e : LastReset(new, i) = LastReset(ls, i)
           /\ \A i \in 1 .. e - 1 : Continued(new, i) <=> Continued(ls, i)
<1>0. e \in Nat /\ \A i \in 1 .. e - 1 : new[i] = ls[i]
  BY DEF Grown
<1>1. ASSUME NEW i \in 1 .. e PROVE LastReset(new, i) = LastReset(ls, i)
  <2>1. {j \in 1 .. i - 1 :
           /\ ~new[j].indent
           /\ new[j].kind = "section" \/ (new[j].kind = "pair" /\ new[j].name = Empty)}
        = {j \in 1 .. i - 1 :
           /\ ~ls[j].indent
           /\ ls[j].kind = "section" \/ (ls[j].kind = "pair" /\ ls[j].name = Empty)}
    BY <1>0
  <2> QED BY <2>1 DEF LastReset
<1>2. ASSUME NEW i \in 1 .. e - 1 PROVE Continued(new, i) <=> Continued(ls, i)
  <2>1. LastReset(new, i) = LastReset(ls, i) /\ i \in 1 .. e
    BY <1>0, <1>1
  <2>2. new[i] = ls[i] /\ \A j \in 1 .. i - 1 : new[j] = ls[j]
    BY <1>0
  <2> QED BY <2>1, <2>2 DEF Continued
<1> QED BY <1>1, <1>2

\* So do the section and the option in force.
LEMMA InForceSame ==
    ASSUME NEW ls, NEW new, NEW l, NEW e, Grown(ls, new, l, e), NEW i \in 1 .. e
    PROVE  Header(new, i) = Header(ls, i) /\ Option(new, i) = Option(ls, i)
<1>0. e \in Nat /\ \A j \in 1 .. e - 1 : new[j] = ls[j]
  BY DEF Grown
<1>1. \A j \in 1 .. i - 1 : new[j] = ls[j] /\ (Continued(new, j) <=> Continued(ls, j))
  BY <1>0, ContinuedSame
<1>2. {j \in 1 .. i - 1 : new[j].kind = "section" /\ ~Continued(new, j)}
      = {j \in 1 .. i - 1 : ls[j].kind = "section" /\ ~Continued(ls, j)}
  BY <1>1
<1>3. {j \in 1 .. i - 1 : new[j].kind = "pair" /\ ~Continued(new, j)}
      = {j \in 1 .. i - 1 : ls[j].kind = "pair" /\ ~Continued(ls, j)}
  BY <1>1
<1> QED BY <1>2, <1>3 DEF Header, Option

\* What is in force behind the new line.
LEMMA InForceNext ==
    ASSUME NEW ls, NEW new, NEW l, NEW e, Grown(ls, new, l, e)
    PROVE  /\ LastReset(new, e + 1) =
                IF ~l.indent /\ (l.kind = "section" \/ (l.kind = "pair" /\ l.name = Empty))
                  THEN e ELSE LastReset(ls, e)
           /\ Header(new, e + 1) =
                IF l.kind = "section" /\ ~Continued(new, e) THEN e ELSE Header(ls, e)
           /\ Option(new, e + 1) =
                IF l.kind = "pair" /\ ~Continued(new, e) THEN e ELSE Option(ls, e)
<1>0. /\ e \in Nat \ {0} /\ new[e] = l /\ e + 1 - 1 = e
      /\ \A j \in 1 .. e - 1 : new[j] = ls[j]
      /\ \A j \in 1 .. e - 1 : Continued(new, j) <=> Continued(ls, j)
  <2>1. \A j \in 1 .. e - 1 : Continued(new, j) <=> Continued(ls, j)
    BY ContinuedSame
  <2> QED BY <2>1 DEF Grown
<1>1. \A j \in 1 .. e : j \in 1 .. e - 1 \/ j = e
  BY <1>0
<1>2. ASSUME NEW S \in SUBSET (1 .. e - 1) PROVE Last(S \cup {e}) = e
  <2>1. e - 1 \in Nat /\ (e - 1) + 1 = e
    BY <1>0
  <2> QED BY <2>1, LastGrows
<1>3. LastReset(new, e + 1) =
        IF ~l.indent /\ (l.kind = "section" \/ (l.kind = "pair" /\ l.name = Empty))
          THEN e ELSE LastReset(ls, e)
  <2> DEFINE R(s, j) == /\ ~s[j].indent
                        /\ s[j].kind = "section" \/ (s[j].kind = "pair" /\ s[j].name = Empty)
             old == {j \in 1 .. e - 1 : R(ls, j)}
  <2>1. {j \in 1 .. e : R(new, j)} = IF R(new, e) THEN old \cup {e} ELSE old
    BY <1>0, <1>1
  <2>2. Last(old \cup {e}) = e
    BY <1>2
  <2>3. LastReset(new, e + 1) = Last({j \in 1 .. e : R(new, j)}) /\ LastReset(ls, e) = Last(old)
    BY <1>0 DEF LastReset
  <2> QED BY <1>0, <2>1, <2>2, <2>3
<1>4. Header(new, e + 1) =
        IF l.kind = "section" /\ ~Continued(new, e) THEN e ELSE Header(ls, e)
  <2> DEFINE H(s, j) == s[j].kind = "section" /\ ~Continued(s, j)
             old == {j \in 1 .. e - 1 : H(ls, j)}
  <2>1. {j \in 1 .. e : H(new, j)} = IF H(new, e) THEN old \cup {e} ELSE old
    BY <1>0, <1>1
  <2>2. Last(old \cup {e}) = e
    BY <1>2
  <2>3. Header(new, e + 1) = Last({j \in 1 .. e : H(new, j)}) /\ Header(ls, e) = Last(old)
    BY <1>0 DEF Header
  <2> QED BY <1>0, <2>1, <2>2, <2>3
<1>5. Option(new, e + 1) =
        IF l.kind = "pair" /\ ~Continued(new, e) THEN e ELSE Option(ls, e)
  <2> DEFINE O(s, j) == s[j].kind = "pair" /\ ~Continued(s, j)
             old == {j \in 1 .. e - 1 : O(ls, j)}
  <2>1. {j \in 1 .. e : O(new, j)} = IF O(new, e) THEN old \cup {e} ELSE old
    BY <1>0, <1>1
  <2>2. Last(old \cup {e}) = e
    BY <1>2
  <2>3. Option(new, e + 1) = Last({j \in 1 .. e : O(new, j)}) /\ Option(ls, e) = Last(old)
    BY <1>0 DEF Option
  <2> QED BY <1>0, <2>1, <2>2, <2>3
<1> QED BY <1>3, <1>4, <1>5
----------------------------------------------------------------------------
(* What the parser keeps of the lines it has read                          *)

\* Lines in force are lines: there is one in front, or none.
Bounded(ls) ==
    \A i \in 1 .. Len(ls) + 1 :
        /\ LastReset(ls, i) \in 0 .. i - 1
        /\ Header(ls, i) \in 0 .. i - 1
        /\ Option(ls, i) \in 0 .. i - 1

\* An option that a line may continue.
Pending(ls, i) ==
    \E j \in 1 .. i - 1 : j > LastReset(ls, i) /\ ls[j].kind = "pair" /\ ls[j].name # Empty

\* sec and prev, the locals of ini_parse_stream(), stand for the section and the
\* option in force behind the last line; what a line continues is an option.
Follows(ls, sec, prev) ==
    /\ Bounded(ls)
    /\ sec = SectionOf(ls, Len(ls) + 1)
    /\ prev # Empty <=> Pending(ls, Len(ls) + 1)
    /\ prev # Empty => /\ Option(ls, Len(ls) + 1) # 0
                       /\ ls[Option(ls, Len(ls) + 1)].name = prev
    /\ \A i \in 1 .. Len(ls) : Continued(ls, i) => Option(ls, i) # 0

\* No line: nothing in force.
LEMMA FollowsInit == Follows(<<>>, Empty, Empty)
<1>1. Len(<<>>) = 0 /\ \A i \in 1 .. 1 : 1 .. i - 1 = {}
  OBVIOUS
<1>2. \A i \in 1 .. 1 : LastReset(<<>>, i) = 0 /\ Header(<<>>, i) = 0 /\ Option(<<>>, i) = 0
  BY <1>1 DEF LastReset, Header, Option, Last
<1>3. Bounded(<<>>)
  BY <1>1, <1>2 DEF Bounded
<1>4. SectionOf(<<>>, 1) = Empty /\ ~Pending(<<>>, 1)
  BY <1>1, <1>2 DEF SectionOf, Pending
<1> QED BY <1>1, <1>3, <1>4 DEF Follows

\* The test of ini_parse_stream() on a line is whether the line continues an
\* option; section is its section, and prev_name the option.
LEMMA NewLine ==
    ASSUME NEW ls, NEW new, NEW l, NEW e, NEW sec, NEW prev,
           Follows(ls, sec, prev), Grown(ls, new, l, e)
    PROVE  /\ Continued(new, e) <=> l.kind # "comment" /\ l.indent /\ prev # Empty
           /\ SectionOf(new, e) = sec
           /\ KeyOf(new, e) = IF Continued(new, e) THEN prev ELSE l.name
           /\ Continued(new, e) => Option(new, e) # 0
<1>1. /\ e \in Nat \ {0} /\ Len(ls) + 1 = e /\ new[e] = l /\ e \in 1 .. e
      /\ \A j \in 1 .. e - 1 : new[j] = ls[j]
  BY DEF Grown
<1>2. /\ LastReset(new, e) = LastReset(ls, e)
      /\ Header(new, e) = Header(ls, e) /\ Option(new, e) = Option(ls, e)
  BY <1>1, ContinuedSame, InForceSame
<1>3. Header(ls, e) \in 0 .. e - 1 /\ Option(ls, e) \in 0 .. e - 1
  BY <1>1 DEF Follows, Bounded
<1>4. Continued(new, e) <=> l.kind # "comment" /\ l.indent /\ prev # Empty
  <2>1. Continued(new, e) <=> l.kind # "comment" /\ l.indent /\ Pending(ls, e)
    BY <1>1, <1>2 DEF Continued, Pending
  <2> QED BY <1>1, <2>1 DEF Follows
<1>5. SectionOf(new, e) = sec
  <2>1. sec = SectionOf(ls, e)
    BY <1>1 DEF Follows
  <2>2. Header(ls, e) # 0 => new[Header(ls, e)] = ls[Header(ls, e)]
    BY <1>1, <1>3
  <2> QED BY <1>2, <2>1, <2>2 DEF SectionOf
<1>6. Continued(new, e) => Option(new, e) # 0 /\ new[Option(new, e)].name = prev
  <2>1. prev # Empty => Option(ls, e) # 0 /\ ls[Option(ls, e)].name = prev
    BY <1>1 DEF Follows
  <2>2. Option(ls, e) # 0 => new[Option(ls, e)] = ls[Option(ls, e)]
    BY <1>1, <1>3
  <2> QED BY <1>2, <1>4, <2>1, <2>2
<1> QED BY <1>1, <1>4, <1>5, <1>6 DEF KeyOf

\* Nothing changes for the lines there are.
LEMMA OldLines ==
    ASSUME NEW ls, NEW new, NEW l, NEW e, NEW sec, NEW prev,
           Follows(ls, sec, prev), Grown(ls, new, l, e), NEW i \in 1 .. e - 1
    PROVE  /\ new[i] = ls[i]
           /\ Continued(new, i) <=> Continued(ls, i)
           /\ SectionOf(new, i) = SectionOf(ls, i)
           /\ KeyOf(new, i) = KeyOf(ls, i)
<1>1. /\ e \in Nat \ {0} /\ Len(ls) = e - 1 /\ i \in 1 .. e /\ i \in 1 .. Len(ls) + 1
      /\ \A j \in 1 .. e - 1 : new[j] = ls[j]
  BY DEF Grown
<1>2. Continued(new, i) <=> Continued(ls, i)
  BY ContinuedSame
<1>3. Header(new, i) = Header(ls, i) /\ Option(new, i) = Option(ls, i)
  BY <1>1, InForceSame
<1>4. Header(ls, i) \in 0 .. i - 1 /\ Option(ls, i) \in 0 .. i - 1
  BY <1>1 DEF Follows, Bounded
<1>5. Header(ls, i) # 0 => new[Header(ls, i)] = ls[Header(ls, i)]
  BY <1>1, <1>4
<1>6. Option(ls, i) # 0 => new[Option(ls, i)] = ls[Option(ls, i)]
  BY <1>1, <1>4
<1>7. Continued(ls, i) => Option(ls, i) # 0
  BY <1>1 DEF Follows
<1>8. SectionOf(new, i) = SectionOf(ls, i)
  BY <1>3, <1>5 DEF SectionOf
<1>9. KeyOf(new, i) = KeyOf(ls, i)
  BY <1>1, <1>2, <1>3, <1>6, <1>7 DEF KeyOf
<1> QED BY <1>1, <1>2, <1>8, <1>9

\* A line is followed by what ini_parse_stream() does to its two locals.
LEMMA FollowsStep ==
    ASSUME NEW ls, NEW new, NEW l, NEW e, NEW sec, NEW prev, NEW sec2, NEW prev2,
           Follows(ls, sec, prev), Grown(ls, new, l, e),
           sec2 = IF l.kind = "section" /\ ~Continued(new, e) THEN l.name ELSE sec,
           prev2 = IF l.kind = "section" /\ ~Continued(new, e)
                     THEN Empty
                     ELSE IF l.kind = "pair" /\ ~Continued(new, e) THEN l.name ELSE prev
    PROVE  Follows(new, sec2, prev2)
<1>1. /\ e \in Nat \ {0} /\ Len(ls) + 1 = e /\ Len(ls) = e - 1 /\ Len(new) = e
      /\ new[e] = l /\ \A j \in 1 .. e - 1 : new[j] = ls[j]
  BY DEF Grown
<1>2. /\ LastReset(new, e + 1) =
            IF ~l.indent /\ (l.kind = "section" \/ (l.kind = "pair" /\ l.name = Empty))
              THEN e ELSE LastReset(ls, e)
      /\ Header(new, e + 1) =
            IF l.kind = "section" /\ ~Continued(new, e) THEN e ELSE Header(ls, e)
      /\ Option(new, e + 1) =
            IF l.kind = "pair" /\ ~Continued(new, e) THEN e ELSE Option(ls, e)
  BY InForceNext
<1>3. /\ LastReset(ls, e) \in 0 .. e - 1
      /\ Header(ls, e) \in 0 .. e - 1 /\ Option(ls, e) \in 0 .. e - 1
  BY <1>1 DEF Follows, Bounded
<1>4. Bounded(new)
  <2> SUFFICES ASSUME NEW i \in 1 .. e + 1
               PROVE  /\ LastReset(new, i) \in 0 .. i - 1
                      /\ Header(new, i) \in 0 .. i - 1
                      /\ Option(new, i) \in 0 .. i - 1
    BY <1>1 DEF Bounded
  <2>1. CASE i = e + 1
    BY <1>1, <1>2, <1>3, <2>1
  <2>2. CASE i \in 1 .. e
    <3>1. /\ LastReset(new, i) = LastReset(ls, i)
          /\ Header(new, i) = Header(ls, i) /\ Option(new, i) = Option(ls, i)
      BY <2>2, ContinuedSame, InForceSame
    <3> QED BY <1>1, <2>2, <3>1 DEF Follows, Bounded
  <2> QED BY <1>1, <2>1, <2>2
<1>5. sec2 = SectionOf(new, e + 1)
  <2>1. sec = SectionOf(ls, e)
    BY <1>1 DEF Follows
  <2>2. Header(ls, e) # 0 => new[Header(ls, e)] = ls[Header(ls, e)]
    BY <1>1, <1>3
  <2> QED BY <1>1, <1>2, <2>1, <2>2 DEF SectionOf
<1>6. /\ Continued(new, e) <=> l.kind # "comment" /\ l.indent /\ prev # Empty
      /\ Continued(new, e) => Option(new, e) # 0
  BY NewLine
<1>7. prev2 # Empty <=> Pending(new, e + 1)
  <2>1. prev # Empty <=> \E j \in 1 .. e - 1 :
          j > LastReset(ls, e) /\ ls[j].kind = "pair" /\ ls[j].name # Empty
    BY <1>1 DEF Follows, Pending
  <2>2. e + 1 - 1 = e /\ \A j \in 1 .. e : j \in 1 .. e - 1 \/ j = e
    BY <1>1
  <2>3. CASE ~l.indent /\ (l.kind = "section" \/ (l.kind = "pair" /\ l.name = Empty))
    <3>1. ~Pending(new, e + 1)
      BY <1>1, <1>2, <2>2, <2>3 DEF Pending
    <3>2. prev2 = Empty
      BY <1>6, <2>3
    <3> QED BY <3>1, <3>2
  <2>4. CASE ~(~l.indent /\ (l.kind = "section" \/ (l.kind = "pair" /\ l.name = Empty)))
    <3>1. LastReset(new, e + 1) = LastReset(ls, e)
      BY <1>2, <2>4
    <3>2. Pending(new, e + 1) <=> prev # Empty \/ (l.kind = "pair" /\ l.name # Empty)
      <4>1. ASSUME Pending(new, e + 1) PROVE prev # Empty \/ (l.kind = "pair" /\ l.name # Empty)
        BY <1>1, <2>1, <2>2, <3>1, <4>1 DEF Pending
      <4>2. ASSUME prev # Empty PROVE Pending(new, e + 1)
        BY <1>1, <2>1, <2>2, <3>1, <4>2 DEF Pending
      <4>3. ASSUME l.kind = "pair", l.name # Empty PROVE Pending(new, e + 1)
        <5>1. e \in 1 .. e /\ e > LastReset(ls, e)
          BY <1>1, <1>3
        <5> QED BY <1>1, <2>2, <3>1, <4>3, <5>1 DEF Pending
      <4> QED BY <4>1, <4>2, <4>3
    <3> QED BY <1>6, <2>4, <3>2
  <2> QED BY <2>3, <2>4
<1>8. prev2 # Empty => Option(new, e + 1) # 0 /\ new[Option(new, e + 1)].name = prev2
  <2>1. prev # Empty => Option(ls, e) # 0 /\ ls[Option(ls, e)].name = prev
    BY <1>1 DEF Follows
  <2>2. Option(ls, e) # 0 => new[Option(ls, e)] = ls[Option(ls, e)]
    BY <1>1, <1>3
  <2> QED BY <1>1, <1>2, <2>1, <2>2
<1>9. \A i \in 1 .. e : Continued(new, i) => Option(new, i) # 0
  <2> SUFFICES ASSUME NEW i \in 1 .. e, Continued(new, i) PROVE Option(new, i) # 0
    OBVIOUS
  <2>1. CASE i = e
    BY <1>6, <2>1
  <2>2. CASE i \in 1 .. e - 1
    <3>1. Continued(ls, i) /\ Option(new, i) = Option(ls, i)
      BY <2>2, ContinuedSame, InForceSame
    <3> QED BY <1>1, <2>2, <3>1 DEF Follows
  <2> QED BY <1>1, <2>1, <2>2
<1> QED BY <1>1, <1>4, <1>5, <1>7, <1>8, <1>9 DEF Follows
----------------------------------------------------------------------------
(* A line and the meaning of the file                                      *)

\* The lines that give this option of this type a value.
Places(type, key) == {i \in LinesOf(lines, type) : KeyOf(lines, i) = key}

\* The two histories name lines; the last line that sets an option is a line.
Histories ==
    /\ lost \subseteq 1 .. Len(lines)
    /\ cleared \subseteq 1 .. Len(lines)
    /\ \A type \in errinj_name, key \in option_name :
         Last(Places(type, key)) \in 0 .. Len(lines)

\* All that is needed of a state: the meaning of the file, and what the parser
\* keeps to go on.
MInv ==
    /\ CInv
    /\ Follows(lines, section, prev_name)
    /\ Histories
    /\ QueueIsFileMeaning
    /\ FirstErrorReported

\* What a line adds to the meaning of the file: allocations that fail are those
\* of the line itself.
LEMMA MeaningGrows ==
    ASSUME MInv, NEW l \in Lines, Read(l), NEW e, e = Len(lines) + 1,
           lost' \in {lost, lost \cup {e}}, cleared' \in {cleared, cleared \cup {e}}
    PROVE  /\ e \in Nat \ {0} /\ Len(lines) = e - 1 /\ Len(lines') = e
           /\ Grown(lines, lines', l, e)
           /\ Continued(lines', e) <=> Continues(l)
           /\ SectionOf(lines', e) = section
           /\ KeyOf(lines', e) = IF Continues(l) THEN prev_name ELSE l.name
           /\ \A type : LinesOf(lines, type) \subseteq 1 .. e - 1
           /\ \A type :
                LinesOf(lines, type)' =
                  IF Assigns(lines', e) /\ e \notin lost' /\ section = type
                    THEN LinesOf(lines, type) \cup {e}
                    ELSE LinesOf(lines, type)
           /\ \A type, key :
                Places(type, key)' =
                  IF /\ Assigns(lines', e) /\ e \notin lost' /\ section = type
                     /\ KeyOf(lines', e) = key
                    THEN Places(type, key) \cup {e}
                    ELSE Places(type, key)
           /\ \A i \in 1 .. e - 1 : ValueOf(lines, i)' = ValueOf(lines, i)
           /\ ValueOf(lines, e)' = IF e \in cleared' THEN NULL
                                   ELSE IF Continues(l) THEN l.text ELSE l.value
           /\ \A i \in 1 .. e - 1 : Erroneous(lines, i)' <=> Erroneous(lines, i)
<1>1. /\ lines \in Seq(Lines) /\ lines' = Append(lines, l)
      /\ e \in Nat \ {0} /\ Len(lines) = e - 1 /\ Len(lines') = e
  BY DEF MInv, CInv, TypeOK, Read
<1>2. Grown(lines, lines', l, e)
  BY <1>1, Appended
<1>3. Follows(lines, section, prev_name)
  BY DEF MInv
<1>4. /\ Continued(lines', e) <=> Continues(l)
      /\ SectionOf(lines', e) = section
      /\ KeyOf(lines', e) = IF Continues(l) THEN prev_name ELSE l.name
  BY <1>2, <1>3, NewLine DEF Continues
<1>5. \A i \in 1 .. e - 1 : /\ lines'[i] = lines[i]
                            /\ Continued(lines', i) <=> Continued(lines, i)
                            /\ SectionOf(lines', i) = SectionOf(lines, i)
                            /\ KeyOf(lines', i) = KeyOf(lines, i)
  BY <1>2, <1>3, OldLines
<1>6. \A i \in 1 .. e - 1 : Assigns(lines', i) <=> Assigns(lines, i)
  BY <1>5 DEF Assigns
<1>7. \A i \in 1 .. e - 1 : (i \in lost' <=> i \in lost) /\ (i \in cleared' <=> i \in cleared)
  BY <1>1
<1>8. \A i \in 1 .. e : i \in 1 .. e - 1 \/ i = e
  BY <1>1
<1>9. ASSUME NEW type
      PROVE  /\ LinesOf(lines, type) \subseteq 1 .. e - 1
             /\ LinesOf(lines, type)' =
                  IF Assigns(lines', e) /\ e \notin lost' /\ section = type
                    THEN LinesOf(lines, type) \cup {e}
                    ELSE LinesOf(lines, type)
  <2>1. LinesOf(lines, type) =
          {k \in 1 .. e - 1 : Assigns(lines, k) /\ k \notin lost /\ SectionOf(lines, k) = type}
    BY <1>1 DEF LinesOf
  <2>2. LinesOf(lines, type)' =
          {k \in 1 .. e : Assigns(lines', k) /\ k \notin lost' /\ SectionOf(lines', k) = type}
    BY <1>1 DEF LinesOf
  <2> QED BY <1>1, <1>4, <1>5, <1>6, <1>7, <1>8, <2>1, <2>2
<1>10. ASSUME NEW type, NEW key
       PROVE  Places(type, key)' =
                IF /\ Assigns(lines', e) /\ e \notin lost' /\ section = type
                   /\ KeyOf(lines', e) = key
                  THEN Places(type, key) \cup {e}
                  ELSE Places(type, key)
  <2>1. Places(type, key) = {i \in LinesOf(lines, type) : KeyOf(lines, i) = key}
    BY DEF Places
  <2>2. Places(type, key)' = {i \in LinesOf(lines, type)' : KeyOf(lines', i) = key}
    BY DEF Places
  <2> QED BY <1>5, <1>9, <2>1, <2>2
<1>11. \A i \in 1 .. e - 1 : ValueOf(lines, i)' = ValueOf(lines, i)
  BY <1>5, <1>7 DEF ValueOf
<1>12. ValueOf(lines, e)' = IF e \in cleared' THEN NULL
                            ELSE IF Continues(l) THEN l.text ELSE l.value
  BY <1>2, <1>4 DEF ValueOf, Grown
<1>13. \A i \in 1 .. e - 1 : Erroneous(lines, i)' <=> Erroneous(lines, i)
  BY <1>5, <1>6, <1>7 DEF Erroneous
<1> QED BY <1>1, <1>2, <1>4, <1>9, <1>10, <1>11, <1>12, <1>13

\* The line e, the last one read, has set an option of this type.
Sets(type, e) == Assigns(lines', e) /\ e \notin lost' /\ section = type

\* The last value given to an option is the new one, or the one it had.
LEMMA SettingStep ==
    ASSUME MInv, NEW l \in Lines, Read(l), NEW e, e = Len(lines) + 1,
           lost' \in {lost, lost \cup {e}}, cleared' \in {cleared, cleared \cup {e}},
           NEW type \in errinj_name, NEW key \in option_name
    PROVE  /\ Setting(lines, type, key, NULL)' =
                IF Sets(type, e) /\ KeyOf(lines', e) = key
                  THEN ValueOf(lines, e)'
                  ELSE Setting(lines, type, key, NULL)
           /\ Last(Places(type, key))' \in 0 .. e
<1> DEFINE old == Last(Places(type, key))
           new == Last(Places(type, key)')
           W(i) == IF i \in cleared' THEN NULL
                   ELSE IF Continued(lines', i) THEN lines'[i].text ELSE lines'[i].value
<1>1. /\ e \in Nat \ {0} /\ Len(lines) = e - 1
      /\ \A i \in 1 .. e - 1 : ValueOf(lines, i)' = ValueOf(lines, i)
      /\ LinesOf(lines, type) \subseteq 1 .. e - 1
      /\ Places(type, key)' =
           IF /\ Assigns(lines', e) /\ e \notin lost' /\ section = type
              /\ KeyOf(lines', e) = key
             THEN Places(type, key) \cup {e}
             ELSE Places(type, key)
  BY MeaningGrows
<1>2. Places(type, key) \in SUBSET (1 .. e - 1)
  BY <1>1 DEF Places
<1>3. old \in 0 .. e - 1
  BY <1>1 DEF MInv, Histories
<1>4. Setting(lines, type, key, NULL) = IF old = 0 THEN NULL ELSE ValueOf(lines, old)
  BY DEF Setting, Places
<1>5. /\ Last(Places(type, key))' = new
      /\ Setting(lines, type, key, NULL)' = IF new = 0 THEN NULL ELSE W(new)
  BY DEF Setting, Places, ValueOf, Last
<1>6. ValueOf(lines, e)' = W(e) /\ \A i \in 1 .. e - 1 : W(i) = ValueOf(lines, i)
  <2>1. ValueOf(lines, e)' = W(e)
    BY DEF ValueOf
  <2>2. ASSUME NEW i \in 1 .. e - 1 PROVE W(i) = ValueOf(lines, i)
    <3>1. ValueOf(lines, i)' = W(i)
      BY DEF ValueOf
    <3> QED BY <1>1, <3>1
  <2> QED BY <2>1, <2>2
<1> HIDE DEF old, new, W
<1>7. CASE Sets(type, e) /\ KeyOf(lines', e) = key
  <2>1. Places(type, key)' = Places(type, key) \cup {e}
    BY <1>1, <1>7 DEF Sets
  <2>2. Last(Places(type, key) \cup {e}) = e
    <3>1. e - 1 \in Nat /\ (e - 1) + 1 = e
      BY <1>1
    <3> QED BY <1>2, <3>1, LastGrows
  <2>3. new = e
    BY <2>1, <2>2 DEF new
  <2>4. Setting(lines, type, key, NULL)' = ValueOf(lines, e)'
    BY <1>1, <1>5, <1>6, <2>3
  <2>5. Last(Places(type, key))' \in 0 .. e
    BY <1>1, <1>5, <2>3
  <2> QED BY <1>7, <2>4, <2>5
<1>8. CASE ~(Sets(type, e) /\ KeyOf(lines', e) = key)
  <2>1. Places(type, key)' = Places(type, key)
    BY <1>1, <1>8 DEF Sets
  <2>2. new = old
    BY <2>1 DEF old, new
  <2>3. Setting(lines, type, key, NULL)' = Setting(lines, type, key, NULL)
    BY <1>1, <1>3, <1>4, <1>5, <1>6, <2>2
  <2>4. Last(Places(type, key))' \in 0 .. e
    BY <1>1, <1>3, <1>5, <2>2
  <2> QED BY <1>8, <2>3, <2>4
<1> QED BY <1>7, <1>8

\* The entry the file asks for.
Meaning(type) ==
    [type |-> type,
     path_regexp |-> Setting(lines, type, "path_regexp", NULL),
     op_regexp |-> Setting(lines, type, "op_regexp", NULL),
     probability |-> Number(lines, type, "probability"),
     duration |-> Number(lines, type, "duration")]

\* A number that has not been set is 0.
Num(v) == IF v = NULL THEN 0 ELSE Unsigned(atoi[v])

\* A type that no line configures has the entry calloc() makes.
LEMMA MeaningDefault ==
    ASSUME NEW type, LinesOf(lines, type) = {}
    PROVE  Meaning(type) = NewConf(type)
<1>1. \A key : Setting(lines, type, key, NULL) = NULL
  BY DEF Setting, Last
<1> QED BY <1>1 DEF Meaning, NewConf, Number

\* A line that sets an option does to the entry what conf_option_handler() does.
LEMMA MeaningStep ==
    ASSUME MInv, NEW l \in Lines, Read(l), NEW e, e = Len(lines) + 1,
           lost' \in {lost, lost \cup {e}}, cleared' \in {cleared, cleared \cup {e}},
           NEW type \in errinj_name, NEW key, NEW value,
           Sets(type, e) => key = KeyOf(lines', e) /\ value = ValueOf(lines, e)',
           value = NULL => key \in string_option
    PROVE  Meaning(type)' = IF Sets(type, e) THEN SetOption(Meaning(type), key, value)
                                             ELSE Meaning(type)
<1> DEFINE S(k) == Setting(lines, type, k, NULL)
           T(k) == Setting(lines, type, k, NULL)'
<1>1. \A k \in option_name : T(k) = IF Sets(type, e) /\ KeyOf(lines', e) = k
                                      THEN ValueOf(lines, e)' ELSE S(k)
  BY SettingStep
<1>2. /\ "path_regexp" \in option_name /\ "op_regexp" \in option_name
      /\ "probability" \in option_name /\ "duration" \in option_name
  BY DEF option_name
<1>3. Meaning(type) = [type |-> type, path_regexp |-> S("path_regexp"),
                       op_regexp |-> S("op_regexp"), probability |-> Num(S("probability")),
                       duration |-> Num(S("duration"))]
  BY DEF Meaning, Number, Num
<1>4. Meaning(type)' = [type |-> type, path_regexp |-> T("path_regexp"),
                        op_regexp |-> T("op_regexp"), probability |-> Num(T("probability")),
                        duration |-> Num(T("duration"))]
  BY DEF Meaning, Number, Num
<1> HIDE DEF S, T
<1>5. CASE ~Sets(type, e)
  BY <1>1, <1>2, <1>3, <1>4, <1>5
<1>6. CASE Sets(type, e)
  <2>1. \A k \in option_name : T(k) = IF key = k THEN value ELSE S(k)
    BY <1>1, <1>6
  <2>2. value # NULL => Num(value) = Unsigned(atoi[value])
    BY DEF Num
  <2>3. CASE key = "path_regexp"
    BY <1>2, <1>3, <1>4, <1>6, <2>1, <2>3 DEF SetOption
  <2>4. CASE key = "op_regexp"
    BY <1>2, <1>3, <1>4, <1>6, <2>1, <2>4 DEF SetOption
  <2>5. CASE key = "probability"
    BY <1>2, <1>3, <1>4, <1>6, <2>1, <2>2, <2>5 DEF SetOption, string_option
  <2>6. CASE key = "duration"
    BY <1>2, <1>3, <1>4, <1>6, <2>1, <2>2, <2>6 DEF SetOption, string_option
  <2>7. CASE key \notin option_name
    BY <1>2, <1>3, <1>4, <1>6, <2>1, <2>7 DEF SetOption
  <2> QED BY <2>3, <2>4, <2>5, <2>6, <2>7 DEF option_name
<1> QED BY <1>5, <1>6
----------------------------------------------------------------------------
(* The queue, the error and the theorems                                   *)

\* The lines and the entry of each type, as functions.
LinesFor == [type \in errinj_name |-> LinesOf(lines, type)]
EntryFor == [type \in errinj_name |-> Meaning(type)]

\* The queue holds these entries, in the order of the first of these lines.
Meant(queue, where, entry) ==
    /\ \A type \in errinj_name : Enabled(queue, type) <=> where[type] # {}
    /\ \A i \in DOMAIN queue : queue[i] = entry[queue[i].type]
    /\ \A i, j \in DOMAIN queue : i < j =>
         \E n \in where[queue[i].type] : \A m \in where[queue[j].type] : n < m

\* The type of an entry is one of the four.
LEMMA EntryTypes ==
    ASSUME NEW queue \in Seq(ErrinjConf)
    PROVE  \A i \in DOMAIN queue : queue[i].type \in errinj_name
<1> SUFFICES ASSUME NEW i \in DOMAIN queue PROVE queue[i].type \in errinj_name
  OBVIOUS
<1>1. queue[i] \in ErrinjConf
  OBVIOUS
<1> QED BY <1>1 DEF ErrinjConf

\* That is what QueueIsFileMeaning says of the queue.
LEMMA MeaningAsFunctions ==
    errors \in Seq(ErrinjConf) =>
      (QueueIsFileMeaning <=> Meant(errors, LinesFor, EntryFor))
<1> SUFFICES ASSUME errors \in Seq(ErrinjConf)
             PROVE  QueueIsFileMeaning <=> Meant(errors, LinesFor, EntryFor)
  OBVIOUS
<1>1. \A i \in DOMAIN errors : errors[i].type \in errinj_name
  BY EntryTypes
<1>2. \A type \in errinj_name : LinesFor[type] = LinesOf(lines, type)
  BY DEF LinesFor
<1>3. \A type \in errinj_name : EntryFor[type] = Meaning(type)
  BY DEF EntryFor
<1>4. (\A type \in errinj_name : Enabled(errors, type) <=> LinesOf(lines, type) # {})
      <=> (\A type \in errinj_name : Enabled(errors, type) <=> LinesFor[type] # {})
  BY <1>2
<1>5. (\A i \in DOMAIN errors : errors[i] = Meaning(errors[i].type))
      <=> (\A i \in DOMAIN errors : errors[i] = EntryFor[errors[i].type])
  BY <1>1, <1>3
<1>6. (\A i, j \in DOMAIN errors : i < j =>
         \E n \in LinesOf(lines, errors[i].type) :
            \A m \in LinesOf(lines, errors[j].type) : n < m)
      <=> (\A i, j \in DOMAIN errors : i < j =>
             \E n \in LinesFor[errors[i].type] : \A m \in LinesFor[errors[j].type] : n < m)
  <2>1. \A i \in DOMAIN errors : LinesFor[errors[i].type] = LinesOf(lines, errors[i].type)
    BY <1>1, <1>2
  <2>2. ASSUME NEW i \in DOMAIN errors, NEW j \in DOMAIN errors
        PROVE  (\E n \in LinesOf(lines, errors[i].type) :
                  \A m \in LinesOf(lines, errors[j].type) : n < m)
               <=> (\E n \in LinesFor[errors[i].type] :
                      \A m \in LinesFor[errors[j].type] : n < m)
    BY <2>1
  <2> QED BY <2>2
<1> QED BY <1>4, <1>5, <1>6 DEF QueueIsFileMeaning, Meant, Meaning

\* Line e gives this option of this section a value.
Added(where, where2, entry, entry2, sec, key, value, e) ==
    \A type \in errinj_name :
        /\ where[type] \subseteq 1 .. e - 1
        /\ where2[type] = IF type = sec THEN where[type] \cup {e} ELSE where[type]
        /\ where[type] = {} => entry[type] = NewConf(type)
        /\ entry2[type] = IF type = sec THEN SetOption(entry[type], key, value)
                                        ELSE entry[type]

\* A call of the handler adds its line and its value.
LEMMA QueueStep ==
    ASSUME NEW queue \in Seq(ErrinjConf), Distinct(queue),
           NEW where, NEW where2, NEW entry, NEW entry2,
           NEW sec \in errinj_name, NEW key \in Names, NEW value \in Values \cup {NULL},
           value = NULL => key \in string_option,
           NEW e \in Nat \ {0},
           Meant(queue, where, entry), Added(where, where2, entry, entry2, sec, key, value, e)
    PROVE  Meant(HandlerQueue(queue, sec, key, value), where2, entry2)
<1> \A type \in errinj_name : where[type] \subseteq 1 .. e - 1
  BY DEF Added
<1> \A type \in errinj_name :
        where2[type] = IF type = sec THEN where[type] \cup {e} ELSE where[type]
  BY DEF Added
<1> \A type \in errinj_name : where[type] = {} => entry[type] = NewConf(type)
  BY DEF Added
<1> \A type \in errinj_name :
        entry2[type] = IF type = sec THEN SetOption(entry[type], key, value) ELSE entry[type]
  BY DEF Added
<1> DEFINE enabled == Enable(queue, sec)
           new == [i \in DOMAIN enabled |->
                     IF enabled[i].type = sec THEN SetOption(enabled[i], key, value)
                                              ELSE enabled[i]]
<1>1. HandlerQueue(queue, sec, key, value) = new
  BY DEF HandlerQueue
<1>2. enabled \in Seq(ErrinjConf) /\ Distinct(enabled)
  BY EnableFacts
<1>3. \A i \in DOMAIN queue : i \in DOMAIN enabled /\ enabled[i] = queue[i]
  BY NewConfType DEF Enable
<1>4. \A i \in DOMAIN enabled :
        \/ i \in DOMAIN queue
        \/ /\ ~Enabled(queue, sec) /\ i = Len(queue) + 1 /\ enabled[i] = NewConf(sec)
  <2>1. CASE Enabled(queue, sec)
    BY <2>1 DEF Enable
  <2>2. CASE ~Enabled(queue, sec)
    BY <2>2, NewConfType DEF Enable
  <2> QED BY <2>1, <2>2
<1>5. \E i \in DOMAIN enabled : enabled[i].type = sec
  <2>1. CASE Enabled(queue, sec)
    BY <1>3, <2>1 DEF Enabled
  <2>2. CASE ~Enabled(queue, sec)
    <3>1. Len(queue) + 1 \in DOMAIN enabled /\ enabled[Len(queue) + 1] = NewConf(sec)
      BY <2>2, NewConfType DEF Enable
    <3> QED BY <3>1, NewConfType
  <2> QED BY <2>1, <2>2
<1> HIDE DEF enabled
<1>6. \A i \in DOMAIN enabled : enabled[i].type \in errinj_name
  BY <1>2, EntryTypes
<1>7. \A i \in DOMAIN enabled : enabled[i] = entry[enabled[i].type]
  BY <1>3, <1>4, NewConfType DEF Meant
<1>8. DOMAIN new = DOMAIN enabled /\ \A i \in DOMAIN enabled : new[i].type = enabled[i].type
  BY <1>2, SetOptionType
<1>9. \A i \in DOMAIN new : new[i] = entry2[new[i].type]
  BY <1>6, <1>7, <1>8
<1>10. \A type \in errinj_name : Enabled(new, type) <=> where2[type] # {}
  <2> SUFFICES ASSUME NEW type \in errinj_name
               PROVE  Enabled(new, type) <=> where2[type] # {}
    OBVIOUS
  <2>1. CASE type = sec
    BY <1>5, <1>8, <2>1 DEF Enabled
  <2>2. CASE type # sec
    <3>1. Enabled(new, type) <=> Enabled(queue, type)
      BY <1>3, <1>4, <1>8, <2>2, NewConfType DEF Enabled
    <3> QED BY <2>2, <3>1 DEF Meant
  <2> QED BY <2>1, <2>2
<1>11. \A i, j \in DOMAIN new : i < j =>
         \E n \in where2[new[i].type] : \A m \in where2[new[j].type] : n < m
  <2> SUFFICES ASSUME NEW i \in DOMAIN new, NEW j \in DOMAIN new, i < j
               PROVE  \E n \in where2[new[i].type] : \A m \in where2[new[j].type] : n < m
    OBVIOUS
  <2> DEFINE s == enabled[i].type
             t == enabled[j].type
  <2>1. /\ i \in DOMAIN enabled /\ j \in DOMAIN enabled
        /\ new[i].type = s /\ new[j].type = t
        /\ s \in errinj_name /\ t \in errinj_name
    BY <1>6, <1>8
  <2>2. i \in DOMAIN queue
    <3>1. i \in Nat /\ j \in Nat /\ Len(queue) \in Nat /\ DOMAIN queue = 1 .. Len(queue)
      BY <1>2, <2>1
    <3>2. j <= Len(queue) + 1
      BY <1>4, <2>1, <3>1
    <3>3. i >= 1
      BY <1>2, <2>1
    <3> QED BY <3>1, <3>2, <3>3
  <2>3. queue[i].type = s /\ Enabled(queue, s)
    BY <1>3, <2>2 DEF Enabled
  <2> HIDE DEF s, t
  <2>a. where[s] \subseteq where2[s] /\ \A n \in where[s] : n \in Nat /\ n < e
    <3>1. \A n \in 1 .. e - 1 : n \in Nat /\ n < e
      OBVIOUS
    <3>2. where[s] \subseteq 1 .. e - 1
      BY <2>1
    <3> QED BY <2>1, <3>1, <3>2
  <2>4. CASE j \in DOMAIN queue
    <3>1. queue[j].type = t
      BY <1>3, <2>4 DEF t
    <3>2. PICK n \in where[s] : \A m \in where[t] : n < m
      BY <2>2, <2>3, <2>4, <3>1 DEF Meant
    <3>3. n < e /\ n \in where2[s]
      BY <2>a, <3>2
    <3>4. \A m \in where2[t] : m \in where[t] \/ m = e
      <4>1. where2[t] = IF t = sec THEN where[t] \cup {e} ELSE where[t]
        BY <2>1
      <4> QED BY <4>1
    <3> QED BY <2>1, <3>2, <3>3, <3>4
  <2>5. CASE j \notin DOMAIN queue
    <3>1. ~Enabled(queue, sec) /\ t = sec
      <4>1. ~Enabled(queue, sec) /\ enabled[j] = NewConf(sec)
        BY <1>4, <2>1, <2>5
      <4> QED BY <4>1, NewConfType DEF t
    <3>2. where[sec] = {} /\ where[s] # {}
      BY <2>1, <2>3, <3>1 DEF Meant
    <3>3. PICK n \in where[s] : TRUE
      BY <3>2
    <3>4. n < e /\ n \in where2[s] /\ where2[t] = {e}
      BY <2>1, <2>a, <3>1, <3>2, <3>3
    <3> QED BY <2>1, <3>4
  <2> QED BY <2>4, <2>5
<1> QED BY <1>1, <1>9, <1>10, <1>11 DEF Meant

\* A line that sets no option leaves the queue and its meaning as they are.
LEMMA QueueSame ==
    ASSUME MInv, NEW l \in Lines, Read(l), NEW e, e = Len(lines) + 1,
           lost' \in {lost, lost \cup {e}}, cleared' \in {cleared, cleared \cup {e}},
           \A type \in errinj_name : ~Sets(type, e), errors' = errors
    PROVE  QueueIsFileMeaning'
<1>1. errors \in Seq(ErrinjConf) /\ QueueIsFileMeaning
  BY DEF MInv, CInv, TypeOK
<1>2. Meant(errors, LinesFor, EntryFor)
  BY <1>1, MeaningAsFunctions
<1>3. LinesFor' = LinesFor
  <2>1. \A type \in errinj_name : LinesOf(lines, type)' = LinesOf(lines, type)
    BY MeaningGrows DEF Sets
  <2> QED BY <2>1 DEF LinesFor
<1>4. EntryFor' = EntryFor
  <2>1. ASSUME NEW type \in errinj_name PROVE Meaning(type)' = Meaning(type)
    <3>1. ~Sets(type, e) /\ "path_regexp" \in string_option
      BY DEF string_option
    <3> QED BY <3>1, MeaningStep
  <2> QED BY <2>1 DEF EntryFor
<1>5. (errors \in Seq(ErrinjConf) =>
         (QueueIsFileMeaning <=> Meant(errors, LinesFor, EntryFor)))'
  BY MeaningAsFunctions, PTL
<1>6. Meant(errors, LinesFor, EntryFor)'
  BY <1>2, <1>3, <1>4 DEF Meant
<1> QED BY <1>1, <1>5, <1>6

\* A line that sets an option of an injection makes the queue that the handler
\* leaves the meaning of the file.
LEMMA QueueSet ==
    ASSUME MInv, NEW l \in Lines, Read(l), NEW e, e = Len(lines) + 1,
           lost' \in {lost, lost \cup {e}}, cleared' \in {cleared, cleared \cup {e}},
           section \in errinj_name, Sets(section, e),
           NEW key \in Names, NEW value \in Values \cup {NULL},
           key = KeyOf(lines', e), value = ValueOf(lines, e)',
           value = NULL => key \in string_option,
           errors' = HandlerQueue(errors, section, key, value)
    PROVE  QueueIsFileMeaning'
<1>1. /\ errors \in Seq(ErrinjConf) /\ Distinct(errors) /\ section \in Names
      /\ QueueIsFileMeaning
  BY DEF MInv, CInv, TypeOK, OneEntryPerType, Distinct
<1>2. errors' \in Seq(ErrinjConf)
  BY <1>1, HandlerFacts
<1>3. e \in Nat \ {0} /\ \A type \in errinj_name : LinesFor[type] \subseteq 1 .. e - 1
  BY MeaningGrows DEF LinesFor
<1>4. \A type \in errinj_name :
        LinesFor'[type] = IF type = section THEN LinesFor[type] \cup {e} ELSE LinesFor[type]
  <2>1. \A type \in errinj_name :
          LinesOf(lines, type)' = IF type = section THEN LinesOf(lines, type) \cup {e}
                                                    ELSE LinesOf(lines, type)
    BY MeaningGrows DEF Sets
  <2> QED BY <2>1 DEF LinesFor
<1>5. \A type \in errinj_name : LinesFor[type] = {} => EntryFor[type] = NewConf(type)
  BY MeaningDefault DEF LinesFor, EntryFor
<1>6. \A type \in errinj_name :
        EntryFor'[type] = IF type = section THEN SetOption(EntryFor[type], key, value)
                                            ELSE EntryFor[type]
  <2>1. ASSUME NEW type \in errinj_name
        PROVE  Meaning(type)' = IF type = section THEN SetOption(Meaning(type), key, value)
                                                  ELSE Meaning(type)
    <3>1. Sets(type, e) <=> type = section
      BY DEF Sets
    <3>2. Meaning(type)' = IF Sets(type, e) THEN SetOption(Meaning(type), key, value)
                                            ELSE Meaning(type)
      BY MeaningStep
    <3> QED BY <3>1, <3>2
  <2> QED BY <2>1 DEF EntryFor
<1>7. Meant(errors, LinesFor, EntryFor)
  BY <1>1, MeaningAsFunctions
<1>8. Meant(errors', LinesFor', EntryFor')
  <2>1. Added(LinesFor, LinesFor', EntryFor, EntryFor', section, key, value, e)
    BY <1>3, <1>4, <1>5, <1>6 DEF Added
  <2> QED BY <1>1, <1>3, <1>7, <2>1, QueueStep
<1>9. (errors \in Seq(ErrinjConf) =>
         (QueueIsFileMeaning <=> Meant(errors, LinesFor, EntryFor)))'
  BY MeaningAsFunctions, PTL
<1> QED BY <1>2, <1>8, <1>9

\* The number kept is that of the first line that is an error.
LEMMA ErrorStep ==
    ASSUME MInv, NEW l \in Lines, Read(l), NEW e, e = Len(lines) + 1,
           lost' \in {lost, lost \cup {e}}, cleared' \in {cleared, cleared \cup {e}},
           error' = IF Erroneous(lines, e)' /\ error = 0 THEN e ELSE error
    PROVE  FirstErrorReported'
<1> DEFINE Was(i) == Erroneous(lines, i)
           Is(i) == Erroneous(lines, i)'
<1>1. /\ e \in Nat \ {0} /\ DOMAIN lines = 1 .. e - 1 /\ DOMAIN lines' = 1 .. e
      /\ \A i \in 1 .. e - 1 : Is(i) <=> Was(i)
  <2>1. /\ e \in Nat \ {0} /\ Len(lines) = e - 1 /\ Len(lines') = e
        /\ \A i \in 1 .. e - 1 : Is(i) <=> Was(i)
    BY MeaningGrows
  <2>2. lines \in Seq(Lines) /\ lines' \in Seq(Lines)
    BY DEF MInv, CInv, TypeOK, Read
  <2> QED BY <2>1, <2>2
<1>2. /\ error = 0 => \A i \in 1 .. e - 1 : ~Was(i)
      /\ error # 0 => /\ error \in 1 .. e - 1 /\ Was(error)
                      /\ \A i \in 1 .. error - 1 : ~Was(i)
  BY <1>1 DEF MInv, FirstErrorReported
<1>3. FirstErrorReported' <=>
        /\ error' = 0 => \A i \in 1 .. e : ~Is(i)
        /\ error' # 0 => /\ error' \in 1 .. e /\ Erroneous(lines, error)'
                         /\ \A i \in 1 .. error' - 1 : ~Is(i)
  BY <1>1 DEF FirstErrorReported
<1>4. \A i : i = error' => (Erroneous(lines, error)' <=> Is(i))
  BY DEF Erroneous
<1>5. error' = IF Is(e) /\ error = 0 THEN e ELSE error
  OBVIOUS
<1> HIDE DEF Was, Is
<1>6. CASE error # 0
  <2>1. error' = error /\ error' \in 1 .. e - 1
    BY <1>2, <1>5, <1>6
  <2>2. Is(error) /\ \A i \in 1 .. error - 1 : ~Is(i)
    BY <1>1, <1>2, <1>6
  <2> QED BY <1>1, <1>3, <1>4, <1>6, <2>1, <2>2
<1>7. CASE error = 0 /\ Is(e)
  <2>1. error' = e /\ \A i \in 1 .. e - 1 : ~Is(i)
    BY <1>1, <1>2, <1>5, <1>7
  <2> QED BY <1>1, <1>3, <1>4, <1>7, <2>1
<1>8. CASE error = 0 /\ ~Is(e)
  <2>1. error' = 0 /\ \A i \in 1 .. e : ~Is(i)
    BY <1>1, <1>2, <1>5, <1>8
  <2> QED BY <1>3, <2>1
<1> QED BY <1>6, <1>7, <1>8

\* What is left to show when the queue and the error are right.
LEMMA Whole ==
    ASSUME MInv, NEW l \in Lines, Read(l), NEW e, e = Len(lines) + 1,
           lost' \in {lost, lost \cup {e}}, cleared' \in {cleared, cleared \cup {e}},
           CInv', QueueIsFileMeaning', FirstErrorReported',
           section' = IF l.kind = "section" /\ ~Continues(l) THEN l.name ELSE section,
           prev_name' = IF l.kind = "section" /\ ~Continues(l)
                          THEN Empty
                          ELSE IF l.kind = "pair" /\ ~Continues(l) THEN l.name ELSE prev_name
    PROVE  MInv'
<1>1. /\ e \in Nat \ {0} /\ Len(lines) = e - 1 /\ Len(lines') = e
      /\ Grown(lines, lines', l, e) /\ (Continued(lines', e) <=> Continues(l))
  BY MeaningGrows
<1>2. Follows(lines', section', prev_name')
  BY <1>1, FollowsStep DEF MInv
<1>3. lost' \subseteq 1 .. e /\ cleared' \subseteq 1 .. e
  <2>1. lost \subseteq 1 .. e - 1 /\ cleared \subseteq 1 .. e - 1
    BY <1>1 DEF MInv, Histories
  <2> QED BY <1>1, <2>1
<1>4. \A type \in errinj_name, key \in option_name : Last(Places(type, key))' \in 0 .. e
  BY SettingStep
<1>5. Histories'
  BY <1>1, <1>3, <1>4 DEF Histories
<1> QED BY <1>2, <1>5 DEF MInv

\* A line that reaches conf_option_handler(), whatever becomes of the call.
LEMMA CallMeans ==
    ASSUME MInv, NEW l \in Lines, Read(l), NEW e, e = Len(lines) + 1,
           l.kind = "pair" \/ Continues(l),
           NEW key \in Names, NEW value \in Values,
           key = IF Continues(l) THEN prev_name ELSE l.name,
           value = IF Continues(l) THEN l.text ELSE l.value,
           CallHandler(key, value)
    PROVE  /\ lost' \in {lost, lost \cup {e}} /\ cleared' \in {cleared, cleared \cup {e}}
           /\ QueueIsFileMeaning' /\ FirstErrorReported'
<1>1. lost' \in {lost, lost \cup {e}} /\ cleared' \in {cleared, cleared \cup {e}}
  BY DEF CallHandler, HandlerReturns, CallocFails, StrdupFails
<1>2. /\ e \in Nat \ {0} /\ Len(lines) = e - 1 /\ Grown(lines, lines', l, e)
      /\ Continued(lines', e) <=> Continues(l)
      /\ SectionOf(lines', e) = section /\ KeyOf(lines', e) = key
      /\ ValueOf(lines, e)' = IF e \in cleared' THEN NULL ELSE value
  BY <1>1, MeaningGrows
<1>3. Assigns(lines', e) /\ lines'[e] = l
  BY <1>2 DEF Assigns, Grown
<1>4. e \notin lost /\ e \notin cleared
  BY <1>2 DEF MInv, Histories
<1>5. Erroneous(lines, e)' <=> e \notin lost' /\ HandlerFails(section, key)
  BY <1>2, <1>3 DEF Erroneous, Assigns
<1>6. value # NULL
  BY IniConstants DEF IniConstants
<1>7. CASE HandlerReturns(key, value)
  <2>1. /\ lost' = lost /\ cleared' = cleared
        /\ errors' = HandlerQueue(errors, section, key, value)
        /\ error' = IF HandlerFails(section, key) /\ error = 0 THEN e ELSE error
    BY <1>7 DEF HandlerReturns, ErrorIf
  <2>2. FirstErrorReported'
    BY <1>1, <1>4, <1>5, <2>1, ErrorStep
  <2>3. ValueOf(lines, e)' = value
    BY <1>2, <1>4, <2>1
  <2>4. CASE section \in errinj_name
    <3>1. Sets(section, e)
      BY <1>3, <1>4, <2>1 DEF Sets
    <3>2. QueueIsFileMeaning'
      BY <1>1, <1>2, <1>6, <2>1, <2>3, <2>4, <3>1, QueueSet
    <3> QED BY <1>1, <2>2, <3>2
  <2>5. CASE section \notin errinj_name
    <3>1. errors' = errors /\ \A type \in errinj_name : ~Sets(type, e)
      BY <2>1, <2>5 DEF HandlerQueue, Sets
    <3>2. QueueIsFileMeaning'
      BY <1>1, <3>1, QueueSame
    <3> QED BY <1>1, <2>2, <3>2
  <2> QED BY <2>4, <2>5
<1>8. CASE CallocFails
  <2>1. e \in lost' /\ error' = error /\ errors' = errors
    BY <1>8 DEF CallocFails
  <2>2. FirstErrorReported'
    BY <1>1, <1>5, <2>1, ErrorStep
  <2>3. \A type \in errinj_name : ~Sets(type, e)
    BY <2>1 DEF Sets
  <2>4. QueueIsFileMeaning'
    BY <1>1, <2>1, <2>3, QueueSame
  <2> QED BY <1>1, <2>2, <2>4
<1>9. CASE StrdupFails(key)
  <2>1. /\ lost' = lost /\ e \in cleared' /\ error' = error
        /\ section \in errinj_name /\ key \in string_option
        /\ errors' = HandlerQueue(errors, section, key, NULL)
    BY <1>9 DEF StrdupFails
  <2>2. ~HandlerFails(section, key)
    BY <2>1 DEF HandlerFails, string_option, option_name
  <2>3. FirstErrorReported'
    BY <1>1, <1>5, <2>1, <2>2, ErrorStep
  <2>4. ValueOf(lines, e)' = NULL /\ Sets(section, e)
    BY <1>2, <1>3, <1>4, <2>1 DEF Sets
  <2>5. QueueIsFileMeaning'
    BY <1>1, <1>2, <2>1, <2>4, QueueSet
  <2> QED BY <1>1, <2>3, <2>5
<1> QED BY <1>7, <1>8, <1>9 DEF CallHandler

\* A line that does not reach the handler.
LEMMA OtherMeans ==
    ASSUME MInv, NEW l \in Lines, Read(l), NEW e, e = Len(lines) + 1,
           l.kind # "pair", ~Continues(l), UNCHANGED <<errors, lost, cleared>>,
           error' = IF l.kind \in {"unclosed", "bare"} /\ error = 0 THEN e ELSE error
    PROVE  QueueIsFileMeaning' /\ FirstErrorReported'
<1>1. lost' \in {lost, lost \cup {e}} /\ cleared' \in {cleared, cleared \cup {e}}
  OBVIOUS
<1>2. ~Continued(lines', e) /\ lines'[e] = l
  BY <1>1, MeaningGrows DEF Grown
<1>3. ~Assigns(lines', e)
  BY <1>2 DEF Assigns
<1>4. Erroneous(lines, e)' <=> l.kind \in {"unclosed", "bare"}
  BY <1>2, <1>3 DEF Erroneous
<1>5. FirstErrorReported'
  BY <1>1, <1>4, ErrorStep
<1>6. QueueIsFileMeaning'
  BY <1>1, <1>3, QueueSame DEF Sets
<1> QED BY <1>5, <1>6

\* Every kind of line keeps the invariant.
LEMMA MeaningKept == MInv /\ [Next]_vars => MInv'
<1> SUFFICES ASSUME MInv, [Next]_vars PROVE MInv'
  OBVIOUS
<1> DEFINE e == Len(lines) + 1
<1>0. CInv'
  BY LineStep DEF MInv
<1>1. ASSUME NEW l \in Lines, Comment(l) PROVE MInv'
  <2>1. Read(l) /\ ~Continues(l) /\ l.kind = "comment"
    BY <1>1 DEF Comment, Continues
  <2>2. QueueIsFileMeaning' /\ FirstErrorReported'
    BY <1>1, <2>1, OtherMeans DEF Comment
  <2> QED BY <1>0, <1>1, <2>1, <2>2, Whole DEF Comment
<1>2. ASSUME NEW l \in Lines, Continuation(l) PROVE MInv'
  <2>1. Read(l) /\ Continues(l) /\ CallHandler(prev_name, l.text)
    BY <1>2 DEF Continuation
  <2>2. prev_name \in Names /\ l.text \in Values
    BY LineFacts DEF MInv, CInv, TypeOK
  <2>3. /\ lost' \in {lost, lost \cup {e}} /\ cleared' \in {cleared, cleared \cup {e}}
        /\ QueueIsFileMeaning' /\ FirstErrorReported'
    BY <2>1, <2>2, CallMeans
  <2> QED BY <1>0, <1>2, <2>1, <2>3, Whole DEF Continuation
<1>3. ASSUME NEW l \in Lines, SectionLine(l) PROVE MInv'
  <2>1. Read(l) /\ ~Continues(l) /\ l.kind = "section"
    BY <1>3 DEF SectionLine
  <2>2. QueueIsFileMeaning' /\ FirstErrorReported'
    BY <1>3, <2>1, OtherMeans DEF SectionLine
  <2> QED BY <1>0, <1>3, <2>1, <2>2, Whole DEF SectionLine
<1>4. ASSUME NEW l \in Lines, Pair(l) PROVE MInv'
  <2>1. Read(l) /\ ~Continues(l) /\ l.kind = "pair" /\ CallHandler(l.name, l.value)
    BY <1>4 DEF Pair
  <2>2. l.name \in Names /\ l.value \in Values
    BY LineFacts
  <2>3. /\ lost' \in {lost, lost \cup {e}} /\ cleared' \in {cleared, cleared \cup {e}}
        /\ QueueIsFileMeaning' /\ FirstErrorReported'
    BY <2>1, <2>2, CallMeans
  <2> QED BY <1>0, <1>4, <2>1, <2>3, Whole DEF Pair
<1>5. ASSUME NEW l \in Lines, Malformed(l) PROVE MInv'
  <2>1. Read(l) /\ ~Continues(l) /\ l.kind \in {"unclosed", "bare"}
    BY <1>5 DEF Malformed
  <2>2. QueueIsFileMeaning' /\ FirstErrorReported'
    BY <1>5, <2>1, OtherMeans DEF Malformed, ErrorIf
  <2> QED BY <1>0, <1>5, <2>1, <2>2, Whole DEF Malformed
<1>6. CASE UNCHANGED vars
  <2> USE <1>6 DEF vars
  <2>1. Histories'
    BY DEF MInv, Histories, Places, LinesOf
  <2>2. QueueIsFileMeaning'
    <3>1. errors \in Seq(ErrinjConf) /\ Meant(errors, LinesFor, EntryFor)
      BY MeaningAsFunctions DEF MInv, CInv, TypeOK
    <3>2. LinesFor' = LinesFor
      BY DEF LinesFor, LinesOf
    <3>3. EntryFor' = EntryFor
      BY DEF EntryFor, Meaning, Number, Setting, LinesOf, ValueOf
    <3>4. (errors \in Seq(ErrinjConf) =>
             (QueueIsFileMeaning <=> Meant(errors, LinesFor, EntryFor)))'
      BY MeaningAsFunctions, PTL
    <3>5. Meant(errors, LinesFor, EntryFor)'
      BY <3>1, <3>2, <3>3 DEF Meant
    <3> QED BY <3>1, <3>4, <3>5
  <2>3. FirstErrorReported'
    BY DEF MInv, FirstErrorReported, Erroneous
  <2> QED BY <1>0, <2>1, <2>2, <2>3 DEF MInv
<1> QED BY <1>1, <1>2, <1>3, <1>4, <1>5, <1>6 DEF Next

\* No file means an empty queue and no error.
LEMMA MeaningInit == Init => MInv
<1> SUFFICES ASSUME Init PROVE MInv
  OBVIOUS
<1>1. CInv
  <2>1. TypeOK
    BY IniConstants DEF IniConstants, Init, TypeOK
  <2> QED BY <2>1 DEF Init, CInv, OneEntryPerType
<1>2. Follows(lines, section, prev_name)
  BY FollowsInit DEF Init
<1>3. Len(lines) = 0 /\ \A type : LinesOf(lines, type) = {}
  BY DEF Init, LinesOf
<1>4. Histories
  BY <1>3 DEF Init, Histories, Places, Last
<1>5. QueueIsFileMeaning
  BY <1>3 DEF Init, QueueIsFileMeaning, Enabled
<1>6. FirstErrorReported
  BY DEF Init, FirstErrorReported
<1> QED BY <1>1, <1>2, <1>4, <1>5, <1>6 DEF MInv

\* At every line, for every file and every allocation that fails on the way, the
\* queue that conf_option_handler() has built is what the lines read so far mean
\* as a whole.
THEOREM QueueMeaning == Spec => []QueueIsFileMeaning
<1>1. MInv => QueueIsFileMeaning
  BY DEF MInv
<1> QED BY <1>1, MeaningInit, MeaningKept, PTL DEF Spec

\* The result of ini_parse_stream() is the first line that is an error, for
\* every file: whatever follows it, and whichever allocations fail.
THEOREM FirstError == Spec => []FirstErrorReported
<1>1. MInv => FirstErrorReported
  BY DEF MInv
<1> QED BY <1>1, MeaningInit, MeaningKept, PTL DEF Spec
============================================================================
