------------------------------ MODULE IniConf ------------------------------
(***************************************************************************)
(* How unreliablefs.conf becomes a queue of error injections:              *)
(* ini_parse_stream() of conf.c, line by line, calling                     *)
(* conf_option_handler() of unreliablefs_errinj.c.                         *)
(*                                                                         *)
(* A line is what one call of the reader returns, stripped of white space  *)
(* and inline comments and classified; only whether it was indented is     *)
(* kept of its layout.  A line longer than INI_MAX_LINE reaches the parser *)
(* as several of these.                                                    *)
(***************************************************************************)
EXTENDS Integers, Sequences, FiniteSets

CONSTANTS
    Lines,       \* lines a file may hold, a subset of Line
    Names,       \* names of sections and options in files, the empty one too
    Values,      \* option values: strings
    atoi,        \* atoi[v]: what atoi() makes of value v
    UINT,        \* number of values of an unsigned int
    NULL,        \* absent string
    MaxLines,    \* bound: length of the file
    MaxFailures  \* bound: allocations that fail

\* errinj_name[]; every other section name is unsupported.
errinj_name == {"errinj_errno", "errinj_kill_caller", "errinj_noop",
                "errinj_slowdown"}

option_name == {"path_regexp", "op_regexp", "probability", "duration"}

\* The options that conf_option_handler() copies with strdup().
string_option == {"path_regexp", "op_regexp"}

\* The empty string: no section, no name.
Empty == ""

\* A blank line counts as a comment: strchr() finds the terminating NUL.
\* "unclosed" is a section line without "]", "bare" a line without "=" or ":".
\* text is the line as a whole, the value it has as a continuation line.
Line == [kind : {"comment", "section", "unclosed", "pair", "bare"},
         indent : BOOLEAN,
         name : Names,
         value : Values,
         text : Values]

\* struct errinj_conf.
ErrinjConf == [type : errinj_name,
               path_regexp : {NULL} \cup Values,
               op_regexp : {NULL} \cup Values,
               probability : 0 .. UINT - 1,
               duration : 0 .. UINT - 1]

ASSUME IniConstants ==
    /\ Lines \subseteq Line
    /\ Empty \in Names
    /\ UINT \in Nat \ {0}
    /\ MaxLines \in Nat
    /\ MaxFailures \in Nat
    /\ \A v \in Values : atoi[v] \in Int
    /\ NULL \notin Values
----------------------------------------------------------------------------
VARIABLES
    lines,      \* the lines read so far; lineno is its length
    section,    \* local section of ini_parse_stream(), "" before the first
    prev_name,  \* local prev_name: "" or the name of the last pair
    error,      \* local error: line number of the first error, or 0
    errors,     \* the queue, from first to last
    lost,       \* history: lines whose entry calloc() has not made
    cleared     \* history: lines whose value strdup() has not copied

vars == <<lines, section, prev_name, error, errors, lost, cleared>>

TypeOK ==
    /\ lines \in Seq(Lines)
    /\ section \in Names
    /\ prev_name \in Names
    /\ error \in Nat
    /\ errors \in Seq(ErrinjConf)
    /\ lost \subseteq Nat
    /\ cleared \subseteq Nat

Init ==
    /\ lines = <<>>
    /\ section = Empty
    /\ prev_name = Empty
    /\ error = 0
    /\ errors = <<>>
    /\ lost = {}
    /\ cleared = {}
----------------------------------------------------------------------------
(* conf_option_handler()                                                   *)

\* The entry calloc() makes.
NewConf(type) ==
    [type |-> type, path_regexp |-> NULL, op_regexp |-> NULL,
     probability |-> 0, duration |-> 0]

\* The entry of this type is in the queue.
Enabled(queue, type) == \E i \in DOMAIN queue : queue[i].type = type

\* Deviations: a second entry for a section that is opened again, and insertion
\* at the head.
EnableAlways(queue, type) == Append(queue, NewConf(type))
EnableAtHead(queue, type) ==
    IF Enabled(queue, type) THEN queue ELSE <<NewConf(type)>> \o queue

\* Insert the entry at the tail unless there is one.
Enable(queue, type) ==
    IF Enabled(queue, type) THEN queue ELSE Append(queue, NewConf(type))

\* Deviation: the number is stored as it is.
UnsignedNot(n) == n

\* int to unsigned int.
Unsigned(n) == n % UINT

SetOption(e, key, value) ==
    CASE key = "path_regexp" -> [e EXCEPT !.path_regexp = value]
      [] key = "op_regexp"   -> [e EXCEPT !.op_regexp = value]
      [] key = "probability" -> [e EXCEPT !.probability = Unsigned(atoi[value])]
      [] key = "duration"    -> [e EXCEPT !.duration = Unsigned(atoi[value])]
      [] OTHER -> e

\* The queue after one call.  A section errinj_type_by_name() does not know
\* changes nothing; an unknown option still enables the entry.
HandlerQueue(queue, sec, key, value) ==
    IF sec \notin errinj_name
      THEN queue
      ELSE LET enabled == Enable(queue, sec)
           IN  [i \in DOMAIN enabled |->
                  IF enabled[i].type = sec
                    THEN SetOption(enabled[i], key, value)
                    ELSE enabled[i]]

\* The call returns 0, the only result ini_parse_stream() takes for an error.
\* An unsupported section returns -1, which is not 0.
HandlerFails(sec, key) == sec \in errinj_name /\ key \notin option_name
----------------------------------------------------------------------------
(* ini_parse_stream(): one action per kind of line                         *)

\* Deviation: the last error is kept.
LastErrorIf(failed) == error' = IF failed THEN Len(lines) + 1 ELSE error

\* Only the first error is kept.
ErrorIf(failed) ==
    error' = IF failed /\ error = 0 THEN Len(lines) + 1 ELSE error

\* The handler runs to its end with the current section.
HandlerReturns(key, value) ==
    /\ errors' = HandlerQueue(errors, section, key, value)
    /\ ErrorIf(HandlerFails(section, key))
    /\ UNCHANGED <<lost, cleared>>

\* One more allocation may fail.
MayFail == Cardinality(lost \cup cleared) < MaxFailures

\* calloc() has no memory for the entry: the result is -1, which is not 0, and
\* the option is forgotten.
CallocFails ==
    /\ MayFail
    /\ section \in errinj_name
    /\ ~Enabled(errors, section)
    /\ lost' = lost \cup {Len(lines) + 1}
    /\ UNCHANGED <<error, errors, cleared>>

\* strdup() has no memory for the value: the old one is already freed, the entry
\* has none, which matches everything, and the result is 1.
StrdupFails(key) ==
    /\ MayFail
    /\ section \in errinj_name
    /\ key \in string_option
    /\ errors' = HandlerQueue(errors, section, key, NULL)
    /\ cleared' = cleared \cup {Len(lines) + 1}
    /\ UNCHANGED <<error, lost>>

CallHandler(key, value) ==
    \/ HandlerReturns(key, value)
    \/ CallocFails
    \/ StrdupFails(key)

Read(l) ==
    /\ Len(lines) < MaxLines
    /\ lines' = Append(lines, l)

\* A non-blank indented line after a pair gives that pair a new value.
Continues(l) == l.kind # "comment" /\ l.indent /\ prev_name # Empty

Comment(l) ==
    /\ l.kind = "comment"
    /\ Read(l)
    /\ UNCHANGED <<section, prev_name, error, errors, lost, cleared>>

Continuation(l) ==
    /\ Continues(l)
    /\ Read(l)
    /\ CallHandler(prev_name, l.text)
    /\ UNCHANGED <<section, prev_name>>

\* Deviation: prev_name is not reset.
SectionKeepsName(l) ==
    /\ l.kind = "section" /\ ~Continues(l)
    /\ Read(l)
    /\ section' = l.name
    /\ UNCHANGED <<prev_name, error, errors, lost, cleared>>

SectionLine(l) ==
    /\ l.kind = "section" /\ ~Continues(l)
    /\ Read(l)
    /\ section' = l.name
    /\ prev_name' = Empty
    /\ UNCHANGED <<error, errors, lost, cleared>>

Pair(l) ==
    /\ l.kind = "pair" /\ ~Continues(l)
    /\ Read(l)
    /\ prev_name' = l.name
    /\ CallHandler(l.name, l.value)
    /\ UNCHANGED section

\* No "]" on a section line, or no "=" on another: an error, nothing else.
Malformed(l) ==
    /\ l.kind \in {"unclosed", "bare"} /\ ~Continues(l)
    /\ Read(l)
    /\ ErrorIf(TRUE)
    /\ UNCHANGED <<section, prev_name, errors, lost, cleared>>

Next ==
    \E l \in Lines :
        \/ Comment(l)
        \/ Continuation(l)
        \/ SectionLine(l)
        \/ Pair(l)
        \/ Malformed(l)

Spec == Init /\ [][Next]_vars
----------------------------------------------------------------------------
(* What the file means, read as a whole                                    *)

\* The last element of a set of line numbers, 0 if there is none.
Last(S) == IF S = {} THEN 0 ELSE CHOOSE m \in S : \A n \in S : n <= m

\* The last line in front of line i that no option can be continued across: a
\* plain section line, or a plain pair with an empty name.
LastReset(ls, i) ==
    Last({j \in 1 .. i - 1 :
            /\ ~ls[j].indent
            /\ ls[j].kind = "section" \/ (ls[j].kind = "pair" /\ ls[j].name = Empty)})

\* Line i continues an option: it is indented and an option stands between the
\* last reset and it.
Continued(ls, i) ==
    /\ ls[i].kind # "comment"
    /\ ls[i].indent
    /\ \E j \in 1 .. i - 1 :
         j > LastReset(ls, i) /\ ls[j].kind = "pair" /\ ls[j].name # Empty

\* The section line and the option line in force at line i.
Header(ls, i) == Last({j \in 1 .. i - 1 : ls[j].kind = "section" /\ ~Continued(ls, j)})
Option(ls, i) == Last({j \in 1 .. i - 1 : ls[j].kind = "pair" /\ ~Continued(ls, j)})

SectionOf(ls, i) == IF Header(ls, i) = 0 THEN Empty ELSE ls[Header(ls, i)].name

\* Lines that set an option, which one, and to what.
Assigns(ls, i) == ls[i].kind = "pair" \/ Continued(ls, i)
KeyOf(ls, i) == IF Continued(ls, i) THEN ls[Option(ls, i)].name ELSE ls[i].name
ValueOf(ls, i) ==
    IF i \in cleared
      THEN NULL
      ELSE IF Continued(ls, i) THEN ls[i].text ELSE ls[i].value

\* The lines that configure this type of injection.
LinesOf(ls, type) ==
    {i \in 1 .. Len(ls) : Assigns(ls, i) /\ i \notin lost /\ SectionOf(ls, i) = type}

\* The value the file gives to an option of this type, or the default.
Setting(ls, type, key, default) ==
    LET last == Last({i \in LinesOf(ls, type) : KeyOf(ls, i) = key})
    IN  IF last = 0 THEN default ELSE ValueOf(ls, last)

Number(ls, type, key) ==
    LET v == Setting(ls, type, key, NULL)
    IN  IF v = NULL THEN 0 ELSE Unsigned(atoi[v])

\* The configuration the whole file stands for: one entry for each type that
\* some line configures, with the last value given to each option, wherever in
\* the file that is, in the order of the first line of each type.  An allocation
\* that fails affects its own line alone: calloc() loses the line, and strdup()
\* leaves the option without a value, which matches everything.
QueueIsFileMeaning ==
    /\ \A type \in errinj_name : Enabled(errors, type) <=> LinesOf(lines, type) # {}
    /\ \A i \in DOMAIN errors :
         errors[i] =
           [type |-> errors[i].type,
            path_regexp |-> Setting(lines, errors[i].type, "path_regexp", NULL),
            op_regexp |-> Setting(lines, errors[i].type, "op_regexp", NULL),
            probability |-> Number(lines, errors[i].type, "probability"),
            duration |-> Number(lines, errors[i].type, "duration")]
    /\ \A i, j \in DOMAIN errors : i < j =>
         \E n \in LinesOf(lines, errors[i].type) :
            \A m \in LinesOf(lines, errors[j].type) : n < m

\* Each type has one entry, however often its section is opened: an operation
\* meets each injection once, and config_delete() frees each option once.
OneEntryPerType ==
    \A i, j \in DOMAIN errors : errors[i].type = errors[j].type => i = j

\* Lines that are an error.
Erroneous(ls, i) ==
    \/ ls[i].kind \in {"unclosed", "bare"} /\ ~Continued(ls, i)
    \/ Assigns(ls, i) /\ i \notin lost /\ HandlerFails(SectionOf(ls, i), KeyOf(ls, i))

\* conf.h: "line number of first error on parse error (doesn't stop on first
\* error)".  A failing allocation is no error, and hides the error of its line.
FirstErrorReported ==
    /\ error = 0 => \A i \in DOMAIN lines : ~Erroneous(lines, i)
    /\ error # 0 => /\ error \in DOMAIN lines
                    /\ Erroneous(lines, error)
                    /\ \A i \in 1 .. error - 1 : ~Erroneous(lines, i)

\* The queue only grows, at its tail: a later line never drops an injection
\* that an earlier one has enabled, nor moves it.
EntriesStay ==
    [][\A i \in DOMAIN errors :
          i \in DOMAIN errors' /\ errors'[i].type = errors[i].type]_vars
============================================================================
