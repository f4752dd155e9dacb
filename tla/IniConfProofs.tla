--------------------------- MODULE IniConfProofs ---------------------------
(***************************************************************************)
(* The queue that unreliablefs.conf becomes, for files of any length and   *)
(* any lines.                                                              *)
(***************************************************************************)
EXTENDS IniConf, TLAPS

CInv == TypeOK /\ OneEntryPerType

\* A freshly allocated entry is well formed.
LEMMA NewConfType ==
    ASSUME NEW type \in errinj_name
    PROVE  NewConf(type) \in ErrinjConf /\ NewConf(type).type = type
BY IniConstants DEF IniConstants, NewConf, ErrinjConf

\* Setting an option keeps an entry well formed, and its type.
LEMMA SetOptionType ==
    ASSUME NEW e \in ErrinjConf, NEW key \in Names, NEW value \in Values \cup {NULL},
           value = NULL => key \in string_option
    PROVE  SetOption(e, key, value) \in ErrinjConf /\ SetOption(e, key, value).type = e.type
<1>1. value # NULL => Unsigned(atoi[value]) \in 0 .. UINT - 1
  BY IniConstants DEF IniConstants, Unsigned
<1> USE DEF string_option
<1>2. CASE key = "path_regexp"
  BY <1>2 DEF SetOption, ErrinjConf
<1>3. CASE key = "op_regexp"
  BY <1>3 DEF SetOption, ErrinjConf
<1>4. CASE key = "probability"
  BY <1>1, <1>4 DEF SetOption, ErrinjConf
<1>5. CASE key = "duration"
  BY <1>1, <1>5 DEF SetOption, ErrinjConf
<1>6. CASE key \notin option_name
  BY <1>6 DEF SetOption, option_name
<1> QED BY <1>2, <1>3, <1>4, <1>5, <1>6 DEF option_name

\* No two entries of a queue have the same type.
Distinct(queue) == \A i, j \in DOMAIN queue : queue[i].type = queue[j].type => i = j

\* The queue has grown at its tail, if at all.
Extends(new, old) ==
    \A i \in DOMAIN old : i \in DOMAIN new /\ new[i].type = old[i].type

\* TAILQ_INSERT_TAIL happens only when the walk has not found the type.
LEMMA EnableFacts ==
    ASSUME NEW queue \in Seq(ErrinjConf), Distinct(queue), NEW type \in errinj_name
    PROVE  /\ Enable(queue, type) \in Seq(ErrinjConf)
           /\ Distinct(Enable(queue, type))
           /\ Extends(Enable(queue, type), queue)
<1>1. CASE Enabled(queue, type)
  BY <1>1 DEF Enable, Extends
<1>2. CASE ~Enabled(queue, type)
  <2> DEFINE new == Append(queue, NewConf(type))
  <2>1. new \in Seq(ErrinjConf) /\ Len(new) = Len(queue) + 1
    BY NewConfType
  <2>2. \A i \in DOMAIN queue : i \in DOMAIN new /\ new[i] = queue[i]
    BY NewConfType
  <2>3. new[Len(queue) + 1].type = type
    BY NewConfType
  <2>4. \A i \in DOMAIN new : i \in DOMAIN queue \/ i = Len(queue) + 1
    BY <2>1
  <2>5. \A i \in DOMAIN queue : new[i].type # type
    BY <1>2, <2>2 DEF Enabled
  <2>6. Distinct(new)
    BY <2>2, <2>3, <2>4, <2>5 DEF Distinct
  <2>7. Extends(new, queue)
    BY <2>2 DEF Extends
  <2> QED BY <1>2, <2>1, <2>6, <2>7 DEF Enable
<1> QED BY <1>1, <1>2

\* One call of conf_option_handler().
LEMMA HandlerFacts ==
    ASSUME NEW queue \in Seq(ErrinjConf), Distinct(queue),
           NEW sec \in Names, NEW key \in Names, NEW value \in Values \cup {NULL},
           value = NULL => key \in string_option
    PROVE  /\ HandlerQueue(queue, sec, key, value) \in Seq(ErrinjConf)
           /\ Distinct(HandlerQueue(queue, sec, key, value))
           /\ Extends(HandlerQueue(queue, sec, key, value), queue)
<1>1. CASE sec \notin errinj_name
  BY <1>1 DEF HandlerQueue, Extends
<1>2. CASE sec \in errinj_name
  <2> DEFINE enabled == Enable(queue, sec)
             new == [i \in DOMAIN enabled |->
                       IF enabled[i].type = sec THEN SetOption(enabled[i], key, value)
                                                ELSE enabled[i]]
  <2>1. HandlerQueue(queue, sec, key, value) = new
    BY <1>2 DEF HandlerQueue
  <2>2. /\ enabled \in Seq(ErrinjConf) /\ Distinct(enabled) /\ Extends(enabled, queue)
    BY <1>2, EnableFacts
  <2> HIDE DEF enabled
  <2>3. DOMAIN new = DOMAIN enabled
    OBVIOUS
  <2>4. \A i \in DOMAIN enabled : new[i] \in ErrinjConf /\ new[i].type = enabled[i].type
    BY <2>2, SetOptionType
  <2>5. new \in Seq(ErrinjConf)
    <3>1. DOMAIN new = 1 .. Len(enabled) /\ Len(enabled) \in Nat
      BY <2>2, <2>3
    <3> QED BY <2>3, <2>4, <3>1
  <2> HIDE DEF new
  <2>6. Distinct(new)
    BY <2>2, <2>3, <2>4 DEF Distinct
  <2>7. Extends(new, queue)
    BY <2>2, <2>3, <2>4 DEF Extends
  <2> QED BY <2>1, <2>5, <2>6, <2>7
<1> QED BY <1>1, <1>2

\* What a line may hold.
LEMMA LineFacts ==
    ASSUME NEW l \in Lines
    PROVE  l.name \in Names /\ l.value \in Values /\ l.text \in Values
BY IniConstants DEF IniConstants, Line

\* ErrorIf() stores a line number.
LEMMA ErrorType ==
    ASSUME CInv, NEW failed \in BOOLEAN, ErrorIf(failed)
    PROVE  error' \in Nat
<1>1. Len(lines) \in Nat /\ error \in Nat
  BY DEF CInv, TypeOK
<1>2. error' = Len(lines) + 1 \/ error' = error
  BY DEF ErrorIf
<1> QED BY <1>1, <1>2

\* A line that reaches the handler leaves a well-formed queue.
LEMMA CallStep ==
    ASSUME CInv, NEW l \in Lines, NEW key \in Names, NEW value \in Values,
           Read(l), CallHandler(key, value)
    PROVE  /\ errors' \in Seq(ErrinjConf) /\ Distinct(errors') /\ Extends(errors', errors)
           /\ error' \in Nat /\ lines' \in Seq(Lines)
           /\ lost' \subseteq Nat /\ cleared' \subseteq Nat
<1>1. Distinct(errors)
  BY DEF CInv, OneEntryPerType, Distinct
<1>2. /\ errors \in Seq(ErrinjConf) /\ section \in Names /\ error \in Nat
      /\ lost \subseteq Nat /\ cleared \subseteq Nat /\ Len(lines) + 1 \in Nat
  BY DEF CInv, TypeOK
<1>3. lines' \in Seq(Lines)
  BY DEF CInv, TypeOK, Read
<1>4. CASE HandlerReturns(key, value)
  <2>1. value # NULL
    BY IniConstants DEF IniConstants
  <2>2. errors' \in Seq(ErrinjConf) /\ Distinct(errors') /\ Extends(errors', errors)
    BY <1>1, <1>2, <1>4, <2>1, HandlerFacts DEF HandlerReturns
  <2>3. error' \in Nat
    BY <1>4, ErrorType DEF HandlerReturns, HandlerFails
  <2> QED BY <1>2, <1>3, <1>4, <2>2, <2>3 DEF HandlerReturns
<1>5. CASE CallocFails
  BY <1>1, <1>2, <1>3, <1>5 DEF CallocFails, Extends
<1>6. CASE StrdupFails(key)
  <2>1. errors' \in Seq(ErrinjConf) /\ Distinct(errors') /\ Extends(errors', errors)
    BY <1>1, <1>2, <1>6, HandlerFacts DEF StrdupFails
  <2> QED BY <1>2, <1>3, <1>6, <2>1 DEF StrdupFails
<1> QED BY <1>4, <1>5, <1>6 DEF CallHandler

\* Every kind of line keeps the invariant, and the entries there are.
LEMMA LineStep == CInv /\ [Next]_vars => CInv' /\ Extends(errors', errors)
<1> SUFFICES ASSUME CInv, [Next]_vars PROVE CInv' /\ Extends(errors', errors)
  OBVIOUS
<1> USE DEF TypeOK
<1>0. CInv /\ Extends(errors, errors)
  BY DEF Extends
<1>1. ASSUME NEW l \in Lines, Comment(l) PROVE CInv' /\ Extends(errors', errors)
  BY <1>0, <1>1 DEF Comment, Read, CInv, OneEntryPerType
<1>2. ASSUME NEW l \in Lines, Continuation(l) PROVE CInv' /\ Extends(errors', errors)
  <2>1. prev_name \in Names /\ l.text \in Values
    BY <1>0, LineFacts DEF CInv
  <2>2. /\ errors' \in Seq(ErrinjConf) /\ Distinct(errors') /\ Extends(errors', errors)
        /\ error' \in Nat /\ lines' \in Seq(Lines)
        /\ lost' \subseteq Nat /\ cleared' \subseteq Nat
    BY <1>0, <1>2, <2>1, CallStep DEF Continuation
  <2> QED BY <1>0, <1>2, <2>2 DEF Continuation, CInv, OneEntryPerType, Distinct
<1>3. ASSUME NEW l \in Lines, SectionLine(l) PROVE CInv' /\ Extends(errors', errors)
  BY <1>0, <1>3, LineFacts, IniConstants DEF IniConstants, SectionLine, Read, CInv, OneEntryPerType
<1>4. ASSUME NEW l \in Lines, Pair(l) PROVE CInv' /\ Extends(errors', errors)
  <2>1. l.name \in Names /\ l.value \in Values
    BY LineFacts
  <2>2. /\ errors' \in Seq(ErrinjConf) /\ Distinct(errors') /\ Extends(errors', errors)
        /\ error' \in Nat /\ lines' \in Seq(Lines)
        /\ lost' \subseteq Nat /\ cleared' \subseteq Nat
    BY <1>0, <1>4, <2>1, CallStep DEF Pair
  <2> QED BY <1>0, <1>4, <2>1, <2>2 DEF Pair, CInv, OneEntryPerType, Distinct
<1>5. ASSUME NEW l \in Lines, Malformed(l) PROVE CInv' /\ Extends(errors', errors)
  <2>1. error' \in Nat
    BY <1>0, <1>5, ErrorType DEF Malformed
  <2> QED BY <1>0, <1>5, <2>1 DEF Malformed, Read, CInv, OneEntryPerType
<1>6. CASE UNCHANGED vars
  BY <1>0, <1>6 DEF vars, CInv, OneEntryPerType
<1> QED BY <1>1, <1>2, <1>3, <1>4, <1>5, <1>6 DEF Next

\* The inductive invariant of the parser holds throughout.
THEOREM CInvariance == Spec => []CInv
<1>1. Init => CInv
  <2>1. Init => TypeOK
    BY IniConstants DEF IniConstants, Init, TypeOK
  <2>2. Init => OneEntryPerType
    BY DEF Init, OneEntryPerType
  <2> QED BY <2>1, <2>2 DEF CInv
<1>2. CInv /\ [Next]_vars => CInv'
  BY LineStep
<1> QED BY <1>1, <1>2, PTL DEF Spec

\* Locals and queue keep their types: numbers stay within an unsigned int.
THEOREM TypeCorrect == Spec => []TypeOK
<1>1. CInv => TypeOK
  BY DEF CInv
<1> QED BY <1>1, CInvariance, PTL

\* However often a section is opened, conf_option_handler() makes one entry.
THEOREM OneEntry == Spec => []OneEntryPerType
<1>1. CInv => OneEntryPerType
  BY DEF CInv
<1> QED BY <1>1, CInvariance, PTL

\* No line of the file drops or moves an injection that is enabled.
THEOREM StayingEntries == Spec => EntriesStay
<1>1. CInv /\ [Next]_vars =>
        [\A i \in DOMAIN errors :
            i \in DOMAIN errors' /\ errors'[i].type = errors[i].type]_vars
  BY LineStep DEF Extends
<1> QED BY <1>1, CInvariance, PTL DEF Spec, EntriesStay
============================================================================
