------------------------------- MODULE LogDedup -------------------------------
(***************************************************************************)
(* log_deduplication.py, which shortens the logs an agent asks for: passes *)
(* of growing block size, each of which drops a block that differs from    *)
(* the next one in timestamps only.  Timestamps are of one width, so that  *)
(* two blocks have them in the same places when their other text is equal. *)
(* A line is named by its number in the log, and a string, the lines       *)
(* joined to one, is the sequence of their numbers.                        *)
(***************************************************************************)
EXTENDS FiniteSets, Naturals, Sequences, SequencesExt

CONSTANTS
  Messages,  \* what is left of a line without its timestamp
  MaxLines,  \* lines of a log
  Untimed,   \* lines of a log that have no timestamp, at most
  Window     \* LOG_TRIM

LogAssumption == MaxLines \in Nat /\ Untimed \in Nat /\ Window \in Nat

VARIABLES
  raw,     \* the log as it was read
  result,  \* result: the strings the passes work on
  size     \* the block size of the next pass

vars == <<raw, result, size>>

Stamped(messages, stamped) ==
  [i \in DOMAIN messages |-> [msg |-> messages[i], timed |-> i \in stamped]]

Logs ==
  UNION {{Stamped(messages, stamped) :
            messages \in [1 .. n -> Messages],
            stamped \in {t \in SUBSET (1 .. n) : n - Cardinality(t) <= Untimed}} :
         n \in 0 .. MaxLines}

Text == FlattenSeq(result)
Shown == ToSet(Text)

Increasing(text) == \A j, k \in DOMAIN text : j < k => text[j] < text[k]

(* The text of a block, its timestamps replaced by spaces.                 *)
Masked(block) == [k \in DOMAIN block |-> raw[block[k]]]

TypeOK ==
  /\ raw \in Seq([msg : Messages, timed : BOOLEAN])
  /\ result \in Seq(Seq(DOMAIN raw))
  /\ size \in 1 .. Window + 1

Init ==
  /\ raw \in Logs
  /\ result = [i \in DOMAIN raw |-> <<i>>]
  /\ size = 1

make_blocks(strings, n) ==
  [b \in 1 .. (Len(strings) + n - 1) \div n |->
     FlattenSeq(SubSeq(strings, n * (b - 1) + 1,
                       IF n * b < Len(strings) THEN n * b ELSE Len(strings)))]

(* Both have timestamps, in the same places, and are equal without them.   *)
Repeats(last, block) ==
  /\ \E k \in DOMAIN block : raw[block[k]].timed
  /\ Masked(last) = Masked(block)

(* Mutation of Keep: the first of two blocks is kept.                      *)
KeepFirst(kept, block) ==
  IF kept # <<>> /\ Repeats(Last(kept), block) THEN kept ELSE Append(kept, block)

Keep(kept, block) ==
  IF kept # <<>> /\ Repeats(Last(kept), block)
  THEN Append(Front(kept), block)
  ELSE Append(kept, block)

(* kept[b] is the result of the loop once it has seen the first b blocks.  *)
greedy_compress_pass(strings, n) ==
  LET blocks == make_blocks(strings, n)
      kept[b \in 0 .. Len(blocks)] ==
        IF b = 0 THEN <<>> ELSE Keep(kept[b - 1], blocks[b])
  IN  kept[Len(blocks)]

(* The loop of greedy_compress_lines: a pass works on the strings that the *)
(* one before has made.  With LOG_TRIM at 0 there is none.                 *)
Pass ==
  /\ size <= Window
  /\ result' = greedy_compress_pass(result, size)
  /\ size' = size + 1
  /\ UNCHANGED raw

Next == Pass

Spec == Init /\ [][Next]_vars

-----------------------------------------------------------------------------
(* No message gets lost: each line of the log is shown, or a later one     *)
(* that says the same and has a timestamp if it has one.                   *)
EveryMessageKept ==
  LET shown == Shown IN
  \A i \in DOMAIN raw : \E j \in shown : raw[j] = raw[i] /\ j >= i

(* What is shown is in the order of the log, each line once.               *)
InOrder == Increasing(Text)

(* Lines that may be told apart only by their place are all shown: a log   *)
(* without timestamps is not shortened.                                    *)
UntimedKept == (\A i \in DOMAIN raw : ~raw[i].timed) => Shown = DOMAIN raw

(* A line, and two lines of which the first has an odd number, that the    *)
(* log repeats at once.                                                    *)
Repeated(i) == i + 1 \in DOMAIN raw /\ Repeats(<<i>>, <<i + 1>>)
RepeatedPair(i) ==
  i % 2 = 1 /\ i + 3 \in DOMAIN raw /\ Repeats(<<i, i + 1>>, <<i + 2, i + 3>>)

(* "Set it to a positive integer (window size in lines) to trim log blocks *)
(* that only differ in timestamps" (.env.example:59).  The first pass      *)
(* trims every line that the next one repeats; if there was none, so that  *)
(* the lines are still strings of their own, the second trims every two    *)
(* lines, of an odd number and the next, that the next two repeat.  No     *)
(* pass after these takes its size in lines: the third takes three of the  *)
(* strings of two lines at a time.                                         *)
RepetitionTrimmed ==
  LET shown == Shown IN
  /\ size > 1 => \A i \in DOMAIN raw : Repeated(i) => i \notin shown
  /\ size > 2 /\ (\A i \in DOMAIN raw : ~Repeated(i)) =>
       \A i \in DOMAIN raw : RepeatedPair(i) => i \notin shown /\ i + 1 \notin shown

(* The log loses its repetitions and nothing else, and gains nothing.      *)
TrimsRepetitionsOnly ==
  EveryMessageKept /\ InOrder /\ UntimedKept /\ RepetitionTrimmed

-----------------------------------------------------------------------------
(* The inductive invariant: what the text has of the properties holds of   *)
(* the strings, and until a pass finds a repetition the strings of the     *)
(* second are still the lines.                                             *)
Lines(strings) == UNION {ToSet(strings[s]) : s \in DOMAIN strings}

Ordered(strings) ==
  /\ \A s \in DOMAIN strings : Increasing(strings[s])
  /\ \A s, t \in DOMAIN strings :
       s < t => \A i \in ToSet(strings[s]), j \in ToSet(strings[t]) : i < j

Covers(lines, i) == \E j \in lines : raw[j] = raw[i] /\ j >= i

Single == [i \in DOMAIN raw |-> <<i>>]

IInv ==
  /\ TypeOK
  /\ Ordered(result)
  /\ \A i \in DOMAIN raw : Covers(Lines(result), i)
  /\ (\A i \in DOMAIN raw : ~raw[i].timed) => Lines(result) = DOMAIN raw
  /\ size > 1 => \A i \in DOMAIN raw : Repeated(i) => i \notin Lines(result)
  /\ (\A i \in DOMAIN raw : ~Repeated(i)) =>
       /\ size <= 2 => result = Single
       /\ size > 2 => \A i \in DOMAIN raw : RepeatedPair(i) =>
                        i \notin Lines(result) /\ i + 1 \notin Lines(result)
  /\ size = 1 => result = Single

=============================================================================
