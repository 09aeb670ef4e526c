------------------------------- MODULE Scoring -------------------------------
(***************************************************************************)
(* How a solution travels from the agent's submit() to its marks: parsing  *)
(* into positional and keyword arguments, ask_env, the task's submit       *)
(* action, the eval of the problem, and the judge that all evaluations of  *)
(* one process share.  Mitigation, which inspects the cluster, is modelled *)
(* in Mitigation.                                                          *)
(***************************************************************************)
EXTENDS Problems, Integers, Sequences, FiniteSets, SequencesExt

CONSTANTS
  Pool,         \* the problems to choose from
  Forms,        \* the ways of writing the arguments of submit()
  MaxSteps,     \* rounds of a dialogue
  MaxSessions,  \* bound on the problems run by one process
  Qualitative   \* qualitative_eval of the configuration

ScoringAssumption ==
  /\ Pool \subseteq Registered \ ProblemIds("mitigation")
  /\ Forms \subseteq {"positional", "empty", "twice", "keyword", "mixed"}
  /\ MaxSteps \in Nat \ {0}
  /\ MaxSessions \in Nat \ {0}
  /\ Qualitative \in BOOLEAN

-----------------------------------------------------------------------------
(* Python values.  "items" are the text of a string, the elements of a     *)
(* list, the two entries of a dictionary.  "#" is a value that is no text, *)
(* "[]" one that cannot be hashed either.                                  *)
Value(kind, items) == [kind |-> kind, items |-> items]
Str(s) == Value("str", <<s>>)
List(q) == Value("list", q)
Dict(level, type) == Value("dict", <<level, type>>)
Number == Value("int", <<"#">>)
None == Value("None", <<>>)

(* strip and lower, on the texts the agent is given to use here.           *)
Lower(s) ==
  CASE s \in {"Yes", "YES "} -> "yes"
    [] s = "No" -> "no"
    [] s = "application " -> "Application"
    [] OTHER -> s

Element(v) ==
  CASE v.kind = "str" -> v.items[1]
    [] v.kind \in {"list", "dict"} -> "[]"
    [] OTHER -> "#"

(* What the agent may write between the parentheses: positional values and *)
(* the number of keyword arguments the signature knows and does not know.  *)
(* A "mixed" call has both: submit("Yes", reason="x").                     *)
Arguments(form, v) ==
  LET call(args, known, unknown) ==
        [args |-> args, known |-> known, unknown |-> unknown]
  IN  CASE form = "positional" -> call(<<v>>, 0, 0)
        [] form = "empty"      -> call(<<>>, 0, 0)
        [] form = "twice"      -> call(<<v, v>>, 0, 0)
        [] form = "keyword"    -> call(<<>>, 1, 0)
        [] form = "mixed"      -> call(<<v>>, 0, 1)

(* What ask_env saves as the solution.                                     *)
Saved(args) ==
  IF Len(args) = 1 THEN args[1] ELSE List([i \in DOMAIN args |-> Element(args[i])])

(* The submit action of these tasks takes one argument.                    *)
Performs(call) == Len(call.args) + call.known = 1 /\ call.unknown = 0

-----------------------------------------------------------------------------
(* The evaluations.  An outcome has marks out of 100, whether it counts as *)
(* a success, and "raised" when an exception left eval.                    *)
Marks(n, success) == [marks |-> n, success |-> success, raised |-> FALSE]
Raised == [marks |-> 0, success |-> FALSE, raised |-> TRUE]
NotScored == [marks |-> -1, success |-> FALSE, raised |-> FALSE]

IsExactMatch(v, t) == v.kind \in {"str", "list"} /\ v.items = <<t>>

(* set(v) of a number or of unhashable elements raises; that of a string   *)
(* is a set of characters, that of a dictionary its keys.                  *)
SetRaises(v) == v.kind = "int" \/ (v.kind = "list" /\ "[]" \in ToSet(v.items))
IsSubset(t, v) == v.kind = "list" /\ t \in ToSet(v.items)

(* The target without the prefix mongodb-, where both are accepted.        *)
Alias(p) ==
  CASE p.family.alias /\ p.target = "mongodb-geo" -> {p.target, "geo"}
    [] p.family.alias /\ p.target = "mongodb-rate" -> {p.target, "rate"}
    [] OTHER -> {p.target}

(* Mutation of EvalDetection: every file expects what most of them do.     *)
EvalDetectionCopied(p, v) ==
  IF v.kind = "str" /\ Lower(v.items[1]) = "yes"
  THEN Marks(100, TRUE) ELSE Marks(0, FALSE)

EvalDetection(p, v) ==
  IF v.kind = "str" /\ Lower(v.items[1]) = p.family.answer
  THEN Marks(100, TRUE) ELSE Marks(0, FALSE)

(* Mutation of EvalLocalization: marks not divided by the names submitted. *)
EvalLocalizationGenerous(p, v) ==
  IF v = None THEN Marks(0, FALSE)
  ELSE IF SetRaises(v) THEN Raised
  ELSE IF \E t \in Alias(p) : IsExactMatch(v, t) \/ IsSubset(t, v)
       THEN Marks(100, TRUE) ELSE Marks(0, FALSE)

EvalLocalization(p, v) ==
  LET exact == \E t \in Alias(p) : IsExactMatch(v, t)
      sub   == \E t \in Alias(p) : IsSubset(t, v)
  IN  IF v = None THEN Marks(0, FALSE)
      ELSE IF SetRaises(v) THEN Raised
      ELSE IF exact THEN Marks(100, TRUE)
      ELSE IF sub THEN Marks(100 \div Len(v.items), Len(v.items) = 1)
      ELSE Marks(0, FALSE)

(* Mutation of EvalAnalysis: get() of what is no dictionary.               *)
EvalAnalysisUnchecked(p, v) ==
  IF v.kind # "dict" \/ \E i \in 1 .. 2 : v.items[i] = "#" THEN Raised
  ELSE IF \A i \in 1 .. 2 : Lower(v.items[i]) = p.family.cause[i]
       THEN Marks(100, TRUE) ELSE Marks(0, FALSE)

(* A missing entry is "", which no family expects; strip() of what is no   *)
(* text raises.                                                            *)
EvalAnalysis(p, v) ==
  IF v.kind # "dict" THEN Marks(0, FALSE)
  ELSE IF \E i \in 1 .. 2 : v.items[i] = "#" THEN Raised
  ELSE LET right == { i \in 1 .. 2 : Lower(v.items[i]) = p.family.cause[i] }
       IN  Marks(50 * Cardinality(right), Cardinality(right) = 2)

Eval(p, v) ==
  CASE p.task = "detection" -> EvalDetection(p, v)
    [] p.task = "localization" -> EvalLocalization(p, v)
    [] p.task = "analysis" -> EvalAnalysis(p, v)

(* What an agent may submit for a problem.                                 *)
DetectionAnswers == {Str("Yes"), Str("YES "), Str("No"), Number, None}

LocalizationAnswers(p) ==
  LET names == Alias(p) \union {"nginx-thrift"}
  IN  {Str(p.target), Number, None, List(<<>>), List(<<p.target, "[]">>)}
        \union {List(<<s>>) : s \in names}
        \union {List(q) : q \in names \X names}

AnalysisAnswers(p) ==
  LET levels == {"Application", "application ", "Virtualization", "#"}
      types  == {p.family.cause[2], "Code Defect", ""}
  IN  {Dict(q[1], q[2]) : q \in levels \X types} \union {Str("Application")}

Answers(p) ==
  CASE p.task = "detection" -> DetectionAnswers
    [] p.task = "localization" -> LocalizationAnswers(p)
    [] p.task = "analysis" -> AnalysisAnswers(p)

-----------------------------------------------------------------------------
VARIABLES
  session,      \* number of the session
  pc,           \* "idle", "dialogue" or "eval"
  problem,      \* session.problem
  rounds,       \* rounds of the dialogue so far
  solution,     \* session.solution
  accepted,     \* the last submission was performed
  intended,     \* the value the agent put into its last submission
  written,      \* the form of the last submission, "none" before it
  special,      \* the environment has answered with a special token
  outcome,      \* what eval came to
  fault,        \* "none", or the fault is "present" or "expired"
  prompted,     \* session whose trace SCORER_PROMPTS carries, 0 when fresh
  judged        \* session on whose trace the last judgement was made

dialogue == <<rounds, solution, accepted, intended, written, special>>
vars == <<session, pc, problem, dialogue, outcome, fault, prompted, judged>>

TypeOK ==
  /\ session \in 0 .. MaxSessions
  /\ pc \in {"idle", "dialogue", "eval"}
  /\ problem \in Pool
  /\ rounds \in 0 .. MaxSteps
  /\ {solution.kind, intended.kind} \subseteq {"str", "list", "dict", "int", "None"}
  /\ accepted \in BOOLEAN /\ special \in BOOLEAN
  /\ written \in Forms \union {"none"}
  /\ outcome = NotScored \/ outcome.marks \in 0 .. 100
  /\ fault \in {"none", "present", "expired"}
  /\ prompted \in 0 .. session
  /\ judged \in 0 .. session

Init ==
  /\ session = 0
  /\ pc = "idle"
  /\ problem \in Pool
  /\ rounds = 0 /\ solution = None /\ accepted = FALSE
  /\ intended = None /\ written = "none" /\ special = FALSE
  /\ outcome = NotScored
  /\ fault = "none"
  /\ prompted = 0
  /\ judged = 0

(* inject_fault puts one in, but for no_op and the generated problems,     *)
(* whose type names no fault of the injector, which only says so.          *)
FaultIn(p) == IF p.family.fault \in {"no_op", "app_misconfig"} THEN "none" ELSE "present"

(* Mutation of Begin: the session's solution is the last one.              *)
BeginWithLastSolution(p) ==
  /\ pc = "idle" /\ session < MaxSessions
  /\ session' = session + 1
  /\ pc' = "dialogue"
  /\ problem' = p
  /\ rounds' = 0 /\ accepted' = FALSE
  /\ intended' = None /\ written' = "none" /\ special' = FALSE
  /\ outcome' = NotScored
  /\ fault' = FaultIn(p)
  /\ UNCHANGED <<solution, prompted, judged>>

(* init_problem: a new session, its fault put in.                          *)
Begin(p) ==
  /\ pc = "idle" /\ session < MaxSessions
  /\ session' = session + 1
  /\ pc' = "dialogue"
  /\ problem' = p
  /\ rounds' = 0 /\ solution' = None /\ accepted' = FALSE
  /\ intended' = None /\ written' = "none" /\ special' = FALSE
  /\ outcome' = NotScored
  /\ fault' = FaultIn(p)
  /\ UNCHANGED <<prompted, judged>>

(* Mutation of Round: no last step.                                        *)
RoundUnbounded(valid) ==
  /\ pc = "dialogue"
  /\ rounds' = rounds + 1
  /\ accepted' = valid
  /\ pc' = IF valid THEN "eval" ELSE "dialogue"
  /\ UNCHANGED <<session, problem, outcome, fault, prompted, judged>>

(* A round is over; the dialogue ends with a valid submission or with the  *)
(* last step.                                                              *)
Round(valid) ==
  /\ pc = "dialogue"
  /\ rounds' = rounds + 1
  /\ accepted' = valid
  /\ pc' = IF valid \/ rounds' = MaxSteps THEN "eval" ELSE "dialogue"
  /\ UNCHANGED <<session, problem, outcome, fault, prompted, judged>>

(* Anything but submit(): another API, or a response that does not parse.  *)
(* What the environment answers may have a special token of the tokenizer  *)
(* in it, such as the API name it repeats.                                 *)
Work ==
  /\ Round(FALSE)
  /\ \E found \in BOOLEAN : special' = (special \/ found)
  /\ UNCHANGED <<solution, intended, written>>

(* ask_env with a call of submit(): the solution is saved before the call  *)
(* is performed, and a call that is refused leaves it.                     *)
Submit(form, v) ==
  LET call == Arguments(form, v)
  IN  /\ Round(Performs(call))
      /\ solution' = Saved(call.args)
      /\ intended' = v
      /\ written' = form
      /\ UNCHANGED special

(* Chaos Mesh ends an experiment whose duration is over.                   *)
Expire ==
  /\ pc # "idle"
  /\ fault = "present" /\ problem.family.lasts = "limited"
  /\ fault' = "expired"
  /\ UNCHANGED <<session, pc, problem, dialogue, outcome, prompted, judged>>

(* eval: the comparison, and common_eval, which counts the tokens of the   *)
(* environment's text, raising at a special one, and asks the judge if one *)
(* is configured.                                                          *)
(* The prompt is formatted in place; where it carries a trace already,     *)
(* there is nothing left to format and the judge sees that trace again.    *)
Evaluate ==
  /\ pc = "eval"
  /\ pc' = "idle"
  /\ outcome' = IF special THEN Raised ELSE Eval(problem, solution)
  /\ IF Qualitative /\ ~outcome'.raised
     THEN /\ prompted' = IF prompted = 0 THEN session ELSE prompted
          /\ judged' = prompted'
     ELSE UNCHANGED <<prompted, judged>>
  /\ UNCHANGED <<session, problem, dialogue, fault>>

(* Formatting a prompt that carries a trace with braces raises, and so may *)
(* the judge's model.                                                      *)
JudgeRaises ==
  /\ pc = "eval" /\ Qualitative /\ ~special
  /\ ~Eval(problem, solution).raised
  /\ pc' = "idle"
  /\ outcome' = Raised
  /\ prompted' = IF prompted = 0 THEN session ELSE prompted
  /\ UNCHANGED <<session, problem, dialogue, fault, judged>>

Next ==
  \/ \E p \in Pool : Begin(p)
  \/ Work
  \/ \E form \in Forms : \E v \in Answers(problem) : Submit(form, v)
  \/ Expire
  \/ Evaluate
  \/ JudgeRaises

Spec == Init /\ [][Next]_vars

-----------------------------------------------------------------------------
Scored == outcome # NotScored /\ ~outcome.raised

(* The names a solution puts forward, and whether they are the fault's.    *)
Named(v) == IF v.kind \in {"str", "list"} THEN ToSet(v.items) ELSE {}

(* Marks: a success names the fault and nothing else, part marks mean that *)
(* the fault is among what was named, and no marks that it is not; an      *)
(* analysis is a success when both entries are right.                      *)
MarksMatchAnswer ==
  LET found == Named(solution) \intersect Alias(problem) # {}
  IN  /\ Scored /\ problem.task = "localization" =>
           /\ outcome.success <=> found /\ Len(solution.items) = 1
           /\ outcome.success <=> outcome.marks = 100
           /\ found <=> outcome.marks > 0
      /\ Scored /\ problem.task = "analysis" =>
           (outcome.success <=>
              /\ solution.kind = "dict"
              /\ Lower(solution.items[1]) = problem.family.cause[1]
              /\ solution.items[2] = problem.family.cause[2])

(* A submission that was refused, or none at all, is never a success,      *)
(* although the refused one has replaced the solution that is scored; but  *)
(* a refused one that was mixed is scored on its positional value.         *)
OnlyAcceptedSucceeds == Scored /\ outcome.success => accepted \/ written = "mixed"

(* "if submit, save solution for eval" (orchestrator.py:125): a submission *)
(* that was accepted is scored on the value it was given, unless it named  *)
(* its argument, submit(has_anomaly="Yes"): then on the empty list.        *)
ScoredAsSubmitted ==
  Scored /\ (accepted \/ written = "mixed") =>
    solution = IF written = "keyword" THEN List(<<>>) ELSE intended

(* The submission that was accepted decides, and no other; but for a call  *)
(* with a keyword too many, which is refused and decides all the same.     *)
SubmissionDecides == OnlyAcceptedSucceeds /\ ScoredAsSubmitted

(* eval raises for a localization that is no collection of names, for an   *)
(* analysis whose entries are no text, for a special token in what the     *)
(* environment has answered, whatever the task, or in the judge; never     *)
(* otherwise.                                                              *)
RaisesExplained ==
  outcome.raised =>
    \/ special
    \/ Qualitative
    \/ problem.task = "localization"
         /\ (solution.kind = "int" \/ "[]" \in ToSet(solution.items))
    \/ problem.task = "analysis" /\ "#" \in ToSet(solution.items)

(* A detection is marked by what is in the cluster, as long as the         *)
(* experiment lasts; but for the generated ones, where "yes" is right and  *)
(* nothing is there.                                                       *)
TruthfulWhileItLasts ==
  Scored /\ problem.task = "detection" /\ fault # "expired" /\ solution.kind = "str" =>
    (outcome.success <=>
       (Lower(solution.items[1]) = "yes")
         = (fault = "present" \/ problem.family.fault = "app_misconfig"))

(* "Generate a 1-10 score based on the agent's response to a task"         *)
(* (qualitative.py:27): the judge scores this session's trace.             *)
JudgedOnOwnTrace ==
  [][pc = "eval" /\ pc' = "idle" /\ Qualitative /\ ~outcome'.raised
       => judged' = session]_vars

-----------------------------------------------------------------------------
(* The inductive invariant.  What is scored is the value of the submission *)
(* that was accepted, or of one that was mixed, or else one that no eval   *)
(* takes for right; the marks are those of that value; a problem has its   *)
(* fault; and a dialogue that goes on has rounds left and nothing accepted.*)
Refusable(v) ==
  \/ v \in {None, List(<<>>)}
  \/ v.kind = "list" /\ v.items = <<v.items[1], v.items[2]>>

SolutionOf ==
  IF accepted \/ written = "mixed"
  THEN /\ intended \in Answers(problem)
       /\ solution = IF written = "keyword" THEN List(<<>>) ELSE intended
  ELSE Refusable(solution)

OutcomeOf ==
  /\ outcome = NotScored \/ outcome = Eval(problem, solution)
       \/ ((Qualitative \/ special) /\ outcome = Raised)
  /\ outcome # NotScored => pc = "idle"

FaultOf ==
  pc # "idle" \/ outcome # NotScored =>
    (fault = "none" <=> FaultIn(problem) = "none")

StillOpen == pc = "dialogue" => rounds < MaxSteps /\ ~accepted

IInv == TypeOK /\ SolutionOf /\ OutcomeOf /\ FaultOf /\ StillOpen

=============================================================================
