----------------------------- MODULE Expressions -----------------------------
(* The declarative expressions that nodes calculate with (dag/expression.py), the amounts with a *)
(* doubt that pass through them (dag/measurement.py), and the errors of attempts                *)
(* (dag/attempt.py).  An expression is a sequence of steps, each over earlier ones; the last is  *)
(* its root.  A spread is only known to be there or not.                                        *)
EXTENDS Integers, Sequences
LOCAL INSTANCE SequencesExt
LOCAL INSTANCE FiniteSetsExt

CONSTANTS
    Formulas,     \* the expressions tried, and the errors: [is |-> "steps" or "error", ...]
    NoFormula,
    Internal,     \* texts that name nodes: not for a reader
    Depth         \* bounds the causes of causes

VARIABLE formula

-----------------------------------------------------------------------------
\* Errors.  An exception is by its class: "timeout", "quota", the status of an http error, "plain".
Retryable(exc) == exc \in {"timeout", "429", "500", "503"}
Error(message, user, exc, causes) ==
    [message |-> message, user |-> user, exc |-> exc, retryable |-> Retryable(exc), causes |-> causes]
FromException(message, exc) == Error(message, exc, exc, <<>>)

\* The text for a reader: the stated one, or else that of the first cause, or else the message.
Display(error) ==
    LET chain[n \in 0..Depth] == IF n = 0 THEN error ELSE chain[n - 1].causes[1]
        stop == CHOOSE n \in 0..Depth : /\ chain[n].user # "" \/ chain[n].causes = <<>>
                                       /\ \A k \in 0..(n - 1) : chain[k].user = "" /\ chain[k].causes # <<>>
    IN  IF chain[stop].user # "" THEN chain[stop].user ELSE chain[stop].message

\* What is stored of an error - the text for the reader, the exception's class - and what a restart
\* makes of it: the exception itself is gone.
RECURSIVE ToDict(_), FromDict(_)
ToDict(error) == [error EXCEPT !.user = Display(error), !.causes = [i \in DOMAIN @ |-> ToDict(@[i])]]
FromDict(stored) == [stored EXCEPT !.exc = "", !.causes = [i \in DOMAIN @ |-> FromDict(@[i])]]

-----------------------------------------------------------------------------
\* Attempts.  A failure that is stated while no exception is handled has only its own text.
Success(value) == [is |-> "succeeded", value |-> value]
NotYet == [is |-> "pending", error |-> ""]
FailureOf(error) == [is |-> "impossible", error |-> error, info |-> Error(error, "", "", <<>>)]
Caught(error, exc) == [is |-> "impossible", error |-> error, info |-> FromException(error, exc)]
IsOk(attempt) == attempt.is = "succeeded"
ErrorOr(attempt, default) == IF attempt.error = "" THEN default ELSE attempt.error

\* An amount: exact, or a measurement, whose spread may be zero.
Amount(core, kind, spread) == [core |-> core, kind |-> kind, spread |-> spread]
Measured(v) == v.kind = "measurement"

\* Mutant: a spread is lost when the other side is exact and the measured value is zero.
CombineByOwnValue(op, a, b) ==
    IF op = "mul" THEN (a.spread /\ a.core # 0) \/ (b.spread /\ b.core # 0) ELSE a.spread \/ (b.spread /\ op # "div")
\* _combine: a spread survives unless it is multiplied by zero.
Combine(op, a, b) ==
    CASE op \in {"add", "sub"} -> a.spread \/ b.spread
      [] op = "mul" -> (a.spread /\ b.core # 0) \/ (b.spread /\ a.core # 0)
      [] op = "div" -> a.spread \/ (b.spread /\ a.core # 0)

\* _binop: one measurement makes the outcome one.  Exact money refuses a measurement on its right.
Refuses(a, b) == a.kind = "money" /\ Measured(b)
Core(op, a, b) ==
    CASE op = "add" -> a.core + b.core [] op = "sub" -> a.core - b.core
      [] op = "mul" -> a.core * b.core [] op = "div" -> a.core \div b.core
Combined(op, a, b) ==
    Amount(Core(op, a, b), IF Measured(a) \/ Measured(b) THEN "measurement" ELSE "money", Combine(op, a, b))

-----------------------------------------------------------------------------
\* A reference to a node; a node without an attempt, or without a synchronous one, fails.
Referred(attempt) ==
    CASE attempt.is = "absent" -> FailureOf("not yet computed")
      [] attempt.is = "asynchronous" -> Caught("no sync attempt", "plain")
      [] OTHER -> attempt

\* Mutant: operands without a value are left out.
SumOfTheRest(results) ==
    LET good == SelectSeq(results, IsOk)
        Upto[n \in DOMAIN good] == IF n = 1 THEN good[1].value ELSE Combined("add", Upto[n - 1], good[n].value)
    IN  IF good = <<>> THEN FailureOf("no terms") ELSE Success(Upto[Len(good)])
\* Add: the first operand that has no value ends it; an addition that is refused is tried the other way.
Sum(results) ==
    LET bad == {i \in DOMAIN results : ~IsOk(results[i])}
        Upto[n \in DOMAIN results] ==
            IF n = 1 THEN results[1].value ELSE Combined("add", Upto[n - 1], results[n].value)
    IN  IF results = <<>> THEN FailureOf("no terms")
        ELSE IF bad # {} THEN FailureOf(ErrorOr(results[Min(bad)], "expression failed"))
        ELSE Success(Upto[Len(results)])
Binary(op, left, right) ==
    CASE ~IsOk(left) -> FailureOf(ErrorOr(left, "left operand failed"))
      [] IsOk(left) /\ ~IsOk(right) -> FailureOf(ErrorOr(right, "right operand failed"))
      [] OTHER -> IF op = "div" /\ right.value.core = 0 THEN Caught("cannot divide", "plain")
                  ELSE IF Refuses(left.value, right.value) THEN Caught("cannot", "plain")
                  ELSE Success(Combined(op, left.value, right.value))
Negated(result) == IF IsOk(result) THEN Success([result.value EXCEPT !.core = -@]) ELSE result

\* The selector of a commute: the fastest of the alternatives that lead there, the first of equals.
Feasible(results) == {i \in DOMAIN results : IsOk(results[i]) /\ results[i].value.kind # "no route"}
Fastest(results) ==
    CHOOSE i \in Feasible(results) :
        \A j \in Feasible(results) : results[i].value.core < results[j].value.core
                                     \/ (results[i].value.core = results[j].value.core /\ i <= j)
\* _alternative_reason: why an alternative leads nowhere.
AlternativeReason(attempt) ==
    IF attempt.is = "impossible" /\ attempt.error # "" THEN attempt.error ELSE "no route"
Choice(selector, results) ==
    LET reasons == SelectSeq(results, LAMBDA r : r.is = "impossible" \/ (IsOk(r) /\ r.value.kind = "no route"))
        causes == [i \in DOMAIN reasons |-> Error("alternative", AlternativeReason(reasons[i]), "", <<>>)]
        first == IF causes = <<>> THEN "no commute could be calculated" ELSE causes[1].user
    IN  IF selector = "fails" THEN FailureOf("selector failed")
        ELSE IF Feasible(results) # {} THEN results[Fastest(results)]
        ELSE [is |-> "impossible", error |-> "no alternative selected",
              info |-> Error("no alternative selected", first, "", causes)]

\* One step, given the outcomes of the earlier ones.
Outcome(step, of) ==
    CASE step.kind = "literal" -> Success(step.value)
      [] step.kind = "ref" -> Referred(step.attempt)
      [] step.kind = "add" -> Sum([i \in DOMAIN step.args |-> of[step.args[i]]])
      [] step.kind \in {"sub", "mul", "div"} -> Binary(step.kind, of[step.args[1]], of[step.args[2]])
      [] step.kind = "negate" -> Negated(of[step.args[1]])
      [] step.kind = "if" -> IF step.condition = "fails" THEN FailureOf("condition failed")
                             ELSE of[step.args[IF step.condition = "true" THEN 1 ELSE 2]]
      [] step.kind = "attr" -> LET result == of[step.args[1]] IN
                               IF IsOk(result) /\ result.value.kind = "nothing" THEN FailureOf("attr is None") ELSE result
      [] step.kind = "choose" -> Choice(step.selector, [i \in DOMAIN step.args |-> of[step.args[i]]])
Evaluated(steps) == LET of[i \in DOMAIN steps] == Outcome(steps[i], of) IN [i \in DOMAIN steps |-> of[i]]

\* to_formula_lines: what is shown of an evaluation, as pairs of the step and its outcome.
Lines(steps, outcomes) ==
    LET lines[i \in DOMAIN steps] ==
            LET step == steps[i] IN
            CASE step.kind \in {"literal", "ref"} -> <<<<i, outcomes[i]>>>>
              [] step.kind \in {"add", "sub", "mul", "div"} -> FlattenSeq([k \in DOMAIN step.args |-> lines[step.args[k]]])
              [] step.kind = "if" -> lines[step.args[IF step.condition = "true" THEN 1 ELSE 2]]
              [] step.kind = "choose" -> [k \in DOMAIN step.args |-> <<step.args[k], outcomes[step.args[k]]>>]
              [] OTHER -> <<>>     \* a negation and an attribute show no value
    IN  lines[Len(steps)]

-----------------------------------------------------------------------------
IsSteps == formula # NoFormula /\ formula.is = "steps"
Root(outcomes) == outcomes[Len(outcomes)]

\* The steps that the value is made of: the operands, the branch that was taken, the winner.
Used(steps, outcomes) ==
    LET Below(i) ==
            LET step == steps[i] IN
            CASE step.kind \in {"literal", "ref"} -> {}
              [] step.kind = "if" -> {step.args[IF step.condition = "true" THEN 1 ELSE 2]}
              [] step.kind = "choose" -> {step.args[k] : k \in {k \in DOMAIN step.args : outcomes[step.args[k]] = outcomes[i]}}
              [] OTHER -> ToSet(step.args)
        used[n \in 0..Len(steps)] == IF n = 0 THEN {Len(steps)} ELSE used[n - 1] \cup UNION {Below(i) : i \in used[n - 1]}
    IN  used[Len(steps)]
Leaves(steps, used) == {i \in used : steps[i].kind \in {"literal", "ref"}}

\* A value is made of values only, and it is certain exactly when all that it is made of is: an
\* estimate never becomes a fact, and what was not used brings no doubt.
DoubtTravels(steps, outcomes) ==
    LET used == Used(steps, outcomes)
        leaves == Leaves(steps, used)
        zero == \E i \in used : steps[i].kind \in {"mul", "div"} /\ \E k \in {1, 2} : outcomes[steps[i].args[k]].value.core = 0
    IN  IsOk(Root(outcomes)) =>
            /\ \A i \in leaves : IsOk(outcomes[i])
            /\ Root(outcomes).value.spread => \E i \in leaves : outcomes[i].value.spread
            /\ ~zero /\ (\A i \in used : steps[i].kind # "choose") /\ (\E i \in leaves : outcomes[i].value.spread)
                  => Root(outcomes).value.spread

\* A failure is reported as it was: with the text of an operand that failed, never as a value.
FailureIsTold(steps, outcomes) ==
    LET used == Used(steps, outcomes)
    IN  (\E i \in Leaves(steps, used) : ~IsOk(outcomes[i])) /\ (\A i \in used : steps[i].kind # "choose") =>
            /\ ~IsOk(Root(outcomes))
            /\ (Root(outcomes).is = "impossible" /\ \A i \in used : steps[i].kind \notin {"if", "attr", "div"}) =>
                  \E i \in used : ~IsOk(outcomes[i]) /\ Root(outcomes).error \in {outcomes[i].error, "left operand failed",
                                                                    "right operand failed", "expression failed"}

\* The formula lists each value that a sum was made of, once, and what it lists adds up to the result.
FormulaIsOfTheInputs(steps, outcomes) ==
    LET used == Used(steps, outcomes)
        lines == Lines(steps, outcomes)
    IN  (IsOk(Root(outcomes)) /\ \A i \in used : steps[i].kind \in {"literal", "ref", "add", "if"}) =>
            /\ {lines[k][1] : k \in DOMAIN lines} = Leaves(steps, used)
            /\ FoldLeft(LAMBDA sum, line : sum + line[2].value.core, 0, lines) = Root(outcomes).value.core

\* The choice is one of the alternatives, as it came, and no other is faster; when none leads
\* there, the reader gets the first reason and every reason is kept.
ChoiceIsBest(steps, outcomes) ==
    \A i \in DOMAIN steps : steps[i].kind = "choose" /\ steps[i].selector # "fails" =>
        LET results == {outcomes[steps[i].args[k]] : k \in DOMAIN steps[i].args}
            there == {r \in results : IsOk(r) /\ r.value.kind # "no route"}
        IN  IF there # {} THEN outcomes[i] \in there /\ \A r \in there : outcomes[i].value.core <= r.value.core
            ELSE /\ outcomes[i].is = "impossible"
                 /\ Len(outcomes[i].info.causes) = Len(SelectSeq(steps[i].args, LAMBDA a : outcomes[a].is # "pending"))
                 /\ Display(outcomes[i].info) \notin Internal

\* A restart keeps what a reader is told and whether a retry helps, at every level of the causes.
ErrorSurvives(error) ==
    LET restored == FromDict(ToDict(error))
    IN  /\ Display(restored) = Display(error) /\ restored.retryable = error.retryable
        /\ Len(restored.causes) = Len(error.causes)
        /\ \A i \in DOMAIN error.causes : /\ Display(restored.causes[i]) = Display(error.causes[i])
                                          /\ restored.causes[i].retryable = error.causes[i].retryable
        /\ (/\ error.user = "" /\ error.causes # <<>>
            /\ \A i \in DOMAIN error.causes : Display(error.causes[i]) \notin Internal) => Display(error) \notin Internal

ExpressionsHold ==
    /\ IsSteps => \A outcomes \in {Evaluated(formula.steps)} :
          /\ DoubtTravels(formula.steps, outcomes) /\ FailureIsTold(formula.steps, outcomes)
          /\ FormulaIsOfTheInputs(formula.steps, outcomes) /\ ChoiceIsBest(formula.steps, outcomes)
    /\ (formula # NoFormula /\ formula.is = "error") => ErrorSurvives(formula.error)
=============================================================================
